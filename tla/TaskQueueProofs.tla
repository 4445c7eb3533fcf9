--------------------------- MODULE TaskQueueProofs ---------------------------
(***************************************************************************)
(* What is proved of TaskQueue, for any tasks, any limit and any number of *)
(* calls and crashes: no slot leaks, the limit holds while nobody resumes  *)
(* or cancels, and whatever a backend says is read by a pump.              *)
(***************************************************************************)
EXTENDS TaskQueue, SequenceTheorems, FiniteSetTheorems, TLAPS

(* A task no backend has run: it waits, its start failed, or it was         *)
(* cancelled in the queue.  Nothing of it can be resumed.                   *)
Unstarted(r) == r.state = "queued" \/ (r.state = "stopped" /\ ~r.resumable)

NeverRan(t) ==
    /\ Unstarted(stored[t]) /\ Unstarted(row[t])
    /\ \A i \in DOMAIN writes : writes[i].task = t => Unstarted(writes[i].row)

(* _kick may still hand it to a backend.                                    *)
Waits(t) == stored[t].state = "queued" \/ t \in kick.batch

(* _kick is in the middle of its failed start.                              *)
Failing(t) == kick.at \in {"error", "finish", "drain"} /\ kick.task = t

(* It was cancelled in the queue and the database does not say so yet.      *)
Withdrawn(t) ==
    /\ canceller.task = t /\ canceller.at \in {"finish", "drain"}
    /\ \E i \in DOMAIN writes : writes[i].task = t

(* The cancel that is under way will start a pump for it.                   *)
Promised(t) == canceller.task = t /\ canceller.at \in {"stopping", "releasing"}

(* Nothing is known of a task before its row is there.                      *)
RowsExist ==
    /\ \A t \in Tasks : stored[t].state = "absent" <=> t \notin Range(created)
    /\ \A i \in DOMAIN writes :
          writes[i].row.state # "absent" /\ writes[i].task \in Range(created)
    /\ kick.batch \subseteq Range(created)
    /\ Failing(kick.task) => kick.task \in Range(created)
    /\ \A t \in Tasks :
          known[t] \/ t \in launched \/ cursor[t] > 0 => t \in Range(created)

(* Every event says a state; none says "queued" of a task that this process *)
(* did not launch.                                                          *)
LogsSpeak ==
    \A t \in Tasks : \A i \in DOMAIN log[t] :
        /\ log[t][i].type # "error" /\ log[t][i].state # "absent"
        /\ t \notin launched /\ i > cursor[t] => log[t][i].state # "queued"

(* Of a task the backend does not know there is no log, nobody reads it, and *)
(* it never ran if this process took it up.                                  *)
Unheard ==
    \A t \in Tasks : ~known[t] =>
        /\ log[t] = <<>> /\ ~active[t] /\ pump[t] = IdlePump /\ waiting[t] = 0
        /\ sender # t /\ ~Promised(t)
        /\ cursor[t] = 0 \/ NeverRan(t)
        /\ t \in launched \/ Waits(t) => NeverRan(t)

(* What waits is unknown to the backend; it was counted up once, by a cancel, *)
(* and that cancel is under way until the database says so.  A start that     *)
(* failed leaves the task unknown.                                            *)
InQueue(t) ==
    /\ ~known[t] /\ cursor[t] <= 1
    /\ row[t].state = "queued" => cursor[t] = 0
    /\ row[t].state = "stopped" /\ stored[t].state = "queued" => Withdrawn(t)

Queue ==
    /\ \A i \in DOMAIN writes :
          writes[i].task \notin launched => writes[i].row.state # "queued"
    /\ \A t \in Tasks \ launched : Waits(t) => InQueue(t)
    /\ \A t \in Tasks : Failing(t) => ~known[t] /\ t \in launched

(* A pump is where the cursor is, and a log that is over ends with a result. *)
Pumped ==
    \A t \in Tasks :
        /\ known[t] => cursor[t] <= Len(log[t])
        /\ pump[t].at = "reading" => pump[t].pos = cursor[t]
        /\ ~active[t] /\ cursor[t] < Len(log[t]) => log[t][Len(log[t])].type = "result"

(* Each result ends a pump, so there is a pump for each result that is still *)
(* to be handled, and one more for the run that goes on.                     *)
Ahead(l, c) == {i \in c + 1 .. Len(l) : l[i].type = "result"}
One(yes) == IF yes THEN 1 ELSE 0
Needed(t) == Cardinality(Ahead(log[t], cursor[t])) + One(active[t])
Readers(t) == One(pump[t].at = "reading") + waiting[t] + One(Promised(t))

EnoughReaders == \A t \in Tasks : Needed(t) <= Readers(t)

(* When the number of the failed start's result was used meanwhile, a cancel *)
(* used it, and that cancel gives the slot back.                             *)
FailedOnce ==
    kick.at = "error" /\ kick.task \in live /\ kick.seq <= cursor[kick.task] =>
        canceller.at = "finish" /\ canceller.task = kick.task

(* While nobody cancels or resumes, a run keeps its slot and is the only one *)
(* of its task.                                                              *)
Undisturbed == calls.spent["cancel"] = 0 /\ calls.spent["resume"] = 0

FirstRun(t) ==
    /\ t \in live /\ known[t] /\ pump[t].at # "finish"
    /\ \A i \in DOMAIN log[t] : log[t][i].type # "result"

Quiet ==
    Undisturbed =>
        /\ canceller = IdleCancel /\ sender = Nobody
        /\ Cardinality(live) <= Limit
        /\ \A t \in Tasks : active[t] => FirstRun(t)

QueueInv ==
    /\ TypeOK /\ IsFiniteSet(live)
    /\ RowsExist /\ LogsSpeak /\ Unheard /\ Queue
    /\ Pumped /\ EnoughReaders /\ SlotsReturned /\ FailedOnce /\ Quiet

-----------------------------------------------------------------------------
(* Counting the results that are still to be handled *)

LEMMA AheadIsFinite ==
    ASSUME NEW l \in Seq(Event), NEW c \in Nat
    PROVE  /\ IsFiniteSet(Ahead(l, c)) /\ Cardinality(Ahead(l, c)) \in Nat
           /\ Cardinality(Ahead(l, c)) = 0 <=> Ahead(l, c) = {}
<1>1. IsFiniteSet(c + 1 .. Len(l))
  BY FS_Interval
<1>2. IsFiniteSet(Ahead(l, c))
  BY <1>1, FS_Subset DEF Ahead
<1> QED
  BY <1>2, FS_CardinalityType, FS_EmptySet

\* Nothing is ahead at the end of the log.
LEMMA NothingAhead ==
    ASSUME NEW l \in Seq(Event), NEW c \in Nat, Len(l) <= c
    PROVE  Cardinality(Ahead(l, c)) = 0
<1>1. Ahead(l, c) = {}
  BY DEF Ahead
<1> QED
  BY <1>1, FS_EmptySet

\* A log whose last event is a result, and was not read, has one ahead.
LEMMA ResultAhead ==
    ASSUME NEW l \in Seq(Event), NEW c \in Nat, c < Len(l),
           l[Len(l)].type = "result"
    PROVE  Cardinality(Ahead(l, c)) >= 1
<1>1. Len(l) \in Ahead(l, c)
  BY DEF Ahead
<1> QED
  BY <1>1, AheadIsFinite

\* Two logs that agree on what is a result.
LEMMA AheadAgrees ==
    ASSUME NEW l, NEW k, NEW c, Len(k) = Len(l),
           \A i \in c + 1 .. Len(l) : k[i].type = "result" <=> l[i].type = "result"
    PROVE  Ahead(k, c) = Ahead(l, c)
BY DEF Ahead

\* An event at the end.
LEMMA AheadGrows ==
    ASSUME NEW l \in Seq(Event), NEW c \in Nat, c <= Len(l), NEW e \in Event
    PROVE  Cardinality(Ahead(Append(l, e), c))
               = Cardinality(Ahead(l, c)) + One(e.type = "result")
<1> DEFINE k == Append(l, e)
<1>1. /\ Len(k) = Len(l) + 1 /\ k[Len(l) + 1] = e
      /\ \A i \in 1 .. Len(l) : k[i] = l[i]
  OBVIOUS
<1>2. CASE e.type = "result"
  <2>1. Ahead(k, c) = Ahead(l, c) \cup {Len(l) + 1}
    BY <1>1, <1>2 DEF Ahead
  <2>2. Len(l) + 1 \notin Ahead(l, c)
    BY DEF Ahead
  <2>3. IsFiniteSet(Ahead(l, c)) /\ Cardinality(Ahead(l, c)) \in Nat
    BY AheadIsFinite
  <2> QED
    BY <1>2, <2>1, <2>2, <2>3, FS_AddElement DEF One
<1>3. CASE e.type # "result"
  <2>1. Ahead(k, c) = Ahead(l, c)
    BY <1>1, <1>3 DEF Ahead
  <2> QED
    BY <1>3, <2>1, AheadIsFinite DEF One
<1> QED
  BY <1>2, <1>3

\* The next event is handled.
LEMMA AheadShrinks ==
    ASSUME NEW l \in Seq(Event), NEW c \in Nat, c < Len(l)
    PROVE  Cardinality(Ahead(l, c))
               = Cardinality(Ahead(l, c + 1)) + One(l[c + 1].type = "result")
<1>1. CASE l[c + 1].type = "result"
  <2>1. Ahead(l, c) = Ahead(l, c + 1) \cup {c + 1}
    BY <1>1 DEF Ahead
  <2>2. c + 1 \notin Ahead(l, c + 1)
    BY DEF Ahead
  <2>3. IsFiniteSet(Ahead(l, c + 1)) /\ Cardinality(Ahead(l, c + 1)) \in Nat
    BY AheadIsFinite
  <2> QED
    BY <1>1, <2>1, <2>2, <2>3, FS_AddElement DEF One
<1>2. CASE l[c + 1].type # "result"
  <2>1. Ahead(l, c) = Ahead(l, c + 1)
    BY <1>2 DEF Ahead
  <2> QED
    BY <1>2, <2>1, AheadIsFinite DEF One
<1> QED
  BY <1>1, <1>2

-----------------------------------------------------------------------------
(* What the operations do *)

Write(t, r) == [task |-> t, row |-> r]

LEMMA RowsAfter ==
    ASSUME TypeOK, NEW t \in Tasks, NEW e \in Event, NEW n \in Nat,
           e.type = "error" \/ e.state # "absent"
    PROVE  /\ RowAfter(t, e, n) \in TaskRow
           /\ RowAfter(t, e, n).state = IF e.type = "error" THEN row[t].state ELSE e.state
           /\ e.type = "error" => RowAfter(t, e, n).resumable = row[t].resumable
           /\ e.type = "result" => RowAfter(t, e, n).resumable = e.resumable
<1>1. row[t] \in TaskRow /\ resumable[t] \in BOOLEAN
  BY DEF TypeOK
<1>2. (resumable[t] /\ ~closed[t] /\ ~active[t]) \in BOOLEAN
  OBVIOUS
<1> QED
  BY <1>1, <1>2 DEF RowAfter, TaskRow, Event

\* Handling an event touches one task and adds one update for the writer.
LEMMA Handled ==
    ASSUME TypeOK, NEW t \in Tasks, NEW e \in Event, NEW n \in Nat,
           e.type = "error" \/ e.state # "absent", Handle(t, e, n)
    PROVE  /\ cursor' \in [Tasks -> Nat] /\ row' \in [Tasks -> TaskRow]
           /\ writes' \in Seq([task : Tasks, row : TaskRow])
           /\ cursor'[t] = n /\ row'[t] = RowAfter(t, e, n)
           /\ \A u \in Tasks \ {t} : cursor'[u] = cursor[u] /\ row'[u] = row[u]
           /\ Len(writes') = Len(writes) + 1
           /\ writes'[Len(writes) + 1] = Write(t, RowAfter(t, e, n))
           /\ \A i \in DOMAIN writes : writes'[i] = writes[i]
           /\ DOMAIN writes' = DOMAIN writes \cup {Len(writes) + 1}
<1>1. RowAfter(t, e, n) \in TaskRow
  BY RowsAfter
<1>2. Write(t, RowAfter(t, e, n)) \in [task : Tasks, row : TaskRow]
  BY <1>1 DEF Write
<1>3. writes \in Seq([task : Tasks, row : TaskRow]) /\ cursor \in [Tasks -> Nat]
      /\ row \in [Tasks -> TaskRow]
  BY DEF TypeOK
<1>4. writes' = Append(writes, Write(t, RowAfter(t, e, n)))
  BY DEF Handle, Write
<1>5. cursor' \in [Tasks -> Nat] /\ row' \in [Tasks -> TaskRow]
      /\ cursor'[t] = n /\ row'[t] = RowAfter(t, e, n)
      /\ \A u \in Tasks \ {t} : cursor'[u] = cursor[u] /\ row'[u] = row[u]
  BY <1>1, <1>3 DEF Handle, Set
<1> HIDE DEF Write
<1>6. writes' \in Seq([task : Tasks, row : TaskRow]) /\ Len(writes') = Len(writes) + 1
      /\ DOMAIN writes = 1 .. Len(writes) /\ DOMAIN writes' = 1 .. Len(writes) + 1
      /\ Len(writes) \in Nat
  BY <1>2, <1>3, <1>4
<1>7. /\ writes'[Len(writes) + 1] = Write(t, RowAfter(t, e, n))
      /\ \A i \in DOMAIN writes : writes'[i] = writes[i]
  BY <1>2, <1>3, <1>4
<1>8. DOMAIN writes' = DOMAIN writes \cup {Len(writes) + 1}
  BY <1>6
<1> QED
  BY <1>5, <1>6, <1>7, <1>8

LEMMA EventTypes ==
    /\ Error \in Event /\ Error.type = "error"
    /\ \A s \in Terminal, again \in BOOLEAN :
          /\ Result(s, again) \in Event /\ Result(s, again).type = "result"
          /\ Result(s, again).state = s /\ Result(s, again).resumable = again
    /\ \A s \in States : /\ Status(s) \in Event /\ Status(s).type = "status"
                         /\ Status(s).state = s
    /\ Blank \in Event /\ Blank.type = "blank" /\ Blank.state = "queued"
    /\ Terminal \subseteq States /\ "stopped" \in Terminal /\ "absent" \notin States
    /\ "queued" \in States /\ "running" \in States
    /\ "queued" \notin Terminal /\ "running" \notin Terminal
BY DEF Error, Event, Result, Status, Blank, Terminal, States

\* A pump handles the event behind the cursor.
LEMMA Read ==
    ASSUME TypeOK, LogsSpeak, Unheard, Pumped, NEW t \in Tasks, PumpReads(t)
    PROVE  /\ known[t] /\ pump[t].at = "reading" /\ cursor[t] < Len(log[t])
           /\ log[t][cursor[t] + 1] \in Event /\ cursor[t] + 1 \in Nat
           /\ log[t][cursor[t] + 1].type # "error" /\ log[t][cursor[t] + 1].state # "absent"
           /\ t \notin launched => log[t][cursor[t] + 1].state # "queued"
           /\ Handle(t, log[t][cursor[t] + 1], cursor[t] + 1)
           /\ log' \in [Tasks -> Seq(Event)]
           /\ \A u \in Tasks : Len(log'[u]) = Len(log[u])
           /\ \A u \in Tasks : \A i \in DOMAIN log[u] :
                 /\ log'[u][i].type = log[u][i].type
                 /\ log'[u][i].state = log[u][i].state \/ log'[u][i].state = "stopped"
           /\ pump' = Set(pump, t,
                 IF log[t][cursor[t] + 1].type = "result"
                 THEN [at |-> "finish", pos |-> cursor[t] + 1]
                 ELSE [at |-> "reading", pos |-> cursor[t] + 1])
<1> DEFINE n == cursor[t] + 1
           e == log[t][n]
           m == IF e.type = "result" THEN Result("stopped", FALSE) ELSE e
<1>1. /\ pump[t].at = "reading" /\ pump[t].pos = cursor[t] /\ cursor[t] \in Nat
      /\ log \in [Tasks -> Seq(Event)] /\ n \in 1 .. Len(log[t]) /\ cursor[t] < Len(log[t])
  BY DEF PumpReads, TypeOK, Pumped
<1>2. known[t]
  BY <1>1 DEF Unheard, IdlePump
<1>3. e \in Event /\ n \in DOMAIN log[t] /\ m \in Event /\ m.type = e.type
      /\ (m.state = e.state \/ m.state = "stopped")
  <2>1. e \in Event /\ n \in DOMAIN log[t]
    BY <1>1
  <2>2. /\ Result("stopped", FALSE) \in Event /\ Result("stopped", FALSE).type = "result"
        /\ Result("stopped", FALSE).state = "stopped"
    BY EventTypes
  <2> HIDE DEF e, n
  <2> QED
    BY <2>1, <2>2
<1>4. e.type # "error" /\ e.state # "absent" /\ (t \notin launched => e.state # "queued")
  BY <1>1, <1>3 DEF LogsSpeak
<1>5. /\ Handle(t, e, n)
      /\ log' = [log EXCEPT ![t][n] = m]
      /\ pump' = Set(pump, t,
                 IF e.type = "result" THEN [at |-> "finish", pos |-> n]
                 ELSE [at |-> "reading", pos |-> n])
  BY <1>1 DEF PumpReads
<1>6. log' = [log EXCEPT ![t] = [log[t] EXCEPT ![n] = m]]
  BY <1>5
<1>7. /\ [log[t] EXCEPT ![n] = m] \in Seq(Event)
      /\ Len([log[t] EXCEPT ![n] = m]) = Len(log[t])
      /\ \A i \in DOMAIN log[t] : [log[t] EXCEPT ![n] = m][i] = IF i = n THEN m ELSE log[t][i]
  <2>1. log[t] \in Seq(Event) /\ n \in 1 .. Len(log[t]) /\ m \in Event
    BY <1>1, <1>3
  <2>2. DOMAIN log[t] = 1 .. Len(log[t])
    BY <2>1
  <2> HIDE DEF m, n
  <2> QED
    BY <2>1, <2>2, ExceptSeq
<1>8. /\ log' \in [Tasks -> Seq(Event)]
      /\ \A u \in Tasks : Len(log'[u]) = Len(log[u])
      /\ \A u \in Tasks : \A i \in DOMAIN log[u] :
            log'[u][i] = IF u = t /\ i = n THEN m ELSE log[u][i]
  BY <1>1, <1>6, <1>7
<1>9. \A u \in Tasks : \A i \in DOMAIN log[u] :
            /\ log'[u][i].type = log[u][i].type
            /\ log'[u][i].state = log[u][i].state \/ log'[u][i].state = "stopped"
  BY <1>3, <1>8
<1> HIDE DEF e, m, n
<1>10. e = log[t][cursor[t] + 1] /\ n = cursor[t] + 1
  BY DEF e, n
<1> QED
  BY <1>1, <1>2, <1>3, <1>4, <1>5, <1>8, <1>9, <1>10

\* A task that comes back from the database comes back with an idle log.
Ran(t) == known[t] \/ ~Unstarted(stored[t])

LEMMA WhoMayGoOn ==
    ASSUME NEW t \in Tasks,
           MaySend(t) \/ (MayCancel(t) /\ (stored[t].state = "queued" => known[t]))
    PROVE  Ran(t) /\ stored[t].state # "absent"
BY DEF MaySend, MayResume, MayCancel, Ran, Unstarted, Terminal

LEMMA Registering ==
    ASSUME TypeOK, LogsSpeak, Unheard, Pumped, NEW t \in Tasks, Ran(t)
    PROVE  /\ Registered(t).log \in Seq(Event) /\ Registered(t).cursor \in Nat
           /\ Registered(t).closed \in BOOLEAN /\ Registered(t).resumable \in BOOLEAN
           /\ Registered(t).cursor <= Len(Registered(t).log)
           /\ Cardinality(Ahead(Registered(t).log, Registered(t).cursor))
                  = Cardinality(Ahead(log[t], cursor[t]))
           /\ \A i \in DOMAIN Registered(t).log :
                 /\ Registered(t).log[i].type # "error"
                 /\ Registered(t).log[i].state # "absent"
                 /\ t \notin launched /\ i > Registered(t).cursor =>
                       Registered(t).log[i].state # "queued"
           /\ known[t] => /\ Registered(t).log = log[t] /\ Registered(t).cursor = cursor[t]
                          /\ Registered(t).closed = closed[t]
                          /\ Registered(t).resumable = resumable[t]
           /\ ~known[t] => /\ Registered(t).cursor = Len(Registered(t).log)
                           /\ ~Registered(t).closed
                           /\ \A i \in DOMAIN Registered(t).log :
                                 Registered(t).log[i].type = "blank"
<1>1. /\ log[t] \in Seq(Event) /\ cursor[t] \in Nat /\ stored[t].seq \in Nat
      /\ closed[t] \in BOOLEAN /\ resumable[t] \in BOOLEAN
  BY DEF TypeOK, TaskRow
<1>2. CASE known[t]
  BY <1>1, <1>2 DEF Registered, LogsSpeak, Pumped
<1>3. CASE ~known[t]
  <2> DEFINE b == [i \in 1 .. stored[t].seq |-> Blank]
  <2>1. log[t] = <<>> /\ cursor[t] = 0
    BY <1>3 DEF Unheard, Ran, NeverRan
  <2>2. /\ b \in Seq(Event) /\ Len(b) = stored[t].seq
        /\ \A i \in DOMAIN b : b[i] = Blank /\ i <= stored[t].seq
    <3>1. Blank \in Event
      BY EventTypes
    <3> HIDE DEF Blank
    <3> QED
      BY <1>1, <3>1
  <2>3. /\ Registered(t).log = b /\ Registered(t).cursor = stored[t].seq
        /\ Registered(t).closed = FALSE /\ Registered(t).resumable = TRUE
    BY <1>1, <1>3, <2>1 DEF Registered, Upper
  <2> HIDE DEF b
  <2>4. Cardinality(Ahead(b, stored[t].seq)) = 0 /\ Cardinality(Ahead(log[t], cursor[t])) = 0
    <3>1. Len(b) <= stored[t].seq /\ Len(log[t]) <= cursor[t]
      BY <1>1, <2>1, <2>2
    <3> QED
      BY <1>1, <2>2, <3>1, NothingAhead
  <2>5. \A i \in DOMAIN b : b[i].type = "blank" /\ b[i].state # "absent" /\ i <= stored[t].seq
    BY <2>2, EventTypes
  <2>6. Cardinality(Ahead(Registered(t).log, Registered(t).cursor))
          = Cardinality(Ahead(log[t], cursor[t]))
    BY <2>3, <2>4
  <2>7. /\ Registered(t).log \in Seq(Event) /\ Registered(t).cursor \in Nat
        /\ Registered(t).closed \in BOOLEAN /\ Registered(t).resumable \in BOOLEAN
        /\ Registered(t).cursor = Len(Registered(t).log) /\ ~Registered(t).closed
    BY <1>1, <2>2, <2>3
  <2>8. \A i \in DOMAIN Registered(t).log :
           /\ Registered(t).log[i].type = "blank" /\ Registered(t).log[i].state # "absent"
           /\ i <= Registered(t).cursor /\ i \in Nat
    BY <1>1, <2>2, <2>3, <2>5
  <2> HIDE <2>3
  <2> QED
    BY <1>3, <2>6, <2>7, <2>8
<1> QED
  BY <1>2, <1>3

-----------------------------------------------------------------------------
(* Types, one group of variables at a time *)

RowsAbsent == \A t \in Tasks : row[t].state = "absent" <=> t \notin Range(created)

Updates == Seq([task : Tasks, row : TaskRow])

DataTypes ==
    /\ created \in Seq(Tasks) /\ RowsAbsent
    /\ stored \in [Tasks -> TaskRow] /\ row \in [Tasks -> TaskRow]
    /\ writes \in Updates /\ cursor \in [Tasks -> Nat]

SlotTypes == live \subseteq Tasks /\ launched \subseteq Tasks

KickPlaces == {"idle", "flush", "read", "walk", "error", "finish", "drain"}

KickTypes ==
    /\ kick \in [at : KickPlaces, batch : SUBSET Tasks, task : Tasks \cup {Nobody}, seq : Nat]
    /\ kick.at \in {"error", "finish", "drain"} => kick.task \in Tasks
    /\ kickWanted \in BOOLEAN

PumpTypes ==
    /\ pump \in [Tasks -> [at : {"none", "reading", "finish", "drain"}, pos : Nat]]
    /\ waiting \in [Tasks -> Nat]

CallerTypes ==
    /\ sender \in Tasks \cup {Nobody}
    /\ canceller \in [at : {"idle", "finish", "drain", "stopping", "releasing"},
                     task : Tasks \cup {Nobody}]
    /\ canceller.at # "idle" => canceller.task \in Tasks

BackendTypes ==
    /\ known \in [Tasks -> BOOLEAN] /\ active \in [Tasks -> BOOLEAN]
    /\ closed \in [Tasks -> BOOLEAN] /\ resumable \in [Tasks -> BOOLEAN]
    /\ log \in [Tasks -> Seq(Event)]

CallTypes == calls \in [budget : Budgets, spent : [Calls -> Nat]]

Types ==
    /\ DataTypes /\ SlotTypes /\ KickTypes /\ PumpTypes /\ CallerTypes
    /\ BackendTypes /\ CallTypes

LEMMA AllTypes == (TypeOK <=> Types) /\ (TypeOK' <=> Types')
BY DEF TypeOK, Types, DataTypes, RowsAbsent, SlotTypes, KickTypes, KickPlaces, PumpTypes, CallerTypes,
       BackendTypes, CallTypes, Updates

LEMMA TypesLeft ==
    /\ DataTypes /\ UNCHANGED <<database, rows>> => DataTypes'
    /\ SlotTypes /\ UNCHANGED slots => SlotTypes'
    /\ KickTypes /\ UNCHANGED kicks => KickTypes'
    /\ PumpTypes /\ UNCHANGED pumps => PumpTypes'
    /\ CallerTypes /\ UNCHANGED callers => CallerTypes'
    /\ BackendTypes /\ UNCHANGED backend => BackendTypes'
    /\ CallTypes /\ UNCHANGED calls => CallTypes'
<1>1. DataTypes /\ UNCHANGED <<database, rows>> => DataTypes'
  BY DEF DataTypes, RowsAbsent, database, rows
<1>2. SlotTypes /\ UNCHANGED slots => SlotTypes'
  BY DEF SlotTypes, slots
<1>3. KickTypes /\ UNCHANGED kicks => KickTypes'
  BY DEF KickTypes, kicks
<1>4. PumpTypes /\ UNCHANGED pumps => PumpTypes'
  BY DEF PumpTypes, pumps
<1>5. CallerTypes /\ UNCHANGED callers => CallerTypes'
  BY DEF CallerTypes, callers
<1>6. BackendTypes /\ UNCHANGED backend => BackendTypes'
  BY DEF BackendTypes, backend
<1>7. CallTypes /\ UNCHANGED calls => CallTypes'
  BY DEF CallTypes
<1> QED
  BY <1>1, <1>2, <1>3, <1>4, <1>5, <1>6, <1>7

LEMMA Counted ==
    ASSUME CallTypes, NEW call \in Calls, Count(call)
    PROVE  /\ CallTypes'
           /\ calls'.spent[call] = calls.spent[call] + 1
           /\ calls'.spent[call] > 0
           /\ \A c \in Calls \ {call} : calls'.spent[c] = calls.spent[c]
<1>1. /\ calls.spent \in [Calls -> Nat]
      /\ calls' = [calls EXCEPT !.spent = [calls.spent EXCEPT ![call] = calls.spent[call] + 1]]
  BY DEF CallTypes, Count
<1>2. [calls.spent EXCEPT ![call] = calls.spent[call] + 1] \in [Calls -> Nat]
  BY <1>1
<1>3. calls'.spent = [calls.spent EXCEPT ![call] = calls.spent[call] + 1]
  BY <1>1 DEF CallTypes
<1>4. CallTypes'
  BY <1>1, <1>2 DEF CallTypes
<1> QED
  BY <1>1, <1>3, <1>4

\* A row that was there takes another state.
LEMMA RowTyped ==
    ASSUME TypeOK, NEW t \in Tasks, NEW e \in Event, NEW n \in Nat,
           e.type = "error" \/ e.state # "absent", Handle(t, e, n),
           t \in Range(created), created' = created, stored' = stored
    PROVE  DataTypes'
<1>1. /\ cursor' \in [Tasks -> Nat] /\ row' \in [Tasks -> TaskRow] /\ writes' \in Updates
      /\ row'[t] = RowAfter(t, e, n)
      /\ \A u \in Tasks \ {t} : row'[u] = row[u]
  BY Handled DEF Updates
<1>2. DataTypes
  BY AllTypes DEF Types
<1>3. row'[t].state # "absent"
  <2>1. row[t].state # "absent"
    BY <1>2 DEF DataTypes, RowsAbsent
  <2> QED
    BY <1>1, <2>1, RowsAfter
<1> QED
  BY <1>1, <1>2, <1>3 DEF DataTypes, RowsAbsent

LEMMA KickStepTypes ==
    ASSUME TypeOK, RowsExist, Walk \/ Kick
    PROVE  Types'
<1>0. Types
  BY AllTypes
<1> USE <1>0, TypesLeft DEF Types
<1>1. CASE KickEnds \/ KickSkips \/ KickBegins \/ KickFlushed \/ KickReads
  <2>1. Snapshot.batch \subseteq Tasks
    BY DEF Snapshot, DataTypes, Range
  <2>2. KickTypes'
    <3>1. CASE KickEnds
      BY <3>1 DEF KickTypes, KickPlaces, KickEnds, IdleKick
    <3>2. CASE KickSkips
      BY <3>2 DEF KickTypes, KickPlaces, KickSkips, Walking, Past
    <3>3. CASE KickBegins \/ KickFlushed \/ KickReads
      BY <2>1, <3>3 DEF KickTypes, KickPlaces, KickBegins, KickFlushed, KickReads, Snapshot
    <3> QED
      BY <1>1, <3>1, <3>2, <3>3
  <2> QED
    BY <1>1, <2>2 DEF KickEnds, KickSkips, KickBegins, KickFlushed, KickReads
<1>2. CASE Start
  <2> PICK t \in Tasks \ launched :
        /\ Enlist(t) /\ known' = Set(known, t, TRUE) /\ active' = Set(active, t, TRUE)
        /\ log' = Set(log, t, <<Status("queued")>>) /\ EnsurePump(t) /\ kick' = Past(t)
    BY <1>2 DEF Start
  <2>1. <<Status("queued")>> \in Seq(Event)
    BY EventTypes
  <2>2. SlotTypes'
    BY DEF SlotTypes, Enlist
  <2>3. KickTypes'
    BY <1>2 DEF KickTypes, KickPlaces, Start, Past
  <2>4. PumpTypes'
    BY <1>2 DEF PumpTypes, Start, EnsurePump, Set
  <2>5. BackendTypes'
    BY <1>2, <2>1 DEF BackendTypes, Start, Set
  <2> QED
    BY <1>2, <2>2, <2>3, <2>4, <2>5 DEF Start
<1>3. CASE StartFails
  <2> PICK t \in Tasks \ launched : Turn(t) /\ Enlist(t) /\ Handle(t, Error, cursor[t] + 1)
         /\ kick' = [Past(t) EXCEPT !.at = "error", !.task = t, !.seq = cursor[t] + 2]
    BY <1>3 DEF StartFails
  <2>1. cursor[t] \in Nat /\ cursor[t] + 1 \in Nat /\ cursor[t] + 2 \in Nat
    BY DEF DataTypes
  <2>2. DataTypes'
    BY <1>3, <2>1, EventTypes, RowTyped DEF StartFails, Turn, RowsExist
  <2>3. KickTypes'
    BY <1>3, <2>1 DEF KickTypes, KickPlaces, StartFails, Past
  <2>4. SlotTypes'
    BY DEF SlotTypes, Enlist
  <2> QED
    BY <1>3, <2>2, <2>3, <2>4 DEF StartFails
<1>4. CASE FailedEarly
  <2>1. /\ kick.task \in Tasks /\ kick.seq \in Nat /\ kick.at = "error"
        /\ kick.task \in Range(created)
    BY <1>4 DEF KickTypes, FailedEarly, RowsExist, Failing
  <2>2. DataTypes'
    <3>1. CASE kick.seq <= cursor[kick.task]
      BY <1>4, <3>1 DEF FailedEarly, database
    <3>2. CASE ~(kick.seq <= cursor[kick.task])
      <4>1. Handle(kick.task, Result("stopped", FALSE), kick.seq)
        BY <1>4, <3>2 DEF FailedEarly
      <4>2. /\ Result("stopped", FALSE) \in Event
            /\ Result("stopped", FALSE).state # "absent"
        BY EventTypes
      <4> QED
        BY <1>4, <2>1, <4>1, <4>2, RowTyped DEF FailedEarly
    <3> QED
      BY <3>1, <3>2
  <2>3. KickTypes'
    <3>1. kick' = WalksOn \/ kick' = [kick EXCEPT !.at = "finish"]
      BY <1>4 DEF FailedEarly
    <3>2. CASE kick' = WalksOn
      BY <1>4, <3>2 DEF KickTypes, KickPlaces, FailedEarly, WalksOn
    <3>3. CASE kick' = [kick EXCEPT !.at = "finish"]
      BY <1>4, <2>1, <3>3 DEF KickTypes, KickPlaces, FailedEarly
    <3> QED
      BY <3>1, <3>2, <3>3
  <2> QED
    BY <1>4, <2>2, <2>3 DEF FailedEarly
<1>5. CASE FailedFinishes \/ FailedReturns
  <2>1. KickTypes'
    <3>1. CASE FailedFinishes
      BY <3>1 DEF KickTypes, KickPlaces, FailedFinishes
    <3>2. CASE FailedReturns
      BY <3>2 DEF KickTypes, KickPlaces, FailedReturns, Drained, WalksOn
    <3> QED
      BY <1>5, <3>1, <3>2
  <2>2. SlotTypes'
    BY <1>5 DEF SlotTypes, FailedFinishes, FailedReturns, FreeSlot, slots
  <2> QED
    BY <1>5, <2>1, <2>2 DEF FailedFinishes, FailedReturns
<1> QED
  BY <1>1, <1>2, <1>3, <1>4, <1>5 DEF Walk, Kick

LEMMA OneMore ==
    ASSUME NEW l \in Seq(Tasks), NEW t \in Tasks
    PROVE  Append(l, t) \in Seq(Tasks) /\ Range(Append(l, t)) = Range(l) \cup {t}
<1>1. /\ Append(l, t) \in Seq(Tasks) /\ DOMAIN Append(l, t) = 1 .. Len(l) + 1
      /\ DOMAIN l = 1 .. Len(l) /\ Len(l) \in Nat
      /\ Append(l, t)[Len(l) + 1] = t
      /\ \A i \in 1 .. Len(l) : Append(l, t)[i] = l[i]
  OBVIOUS
<1> QED
  BY <1>1 DEF Range

LEMMA PumpStepTypes ==
    ASSUME TypeOK, RowsExist, LogsSpeak, Unheard, Pumped, NEW t \in Tasks, Pump(t) \/ Run(t)
    PROVE  Types'
<1>0. Types
  BY AllTypes
<1> USE <1>0, TypesLeft DEF Types
<1>1. CASE PumpStarts(t) \/ PumpFinishes(t) \/ PumpReturns(t) \/ PumpEnds(t)
  <2>1. PumpTypes'
    <3>1. CASE PumpStarts(t)
      BY <3>1 DEF PumpTypes, DataTypes, PumpStarts, Set
    <3>2. CASE PumpFinishes(t)
      BY <3>2 DEF PumpTypes, PumpFinishes
    <3>3. CASE PumpReturns(t) \/ PumpEnds(t)
      BY <3>3 DEF PumpTypes, PumpReturns, PumpEnds, Set, IdlePump
    <3> QED
      BY <1>1, <3>1, <3>2, <3>3
  <2>2. KickTypes'
    BY <1>1 DEF KickTypes, PumpStarts, PumpFinishes, PumpReturns, PumpEnds, Drained, kicks
  <2>3. SlotTypes'
    BY <1>1 DEF SlotTypes, PumpStarts, PumpFinishes, PumpReturns, PumpEnds, FreeSlot, slots
  <2> QED
    BY <1>1, <2>1, <2>2, <2>3 DEF PumpStarts, PumpFinishes, PumpReturns, PumpEnds
<1>2. CASE RunSays(t)
  <2>1. Status("running") \in Event
    BY EventTypes
  <2>2. BackendTypes'
    <3> HIDE DEF Status
    <3> QED
      BY <1>2, <2>1 DEF BackendTypes, RunSays, Set
  <2> QED
    BY <1>2, <2>2 DEF RunSays
<1>3. CASE RunEnds(t)
  <2> PICK s \in Terminal, again \in BOOLEAN :
        /\ log' = Set(log, t, Append(log[t], Result(s, again)))
        /\ resumable' = Set(resumable, t, again)
    BY <1>3 DEF RunEnds
  <2>1. Result(s, again) \in Event
    BY EventTypes
  <2>2. BackendTypes'
    <3> HIDE DEF Result
    <3> QED
      BY <1>3, <2>1 DEF BackendTypes, RunEnds, Set
  <2> QED
    BY <1>3, <2>2 DEF RunEnds
<1>4. CASE PumpReads(t)
  <2> DEFINE n == cursor[t] + 1
             e == log[t][n]
  <2>1. /\ known[t] /\ e \in Event /\ n \in Nat
        /\ e.type # "error" /\ e.state # "absent" /\ Handle(t, e, n)
        /\ log' \in [Tasks -> Seq(Event)]
        /\ pump' = Set(pump, t, IF e.type = "result" THEN [at |-> "finish", pos |-> n]
                                ELSE [at |-> "reading", pos |-> n])
    BY <1>4, Read
  <2> HIDE DEF e, n
  <2>2. DataTypes'
    BY <1>4, <2>1, RowTyped DEF RowsExist, PumpReads
  <2>3. PumpTypes'
    BY <1>4, <2>1 DEF PumpTypes, Set, PumpReads
  <2>4. BackendTypes'
    BY <1>4, <2>1 DEF BackendTypes, PumpReads
  <2> QED
    BY <1>4, <2>2, <2>3, <2>4 DEF PumpReads
<1> QED
  BY <1>1, <1>2, <1>3, <1>4 DEF Pump, Run

LEMMA CallerStepTypes ==
    ASSUME TypeOK, RowsExist, LogsSpeak, Unheard, Pumped, NEW t \in Tasks, People(t) \/ Caller
    PROVE  Types'
<1>0. Types
  BY AllTypes
<1> USE <1>0, TypesLeft DEF Types
<1>1. CASE Dispatch(t)
  <2>1. "dispatch" \in Calls
    BY DEF Calls
  <2>2. CallTypes'
    BY <1>1, <2>1, Counted DEF Dispatch
  <2>3. DataTypes'
    <3>1. /\ [Absent EXCEPT !.state = "queued"] \in TaskRow
          /\ [Absent EXCEPT !.state = "queued"].state = "queued"
      BY DEF Absent, TaskRow, States
    <3>2. created' \in Seq(Tasks) /\ Range(created') = Range(created) \cup {t}
      <4>1. created \in Seq(Tasks) /\ created' = Append(created, t)
        BY <1>1 DEF Dispatch, DataTypes
      <4> QED
        BY <4>1, OneMore
    <3> HIDE DEF Absent
    <3> QED
      BY <1>1, <3>1, <3>2 DEF Dispatch, DataTypes, RowsAbsent, Set
  <2>4. KickTypes'
    BY <1>1 DEF KickTypes, Dispatch
  <2> QED
    BY <1>1, <2>2, <2>3, <2>4 DEF Dispatch
<1>2. CASE Refused(t) \/ Continue(t) \/ ContinueWaits(t)
  <2>1. "resume" \in Calls
    BY DEF Calls
  <2>2. CallTypes'
    BY <1>2, <2>1, Counted DEF Refused, Continue, ContinueWaits
  <2>3. SlotTypes'
    BY <1>2 DEF SlotTypes, Refused, Continue, ContinueWaits, GiveBack
  <2>4. CASE Refused(t)
    BY <2>2, <2>3, <2>4 DEF Refused
  <2>5. CASE Continue(t)
    <3>1. /\ Registered(t).log \in Seq(Event) /\ Registered(t).cursor \in Nat
          /\ Registered(t).closed \in BOOLEAN /\ Registered(t).resumable \in BOOLEAN
      BY <2>5, WhoMayGoOn, Registering DEF Continue
    <3>2. Launch(t, Registered(t)) /\ cursor' = Set(cursor, t, Registered(t).cursor)
      BY <2>5 DEF Continue
    <3> HIDE DEF Registered
    <3>3. BackendTypes'
      BY <3>1, <3>2 DEF BackendTypes, Launch, Set
    <3>4. DataTypes'
      BY <2>5, <3>1, <3>2 DEF DataTypes, RowsAbsent, Continue, Set, database
    <3>5. PumpTypes'
      BY <2>5 DEF PumpTypes, Continue, EnsurePump, Set
    <3> QED
      BY <2>2, <2>3, <2>5, <3>3, <3>4, <3>5 DEF Continue
  <2>6. CASE ContinueWaits(t)
    <3>1. CallerTypes'
      BY <2>6 DEF CallerTypes, ContinueWaits
    <3> QED
      BY <2>2, <2>3, <2>6, <3>1 DEF ContinueWaits
  <2> QED
    BY <1>2, <2>4, <2>5, <2>6
<1>3. CASE CancelUnstarted(t)
  <2>1. "cancel" \in Calls /\ Count("cancel") /\ stored[t].state = "queued"
    BY <1>3 DEF Calls, CancelUnstarted, MayCancel
  <2>2. CallTypes'
    BY <2>1, Counted
  <2>3. DataTypes'
    <3>1. cursor[t] + 1 \in Nat
      BY DEF DataTypes
    <3>2. Result("stopped", FALSE) \in Event /\ Result("stopped", FALSE).state # "absent"
      BY EventTypes
    <3>3. t \in Range(created)
      BY <2>1 DEF RowsExist
    <3>4. Handle(t, Result("stopped", FALSE), cursor[t] + 1) /\ UNCHANGED <<created, stored>>
      BY <1>3 DEF CancelUnstarted
    <3> QED
      BY <3>1, <3>2, <3>3, <3>4, RowTyped
  <2>4. CallerTypes'
    BY <1>3 DEF CallerTypes, CancelUnstarted
  <2> QED
    BY <1>3, <2>2, <2>3, <2>4 DEF CancelUnstarted
<1>4. CASE Cancel(t)
  <2>1. "cancel" \in Calls /\ Count("cancel")
    BY <1>4 DEF Calls, Cancel, MayCancel
  <2>2. CallTypes'
    BY <2>1, Counted
  <2>3. /\ Registered(t).log \in Seq(Event) /\ Registered(t).cursor \in Nat
        /\ Registered(t).closed \in BOOLEAN /\ Registered(t).resumable \in BOOLEAN
    BY <1>4, WhoMayGoOn, Registering DEF Cancel
  <2>4. Append(Registered(t).log, Result("stopped", FALSE)) \in Seq(Event)
    <3>1. Result("stopped", FALSE) \in Event
      BY EventTypes
    <3> QED
      BY <2>3, <3>1, AppendProperties
  <2> DEFINE reg == Registered(t)
             l == IF active[t] \/ reg.closed THEN reg.log
                  ELSE Append(reg.log, Result("stopped", FALSE))
  <2>5. /\ cursor' = Set(cursor, t, reg.cursor) /\ known' = Set(known, t, TRUE)
        /\ closed' = Set(closed, t, TRUE) /\ resumable' = Set(resumable, t, FALSE)
        /\ log' = Set(log, t, l) /\ active' = active
        /\ EnsurePump(t) \/ waiting' = waiting
        /\ \/ canceller' = canceller
           \/ \E p \in {"stopping", "releasing"} : canceller' = [at |-> p, task |-> t]
    BY <1>4 DEF Cancel
  <2>6. l \in Seq(Event)
    BY <2>3, <2>4
  <2> HIDE DEF reg, l
  <2>7. BackendTypes'
    BY <2>5, <2>6 DEF BackendTypes, Set
  <2>8. DataTypes'
    BY <1>4, <2>3, <2>5 DEF DataTypes, RowsAbsent, Cancel, Set, database, reg
  <2>9. PumpTypes'
    <3>1. CASE waiting' = waiting
      BY <1>4, <3>1 DEF PumpTypes, Cancel
    <3>2. CASE EnsurePump(t)
      BY <1>4, <3>2 DEF PumpTypes, Cancel, EnsurePump, Set
    <3> QED
      BY <2>5, <3>1, <3>2
  <2>10. CallerTypes'
    BY <1>4, <2>5 DEF CallerTypes, Cancel
  <2> QED
    BY <1>4, <2>2, <2>7, <2>8, <2>9, <2>10 DEF Cancel
<1>5. CASE ContinueLaunches
  <2>1. CallerTypes' /\ sender \in Tasks
    BY <1>5 DEF CallerTypes, ContinueLaunches
  <2>2. BackendTypes'
    BY <1>5 DEF BackendTypes, ContinueLaunches, Set
  <2>3. PumpTypes'
    BY <1>5, <2>1 DEF PumpTypes, ContinueLaunches, EnsurePump, Set
  <2> QED
    BY <1>5, <2>1, <2>2, <2>3 DEF ContinueLaunches
<1>6. CASE CancelFinishes \/ CancelDrained \/ CancelReturns
  <2>1. CallerTypes'
    BY <1>6 DEF CallerTypes, CancelFinishes, CancelDrained, CancelReturns, IdleCancel
  <2>2. SlotTypes'
    BY <1>6 DEF SlotTypes, CancelFinishes, CancelDrained, CancelReturns, FreeSlot, slots
  <2>3. KickTypes'
    BY <1>6 DEF KickTypes, CancelFinishes, CancelDrained, CancelReturns, Drained, kicks
  <2>4. PumpTypes'
    <3>1. CASE CancelReturns
      <4>1. canceller.task \in Tasks
        BY <3>1 DEF CallerTypes, CancelReturns
      <4> QED
        BY <3>1, <4>1 DEF PumpTypes, CancelReturns, EnsurePump, Set
    <3>2. CASE CancelFinishes \/ CancelDrained
      BY <3>2 DEF CancelFinishes, CancelDrained
    <3> QED
      BY <1>6, <3>1, <3>2
  <2> QED
    BY <1>6, <2>1, <2>2, <2>3, <2>4 DEF CancelFinishes, CancelDrained, CancelReturns
<1> QED
  BY <1>1, <1>2, <1>3, <1>4, <1>5, <1>6 DEF People, Caller

\* The update at the head of the writer's queue goes, the others move up.
LEMMA HeadGoes ==
    ASSUME TypeOK, writes # <<>>
    PROVE  /\ writes[1] \in [task : Tasks, row : TaskRow] /\ Head(writes) = writes[1]
           /\ Tail(writes) \in Updates /\ Len(Tail(writes)) = Len(writes) - 1
           /\ 1 \in DOMAIN writes
           /\ \A i \in DOMAIN Tail(writes) :
                 i + 1 \in DOMAIN writes /\ Tail(writes)[i] = writes[i + 1]
           /\ \A i \in DOMAIN writes : i # 1 => i - 1 \in DOMAIN Tail(writes)
<1>1. writes \in Updates
  BY DEF TypeOK, Updates
<1>2. Head(writes) \in [task : Tasks, row : TaskRow] /\ Tail(writes) \in Updates
  BY <1>1, HeadTailProperties DEF Updates
<1>3. /\ Len(writes) \in Nat \ {0} /\ DOMAIN writes = 1 .. Len(writes)
      /\ Head(writes) = writes[1]
  BY <1>1, EmptySeq DEF Updates
<1>4. /\ Len(Tail(writes)) = Len(writes) - 1 /\ DOMAIN Tail(writes) = 1 .. Len(writes) - 1
      /\ \A i \in 1 .. Len(writes) - 1 : Tail(writes)[i] = writes[i + 1]
  BY <1>1, <1>2, HeadTailProperties DEF Updates
<1>5. \A i \in DOMAIN Tail(writes) : i + 1 \in DOMAIN writes /\ Tail(writes)[i] = writes[i + 1]
  BY <1>3, <1>4
<1>6. \A i \in DOMAIN writes : i # 1 => i - 1 \in DOMAIN Tail(writes)
  BY <1>3, <1>4
<1>7. writes[1] \in [task : Tasks, row : TaskRow] /\ 1 \in DOMAIN writes
  BY <1>2, <1>3
<1> QED
  BY <1>2, <1>3, <1>4, <1>5, <1>6, <1>7

LEMMA WriterTypes ==
    ASSUME TypeOK, WriterStores
    PROVE  Types'
<1>0. Types
  BY AllTypes
<1> USE <1>0, TypesLeft DEF Types
<1>1. Head(writes) \in [task : Tasks, row : TaskRow] /\ Tail(writes) \in Updates
  BY HeadGoes DEF WriterStores
<1>2. DataTypes'
  BY <1>1 DEF WriterStores, DataTypes, RowsAbsent, Set, rows
<1> QED
  BY <1>2 DEF WriterStores

LEMMA RestartTypes ==
    ASSUME TypeOK, RowsExist, Restart
    PROVE  Types'
<1>0. Types
  BY AllTypes
<1> DEFINE back == {t \in Tasks : stored[t].state = "running"}
<1> PICK again \in SUBSET back :
      /\ stored' = [t \in Tasks |-> IF t \in back THEN Restored(stored[t], t \in again)
                                               ELSE stored[t]]
      /\ resumable' = [t \in Tasks |-> t \in again]
      /\ known' = [t \in Tasks |-> t \in back]
      /\ cursor' = [t \in Tasks |-> IF t \in back THEN stored[t].seq + 1 ELSE 0]
      /\ log' = [t \in Tasks |-> IF t \in back THEN [i \in 1 .. stored[t].seq + 1 |-> Blank]
                                 ELSE <<>>]
  BY DEF Restart
<1>1. \A t \in Tasks : stored[t] \in TaskRow /\ stored[t].seq \in Nat /\ stored[t].seq + 1 \in Nat
  BY <1>0 DEF Types, DataTypes, TaskRow
<1>2. \A t \in Tasks, f \in BOOLEAN : Restored(stored[t], f) \in TaskRow
                                      /\ Restored(stored[t], f).state # "absent"
  BY <1>1 DEF Restored, TaskRow, States, Terminal
<1>3. stored' \in [Tasks -> TaskRow]
      /\ \A t \in Tasks : stored'[t].state = "absent" <=> stored[t].state = "absent"
  <2>1. \A t \in Tasks : (t \in again) \in BOOLEAN
    OBVIOUS
  <2> HIDE DEF Restored, TaskRow
  <2> QED
    BY <1>1, <1>2, <2>1
<1>4. cursor' \in [Tasks -> Nat]
  BY <1>1
<1>5. DataTypes'
  <2>1. created' = created /\ row' = stored' /\ writes' = <<>>
    BY DEF Restart
  <2>2. created \in Seq(Tasks) /\ <<>> \in Updates
    BY <1>0 DEF Types, DataTypes, Updates
  <2>3. RowsAbsent'
    BY <1>3, <2>1 DEF RowsAbsent, RowsExist
  <2> QED
    BY <1>3, <1>4, <2>1, <2>2, <2>3 DEF DataTypes
<1>6. \A n \in Nat : [i \in 1 .. n |-> Blank] \in Seq(Event)
  <2>1. Blank \in Event
    BY EventTypes
  <2> HIDE DEF Blank
  <2> QED
    BY <2>1
<1>7. <<>> \in Seq(Event)
  OBVIOUS
<1>8. log' \in [Tasks -> Seq(Event)]
  BY <1>1, <1>6, <1>7
<1>9. BackendTypes'
  BY <1>8 DEF BackendTypes, Restart
<1>10. SlotTypes' /\ KickTypes' /\ CallerTypes'
  BY DEF SlotTypes, KickTypes, KickPlaces, CallerTypes, Restart, IdleKick, IdleCancel
<1>11. PumpTypes'
  BY DEF PumpTypes, Restart, IdlePump
<1>12. CallTypes'
  <2>1. "crash" \in Calls /\ Count("crash")
    BY DEF Calls, Restart
  <2> QED
    BY <1>0, <2>1, Counted DEF Types
<1> QED
  BY <1>5, <1>9, <1>10, <1>11, <1>12 DEF Types

LEMMA StepKinds ==
    ASSUME Next
    PROVE  \/ Walk \/ Kick \/ Caller \/ WriterStores \/ Restart
           \/ \E t \in Tasks : Pump(t) \/ Run(t) \/ People(t)
BY DEF Next, EventLoop

LEMMA TypesHold ==
    ASSUME QueueInv, [Next]_vars
    PROVE  TypeOK'
<1>1. CASE UNCHANGED vars
  <2>1. Types
    BY AllTypes DEF QueueInv
  <2> QED
    BY <1>1, <2>1, AllTypes, TypesLeft DEF Types, vars
<1>2. CASE Next
  <2>1. Types'
    <3>1. CASE Walk \/ Kick
      BY <3>1, KickStepTypes DEF QueueInv
    <3>2. CASE Caller
      <4>1. Tasks # {}
        BY <3>2 DEF Caller, ContinueLaunches, CancelFinishes, CancelDrained, CancelReturns,
             QueueInv, TypeOK
      <4>2. PICK t \in Tasks : TRUE
        BY <4>1
      <4> QED
        BY <3>2, <4>2, CallerStepTypes DEF QueueInv
    <3>3. CASE WriterStores
      BY <3>3, WriterTypes DEF QueueInv
    <3>4. CASE Restart
      BY <3>4, RestartTypes DEF QueueInv
    <3>5. ASSUME NEW t \in Tasks, Pump(t) \/ Run(t) PROVE Types'
      BY <3>5, PumpStepTypes DEF QueueInv
    <3>6. ASSUME NEW t \in Tasks, People(t) PROVE Types'
      BY <3>6, CallerStepTypes DEF QueueInv
    <3> QED
      BY <1>2, <3>1, <3>2, <3>3, <3>4, <3>5, <3>6, StepKinds
  <2> QED
    BY <2>1, AllTypes
<1> QED
  BY <1>1, <1>2

-----------------------------------------------------------------------------
(* Nothing is known of a task before its row is there *)

LEMMA KickFields ==
    ASSUME TypeOK
    PROVE  /\ \A t : /\ Past(t).at = kick.at /\ Past(t).batch = kick.batch \ {t}
                    /\ Past(t).task = kick.task /\ Past(t).seq = kick.seq
           /\ Snapshot.at = "walk" /\ Snapshot.task = kick.task
           /\ Snapshot.batch = {t \in Range(created) : Queued(t)}
           /\ WalksOn.at = "walk" /\ WalksOn.batch = kick.batch
           /\ \A p \in {"flush", "read", "finish", "drain"} :
                 /\ [kick EXCEPT !.at = p].at = p
                 /\ [kick EXCEPT !.at = p].batch = kick.batch
                 /\ [kick EXCEPT !.at = p].task = kick.task
                 /\ [kick EXCEPT !.at = p].seq = kick.seq
           /\ IdleKick.at = "idle" /\ IdleKick.batch = {}
<1>1. kick \in [at : KickPlaces, batch : SUBSET Tasks, task : Tasks \cup {Nobody}, seq : Nat]
  BY DEF TypeOK, KickPlaces
<1> QED
  BY <1>1 DEF Past, Snapshot, WalksOn, IdleKick

\* An event of a task that exists.
LEMMA HandledExists ==
    ASSUME TypeOK, TypeOK', RowsExist, NEW t \in Tasks, t \in Range(created),
           NEW e \in Event, NEW n \in Nat, e.type = "error" \/ e.state # "absent",
           Handle(t, e, n), UNCHANGED <<created, stored>>
    PROVE  /\ \A u \in Tasks : stored'[u].state = "absent" <=> u \notin Range(created')
           /\ \A i \in DOMAIN writes' :
                 writes'[i].row.state # "absent" /\ writes'[i].task \in Range(created')
           /\ \A u \in Tasks : cursor'[u] > 0 => u \in Range(created')
<1>1. /\ \A u \in Tasks \ {t} : cursor'[u] = cursor[u]
      /\ row'[t] = RowAfter(t, e, n)
      /\ writes'[Len(writes) + 1] = Write(t, RowAfter(t, e, n))
      /\ \A i \in DOMAIN writes : writes'[i] = writes[i]
      /\ DOMAIN writes' = DOMAIN writes \cup {Len(writes) + 1}
  BY Handled
<1>2. row'[t].state # "absent"
  BY DEF TypeOK
<1>3. writes'[Len(writes) + 1].row.state # "absent" /\ writes'[Len(writes) + 1].task = t
  BY <1>1, <1>2 DEF Write
<1> QED
  BY <1>1, <1>3 DEF RowsExist

LEMMA RowsExistHolds ==
    ASSUME QueueInv, TypeOK', Next
    PROVE  RowsExist'
<1> USE DEF QueueInv
<1> DEFINE Stays == UNCHANGED <<created, stored, writes, cursor>>
           Bound == /\ kick'.batch \subseteq Range(created')
                    /\ Failing(kick.task)' => kick'.task \in Range(created')
           Known == \A u \in Tasks : known'[u] \/ u \in launched' \/ cursor'[u] > 0
                                        => u \in Range(created')
<1>1. ASSUME UNCHANGED <<created, stored, writes, cursor, launched, known, kick>>
      PROVE  RowsExist'
  BY <1>1 DEF RowsExist, Failing
<1>2. CASE KickEnds \/ KickSkips \/ KickBegins \/ KickFlushed \/ KickReads
           \/ FailedFinishes \/ FailedReturns
  <2>1. UNCHANGED <<created, stored, writes, cursor, launched, known>>
    BY <1>2 DEF KickEnds, KickSkips, KickBegins, KickFlushed, KickReads, FailedFinishes,
         FailedReturns, database, rows, slots, backend
  <2>2. kick'.batch \subseteq Range(created) /\ (kick'.at = "drain" => kick' = [kick EXCEPT !.at = "drain"] /\ kick.at = "finish")
        /\ kick'.at # "error" /\ kick'.at # "finish"
    <3>1. CASE KickEnds \/ KickSkips
      BY <3>1, KickFields DEF KickEnds, KickSkips, RowsExist, Walking
    <3>2. CASE KickBegins \/ KickFlushed \/ KickReads
      <4>1. kick' \in {Snapshot, [kick EXCEPT !.at = "flush"], [kick EXCEPT !.at = "read"]}
        BY <3>2 DEF KickBegins, KickFlushed, KickReads
      <4>2. kick'.at \in {"walk", "flush", "read"}
        BY <4>1, KickFields
      <4>3. kick'.batch = kick.batch \/ kick'.batch = {t \in Range(created) : Queued(t)}
        BY <4>1, KickFields
      <4>4. kick'.batch \subseteq Range(created)
        BY <4>3 DEF RowsExist
      <4> QED
        BY <4>2, <4>4
    <3>3. CASE FailedFinishes
      BY <3>3, KickFields DEF FailedFinishes, RowsExist
    <3>4. CASE FailedReturns
      BY <3>4, KickFields DEF FailedReturns, RowsExist
    <3> QED
      BY <1>2, <3>1, <3>2, <3>3, <3>4
  <2>3. kick'.at = "drain" => kick'.task = kick.task
    BY <2>2 DEF TypeOK
  <2> QED
    BY <2>1, <2>2, <2>3 DEF RowsExist, Failing
<1>3. CASE Start
  <2> PICK t \in Tasks \ launched : Turn(t) /\ Enlist(t) /\ known' = Set(known, t, TRUE)
                                    /\ kick' = Past(t)
    BY <1>3 DEF Start
  <2>1. t \in Range(created)
    BY DEF Turn, RowsExist
  <2>2. kick'.batch \subseteq Range(created) /\ kick'.at = "walk"
    BY <1>3 DEF Start, Walking, Past, RowsExist, TypeOK
  <2>3. UNCHANGED <<created, stored, writes, cursor>>
    BY <1>3 DEF Start, database, rows
  <2>4. \A u \in Tasks : known'[u] \/ u \in launched' \/ cursor'[u] > 0 => u \in Range(created)
    BY <2>1, <2>3 DEF Enlist, Set, TypeOK, RowsExist
  <2> QED
    BY <2>1, <2>2, <2>3, <2>4 DEF RowsExist, Failing
<1>4. CASE StartFails
  <2> PICK t \in Tasks \ launched : Turn(t) /\ Enlist(t) /\ Handle(t, Error, cursor[t] + 1)
         /\ kick' = [Past(t) EXCEPT !.at = "error", !.task = t, !.seq = cursor[t] + 2]
    BY <1>4 DEF StartFails
  <2>1. t \in Range(created) /\ cursor[t] + 1 \in Nat
    <3>1. t \in Range(created)
      BY DEF Turn, RowsExist
    <3>2. cursor[t] \in Nat
      BY DEF TypeOK
    <3> QED
      BY <3>1, <3>2
  <2>2. UNCHANGED <<created, stored, known>>
    BY <1>4 DEF StartFails, backend
  <2>3. /\ \A u \in Tasks : stored'[u].state = "absent" <=> u \notin Range(created')
        /\ \A i \in DOMAIN writes' :
              writes'[i].row.state # "absent" /\ writes'[i].task \in Range(created')
        /\ \A u \in Tasks : cursor'[u] > 0 => u \in Range(created')
    BY <2>1, <2>2, EventTypes, HandledExists
  <2>4. kick'.batch \subseteq Range(created) /\ kick'.task = t
    BY DEF Past, RowsExist, TypeOK
  <2>5. launched' = launched \cup {t}
    BY DEF Enlist
  <2> QED
    BY <2>1, <2>2, <2>3, <2>4, <2>5 DEF RowsExist, Failing
<1>5. CASE FailedEarly
  <2>1. /\ kick.task \in Tasks /\ kick.seq \in Nat /\ kick.task \in Range(created)
        /\ kick.at = "error"
    BY <1>5 DEF FailedEarly, RowsExist, Failing, TypeOK
  <2>2. UNCHANGED <<created, stored, known, launched>>
    BY <1>5 DEF FailedEarly, backend, slots
  <2>3. kick'.batch = kick.batch /\ (kick'.at = "finish" => kick'.task = kick.task)
        /\ kick'.at \in {"walk", "finish"}
    <3>1. CASE kick' = WalksOn
      BY <3>1 DEF WalksOn, TypeOK
    <3>2. CASE kick' = [kick EXCEPT !.at = "finish"]
      BY <3>2 DEF TypeOK
    <3> QED
      BY <1>5, <3>1, <3>2 DEF FailedEarly
  <2>4. /\ \A u \in Tasks : stored'[u].state = "absent" <=> u \notin Range(created')
        /\ \A i \in DOMAIN writes' :
              writes'[i].row.state # "absent" /\ writes'[i].task \in Range(created')
        /\ \A u \in Tasks : cursor'[u] > 0 => u \in Range(created')
    <3>1. CASE UNCHANGED <<writes, rows>>
      BY <2>2, <3>1 DEF RowsExist, rows
    <3>2. CASE Handle(kick.task, Result("stopped", FALSE), kick.seq)
      BY <2>1, <2>2, <3>2, EventTypes, HandledExists
    <3> QED
      BY <1>5, <3>1, <3>2 DEF FailedEarly
  <2> QED
    BY <2>1, <2>2, <2>3, <2>4 DEF RowsExist, Failing
<1>6. ASSUME NEW t \in Tasks, Pump(t) \/ Run(t)
      PROVE  RowsExist'
  <2>1. CASE PumpStarts(t) \/ PumpFinishes(t) \/ PumpReturns(t) \/ PumpEnds(t)
             \/ RunSays(t) \/ RunEnds(t)
    <3>1. UNCHANGED <<created, stored, writes, cursor, launched, known, kick>>
      BY <2>1 DEF PumpStarts, PumpFinishes, PumpReturns, PumpEnds, RunSays, RunEnds,
           database, rows, slots, kicks, backend
    <3> QED
      BY <3>1, <1>1
  <2>2. CASE PumpReads(t)
    <3>1. /\ known[t] /\ log[t][cursor[t] + 1] \in Event /\ cursor[t] + 1 \in Nat
          /\ log[t][cursor[t] + 1].state # "absent"
          /\ Handle(t, log[t][cursor[t] + 1], cursor[t] + 1)
      BY <2>2, Read
    <3>2. UNCHANGED <<created, stored, known, launched, kick>>
      BY <2>2 DEF PumpReads, slots, kicks
    <3>3. t \in Range(created)
      BY <3>1 DEF RowsExist
    <3>4. /\ \A u \in Tasks : stored'[u].state = "absent" <=> u \notin Range(created')
          /\ \A i \in DOMAIN writes' :
                writes'[i].row.state # "absent" /\ writes'[i].task \in Range(created')
          /\ \A u \in Tasks : cursor'[u] > 0 => u \in Range(created')
      BY <3>1, <3>2, <3>3, HandledExists
    <3> QED
      BY <3>2, <3>4 DEF RowsExist, Failing
  <2> QED
    BY <1>6, <2>1, <2>2 DEF Pump, Run
<1>7. CASE Caller
  <2>1. UNCHANGED <<created, stored, writes, cursor, launched, known, kick>>
    BY <1>7 DEF Caller, ContinueLaunches, CancelFinishes, CancelDrained, CancelReturns,
         database, rows, slots, kicks, backend
  <2> QED
    BY <2>1, <1>1
<1>8. ASSUME NEW t \in Tasks, People(t)
      PROVE  RowsExist'
  <2>1. CASE Dispatch(t)
    <3>1. created \in Seq(Tasks) /\ created' = Append(created, t)
      BY <2>1 DEF Dispatch, TypeOK
    <3>2. Range(created') = Range(created) \cup {t}
      BY <3>1, OneMore
    <3>3. UNCHANGED <<writes, cursor, launched, known, kick>>
      BY <2>1 DEF Dispatch, slots, backend
    <3>4. \A u \in Tasks : stored'[u].state = IF u = t THEN "queued" ELSE stored[u].state
      BY <2>1 DEF Dispatch, Set, TypeOK, Absent
    <3> QED
      BY <3>2, <3>3, <3>4 DEF RowsExist, Failing
  <2>2. CASE Refused(t) \/ ContinueWaits(t)
    <3>1. UNCHANGED <<created, stored, writes, cursor, launched, known, kick>>
      BY <2>2 DEF Refused, ContinueWaits, database, rows, kicks, backend
    <3> QED
      BY <3>1, <1>1
  <2>3. CASE Continue(t) \/ Cancel(t)
    <3>1. stored[t].state # "absent"
      BY <2>3, WhoMayGoOn DEF Continue, Cancel
    <3>2. /\ UNCHANGED <<created, stored, writes, launched, kick>>
          /\ known' = Set(known, t, TRUE) /\ cursor' = Set(cursor, t, Registered(t).cursor)
      BY <2>3 DEF Continue, Cancel, Launch, database, slots, kicks
    <3>3. \A u \in Tasks \ {t} : known'[u] = known[u] /\ cursor'[u] = cursor[u]
      BY <3>2 DEF Set, TypeOK
    <3> QED
      BY <3>1, <3>2, <3>3 DEF RowsExist, Failing
  <2>4. CASE CancelUnstarted(t)
    <3>1. /\ stored[t].state = "queued" /\ Handle(t, Result("stopped", FALSE), cursor[t] + 1)
          /\ UNCHANGED <<created, stored, launched, known, kick>>
      BY <2>4 DEF CancelUnstarted, slots, kicks, backend
    <3>2. t \in Range(created) /\ cursor[t] + 1 \in Nat
      <4>1. t \in Range(created)
        BY <3>1 DEF RowsExist
      <4>2. cursor[t] \in Nat
        BY DEF TypeOK
      <4> QED
        BY <4>1, <4>2
    <3>3. /\ \A u \in Tasks : stored'[u].state = "absent" <=> u \notin Range(created')
          /\ \A i \in DOMAIN writes' :
                writes'[i].row.state # "absent" /\ writes'[i].task \in Range(created')
          /\ \A u \in Tasks : cursor'[u] > 0 => u \in Range(created')
      BY <3>1, <3>2, EventTypes, HandledExists
    <3> QED
      BY <3>1, <3>3 DEF RowsExist, Failing
  <2> QED
    BY <1>8, <2>1, <2>2, <2>3, <2>4 DEF People
<1>9. CASE WriterStores
  <2>1. /\ writes # <<>> /\ stored' = Set(stored, Head(writes).task, Head(writes).row)
        /\ writes' = Tail(writes)
        /\ UNCHANGED <<created, cursor, launched, known, kick>>
    BY <1>9 DEF WriterStores, rows, slots, kicks, backend
  <2>2. /\ writes[1].task \in Tasks /\ Head(writes) = writes[1] /\ 1 \in DOMAIN writes
        /\ \A i \in DOMAIN writes' : i + 1 \in DOMAIN writes /\ writes'[i] = writes[i + 1]
    BY <2>1, HeadGoes
  <2>3. writes[1].row.state # "absent" /\ writes[1].task \in Range(created)
    BY <2>2 DEF RowsExist
  <2>4. \A u \in Tasks : stored'[u] = IF u = writes[1].task THEN writes[1].row ELSE stored[u]
    BY <2>1, <2>2 DEF Set, TypeOK
  <2> QED
    BY <2>1, <2>2, <2>3, <2>4 DEF RowsExist, Failing
<1>10. CASE Restart
  <2>1. /\ created' = created /\ row' = stored' /\ writes' = <<>> /\ launched' = {}
        /\ kick' = IdleKick
        /\ \A t \in Tasks : known'[t] => stored[t].state = "running"
        /\ \A t \in Tasks : cursor'[t] > 0 => stored[t].state = "running"
    <3> DEFINE back == {t \in Tasks : stored[t].state = "running"}
    <3>1. /\ known' = [t \in Tasks |-> t \in back]
          /\ cursor' = [t \in Tasks |-> IF t \in back THEN stored[t].seq + 1 ELSE 0]
      BY <1>10 DEF Restart
    <3>2. /\ created' = created /\ row' = stored' /\ writes' = <<>> /\ launched' = {}
          /\ kick' = IdleKick
      BY <1>10 DEF Restart
    <3>3. ASSUME NEW t \in Tasks, known'[t] PROVE t \in back
      <4>1. known'[t] = (t \in back)
        BY <3>1
      <4> QED
        BY <3>3, <4>1
    <3>4. ASSUME NEW t \in Tasks, cursor'[t] > 0 PROVE t \in back
      BY <3>1, <3>4
    <3> QED
      BY <3>2, <3>3, <3>4
  <2>2. \A t \in Tasks : stored'[t].state = "absent" <=> t \notin Range(created')
    BY <2>1 DEF TypeOK
  <2>3. kick'.batch = {} /\ kick'.at = "idle"
    BY <2>1 DEF IdleKick
  <2> QED
    BY <2>1, <2>2, <2>3 DEF RowsExist, Failing
<1> QED
  BY <1>2, <1>3, <1>4, <1>5, <1>6, <1>7, <1>8, <1>9, <1>10, StepKinds DEF Walk, Kick

-----------------------------------------------------------------------------
(* The logs *)

Speaks(l, c, mine) ==
    \A i \in DOMAIN l :
        /\ l[i].type # "error" /\ l[i].state # "absent"
        /\ ~mine /\ i > c => l[i].state # "queued"

LEMMA SpeaksOn ==
    ASSUME NEW l \in Seq(Event), NEW c, NEW mine, Speaks(l, c, mine), NEW e \in Event,
           e.type # "error", e.state # "absent", e.state # "queued"
    PROVE  Speaks(Append(l, e), c, mine)
<1>1. /\ DOMAIN Append(l, e) = DOMAIN l \cup {Len(l) + 1} /\ Append(l, e)[Len(l) + 1] = e
      /\ \A i \in DOMAIN l : Append(l, e)[i] = l[i]
  OBVIOUS
<1> QED
  BY <1>1 DEF Speaks

LEMMA SpeaksLater ==
    ASSUME NEW l \in Seq(Event), NEW c \in Nat, NEW d \in Nat, c <= d, NEW mine, NEW ours,
           mine => ours, Speaks(l, c, mine)
    PROVE  Speaks(l, d, ours)
BY DEF Speaks

LEMMA NextNumber ==
    ASSUME TypeOK, NEW t \in Tasks
    PROVE  cursor \in [Tasks -> Nat] /\ cursor[t] + 1 \in Nat /\ cursor[t] <= cursor[t] + 1
<1>1. cursor \in [Tasks -> Nat]
  BY DEF TypeOK
<1>2. cursor[t] \in Nat
  BY <1>1
<1> QED
  BY <1>1, <1>2

LEMMA CursorMoves ==
    ASSUME cursor \in [Tasks -> Nat], NEW t \in Tasks, NEW e, NEW n \in Nat, cursor[t] <= n,
           Handle(t, e, n)
    PROVE  \A u \in Tasks : cursor[u] <= cursor'[u]
BY DEF Handle, Set

LEMMA LogsSpeakHolds ==
    ASSUME QueueInv, TypeOK', Next
    PROVE  LogsSpeak'
<1> DEFINE Good(t) == Speaks(log[t], cursor[t], t \in launched)
<1>0. /\ TypeOK /\ RowsExist /\ LogsSpeak /\ Unheard /\ Queue /\ Pumped
      /\ \A t \in Tasks : Good(t) /\ log[t] \in Seq(Event) /\ cursor[t] \in Nat
      /\ \A t \in Tasks : cursor'[t] \in Nat
      /\ LogsSpeak' <=> \A t \in Tasks : Good(t)'
  BY DEF QueueInv, LogsSpeak, Speaks, TypeOK
<1> HIDE DEF Good
\* The cursor moves on and the log stays.
<1>1. ASSUME \A t \in Tasks : /\ log'[t] = log[t] /\ cursor[t] <= cursor'[t]
                              /\ t \in launched => t \in launched'
      PROVE  LogsSpeak'
  BY <1>0, <1>1, SpeaksLater DEF Good
<1>2. CASE KickEnds \/ KickSkips \/ KickBegins \/ KickFlushed \/ KickReads
           \/ FailedFinishes \/ FailedReturns \/ WriterStores
  <2>1. UNCHANGED <<log, cursor, launched>>
    BY <1>2 DEF KickEnds, KickSkips, KickBegins, KickFlushed, KickReads, FailedFinishes,
         FailedReturns, WriterStores, rows, slots, backend
  <2> QED
    BY <1>0, <1>1, <2>1
<1>3. CASE Start
  <2> PICK t \in Tasks \ launched : Enlist(t) /\ log' = Set(log, t, <<Status("queued")>>)
    BY <1>3 DEF Start
  <2>1. cursor' = cursor /\ launched' = launched \cup {t}
    BY <1>3 DEF Start, rows, Enlist
  <2>2. Speaks(<<Status("queued")>>, cursor[t], TRUE)
    <3>1. Status("queued").type # "error" /\ Status("queued").state # "absent"
      BY EventTypes
    <3> HIDE DEF Status
    <3> QED
      BY <3>1 DEF Speaks
  <2>3. \A u \in Tasks : log'[u] = IF u = t THEN <<Status("queued")>> ELSE log[u]
    BY <1>0 DEF TypeOK, Set
  <2>4. ASSUME NEW u \in Tasks PROVE Good(u)'
    <3>1. CASE u = t
      BY <2>1, <2>2, <2>3, <3>1 DEF Good
    <3>2. CASE u # t
      BY <1>0, <2>1, <2>3, <3>2 DEF Good
    <3> QED
      BY <3>1, <3>2
  <2> QED
    BY <1>0, <2>4
<1>4. CASE StartFails
  <2> PICK t \in Tasks \ launched : Enlist(t) /\ Handle(t, Error, cursor[t] + 1)
    BY <1>4 DEF StartFails
  <2>1. log' = log /\ launched' = launched \cup {t}
    BY <1>4 DEF StartFails, backend, Enlist
  <2>2. cursor \in [Tasks -> Nat] /\ cursor[t] + 1 \in Nat /\ cursor[t] <= cursor[t] + 1
    BY <1>0, NextNumber
  <2>3. \A u \in Tasks : cursor[u] <= cursor'[u]
    BY <2>2, CursorMoves
  <2> QED
    BY <1>1, <2>1, <2>3
<1>5. CASE FailedEarly
  <2>1. log' = log /\ launched' = launched
    BY <1>5 DEF FailedEarly, backend, slots
  <2>2. \A u \in Tasks : cursor[u] <= cursor'[u]
    <3>1. kick.task \in Tasks /\ kick.seq \in Nat
      BY <1>0, <1>5 DEF TypeOK, FailedEarly
    <3>2. CASE kick.seq <= cursor[kick.task]
      BY <1>0, <1>5, <3>2 DEF FailedEarly, rows
    <3>3. CASE ~(kick.seq <= cursor[kick.task])
      <4>1. cursor' = Set(cursor, kick.task, kick.seq)
        BY <1>5, <3>3 DEF FailedEarly, Handle
      <4>2. cursor \in [Tasks -> Nat]
        BY <1>0 DEF TypeOK
      <4> QED
        BY <3>1, <3>3, <4>1, <4>2 DEF Set
    <3> QED
      BY <3>2, <3>3
  <2> QED
    BY <1>1, <2>1, <2>2
<1>6. ASSUME NEW t \in Tasks, Pump(t) \/ Run(t)
      PROVE  LogsSpeak'
  <2>1. CASE PumpStarts(t) \/ PumpFinishes(t) \/ PumpReturns(t) \/ PumpEnds(t)
    <3>1. UNCHANGED <<log, cursor, launched>>
      BY <2>1 DEF PumpStarts, PumpFinishes, PumpReturns, PumpEnds, rows, slots, backend
    <3> QED
      BY <1>0, <1>1, <3>1
  <2>2. CASE RunSays(t) \/ RunEnds(t)
    <3>1. PICK e \in Event : /\ log' = Set(log, t, Append(log[t], e))
                             /\ e.type # "error" /\ e.state # "absent" /\ e.state # "queued"
      <4>1. CASE RunSays(t)
        BY <4>1, EventTypes DEF RunSays
      <4>2. CASE RunEnds(t)
        <5> PICK s \in Terminal, again \in BOOLEAN :
               log' = Set(log, t, Append(log[t], Result(s, again)))
          BY <4>2 DEF RunEnds
        <5>1. /\ Result(s, again) \in Event /\ Result(s, again).type = "result"
              /\ Result(s, again).state # "absent" /\ Result(s, again).state # "queued"
          BY EventTypes
        <5> QED
          BY <5>1
      <4> QED
        BY <2>2, <4>1, <4>2
    <3>2. cursor' = cursor /\ launched' = launched
      BY <2>2 DEF RunSays, RunEnds, rows, slots
    <3>3. Speaks(Append(log[t], e), cursor[t], t \in launched)
      BY <1>0, <3>1, SpeaksOn DEF Good
    <3>4. \A u \in Tasks : log'[u] = IF u = t THEN Append(log[t], e) ELSE log[u]
      BY <1>0, <3>1 DEF TypeOK, Set
    <3>5. ASSUME NEW u \in Tasks PROVE Good(u)'
      <4>1. CASE u = t
        BY <3>2, <3>3, <3>4, <4>1 DEF Good
      <4>2. CASE u # t
        BY <1>0, <3>2, <3>4, <4>2 DEF Good
      <4> QED
        BY <4>1, <4>2
    <3> QED
      BY <1>0, <3>5
  <2>3. CASE PumpReads(t)
    <3>1. /\ log' \in [Tasks -> Seq(Event)]
          /\ \A u \in Tasks : Len(log'[u]) = Len(log[u])
          /\ \A u \in Tasks : \A i \in DOMAIN log[u] :
                /\ log'[u][i].type = log[u][i].type
                /\ log'[u][i].state = log[u][i].state \/ log'[u][i].state = "stopped"
          /\ Handle(t, log[t][cursor[t] + 1], cursor[t] + 1)
      BY <1>0, <2>3, Read
    <3>2. launched' = launched
      BY <2>3 DEF PumpReads, slots
    <3>3. \A u \in Tasks : cursor[u] <= cursor'[u]
      <4>1. cursor \in [Tasks -> Nat] /\ cursor[t] + 1 \in Nat /\ cursor[t] <= cursor[t] + 1
        BY <1>0, NextNumber
      <4> QED
        BY <3>1, <4>1, CursorMoves
    <3>4. \A u \in Tasks : DOMAIN log'[u] = DOMAIN log[u] /\ DOMAIN log[u] \subseteq Nat
      BY <1>0, <3>1
    <3>5. ASSUME NEW u \in Tasks PROVE Good(u)'
      <4>1. Speaks(log[u], cursor[u], u \in launched)
        BY <1>0 DEF Good
      <4>2. ASSUME NEW i \in DOMAIN log'[u]
            PROVE  /\ log'[u][i].type # "error" /\ log'[u][i].state # "absent"
                   /\ u \notin launched /\ i > cursor'[u] => log'[u][i].state # "queued"
        <5>1. i \in DOMAIN log[u] /\ i \in Nat
          BY <3>4
        <5>2. i > cursor'[u] => i > cursor[u]
          BY <1>0, <3>3, <5>1
        <5> QED
          BY <3>1, <4>1, <5>1, <5>2 DEF Speaks
      <4> QED
        BY <3>2, <4>2 DEF Good, Speaks
    <3> QED
      BY <1>0, <3>5
  <2> QED
    BY <1>6, <2>1, <2>2, <2>3 DEF Pump, Run
<1>7. CASE Caller
  <2>1. UNCHANGED <<log, cursor, launched>>
    BY <1>7 DEF Caller, ContinueLaunches, CancelFinishes, CancelDrained, CancelReturns, rows,
         slots, backend
  <2> QED
    BY <1>0, <1>1, <2>1
<1>8. ASSUME NEW t \in Tasks, People(t)
      PROVE  LogsSpeak'
  <2>1. CASE Dispatch(t) \/ Refused(t) \/ ContinueWaits(t)
    <3>1. UNCHANGED <<log, cursor, launched>>
      BY <2>1 DEF Dispatch, Refused, ContinueWaits, rows, slots, backend
    <3> QED
      BY <1>0, <1>1, <3>1
  <2>2. CASE CancelUnstarted(t)
    <3>1. log' = log /\ launched' = launched
      BY <2>2 DEF CancelUnstarted, backend, slots
    <3>2. \A u \in Tasks : cursor[u] <= cursor'[u]
      <4>1. cursor \in [Tasks -> Nat] /\ cursor[t] + 1 \in Nat /\ cursor[t] <= cursor[t] + 1
        BY <1>0, NextNumber
      <4>2. Handle(t, Result("stopped", FALSE), cursor[t] + 1)
        BY <2>2 DEF CancelUnstarted
      <4> QED
        BY <4>1, <4>2, CursorMoves
    <3> QED
      BY <1>1, <3>1, <3>2
  <2>3. CASE Continue(t) \/ Cancel(t)
    <3> DEFINE reg == Registered(t)
    <3>1. /\ reg.log \in Seq(Event) /\ reg.cursor \in Nat
          /\ Speaks(reg.log, reg.cursor, t \in launched)
      BY <1>0, <2>3, WhoMayGoOn, Registering DEF Continue, Cancel, Speaks
    <3>2. /\ cursor' = Set(cursor, t, reg.cursor) /\ launched' = launched
          /\ \/ log' = Set(log, t, reg.log)
             \/ log' = Set(log, t, Append(reg.log, Result("stopped", FALSE)))
      BY <2>3 DEF Continue, Launch, Cancel, slots
    <3> HIDE DEF reg
    <3>3. Speaks(Append(reg.log, Result("stopped", FALSE)), reg.cursor, t \in launched)
      <4>1. /\ Result("stopped", FALSE) \in Event /\ Result("stopped", FALSE).type = "result"
            /\ Result("stopped", FALSE).state = "stopped"
        BY EventTypes
      <4> QED
        BY <3>1, <4>1, SpeaksOn
    <3>6. log \in [Tasks -> Seq(Event)] /\ cursor \in [Tasks -> Nat]
      BY <1>0 DEF TypeOK
    <3>4. Good(t)'
      <4>1. cursor'[t] = reg.cursor /\ launched' = launched
            /\ \/ log'[t] = reg.log
               \/ log'[t] = Append(reg.log, Result("stopped", FALSE))
        BY <3>2, <3>6 DEF Set
      <4> QED
        BY <3>1, <3>3, <4>1 DEF Good
    <3>5. ASSUME NEW u \in Tasks, u # t PROVE Good(u)'
      <4>1. log'[u] = log[u] /\ cursor'[u] = cursor[u]
        BY <3>2, <3>5, <3>6 DEF Set
      <4> QED
        BY <1>0, <3>2, <4>1 DEF Good
    <3> QED
      BY <1>0, <3>4, <3>5
  <2> QED
    BY <1>8, <2>1, <2>2, <2>3 DEF People
<1>9. CASE Restart
  <2> DEFINE back == {t \in Tasks : stored[t].state = "running"}
  <2>1. /\ cursor' = [t \in Tasks |-> IF t \in back THEN stored[t].seq + 1 ELSE 0]
        /\ log' = [t \in Tasks |-> IF t \in back THEN [i \in 1 .. stored[t].seq + 1 |-> Blank]
                                   ELSE <<>>]
    BY <1>9 DEF Restart
  <2>2. \A t \in Tasks : stored[t].seq \in Nat
    BY <1>0 DEF TypeOK, TaskRow
  <2>3. Blank.type # "error" /\ Blank.state # "absent"
    BY EventTypes
  <2>4. ASSUME NEW t \in Tasks PROVE Good(t)'
    <3> HIDE DEF Blank
    <3>1. CASE t \in back
      <4>1. log'[t] = [i \in 1 .. stored[t].seq + 1 |-> Blank] /\ cursor'[t] = stored[t].seq + 1
        BY <2>1, <3>1
      <4> QED
        BY <2>2, <2>3, <4>1 DEF Good, Speaks
    <3>2. CASE t \notin back
      BY <2>1, <3>2 DEF Good, Speaks
    <3> QED
      BY <3>1, <3>2
  <2> QED
    BY <1>0, <2>4
<1> QED
  BY <1>2, <1>3, <1>4, <1>5, <1>6, <1>7, <1>8, <1>9, StepKinds DEF Walk, Kick

-----------------------------------------------------------------------------
(* What nobody knows *)

LEMMA KnownStays ==
    ASSUME TypeOK, Next, ~Restart, NEW t \in Tasks, known[t]
    PROVE  known'[t]
<1>0. known \in [Tasks -> BOOLEAN]
  BY DEF TypeOK
<1>1. CASE Walk \/ Kick
  <2>1. known' = known \/ \E u \in Tasks : known' = Set(known, u, TRUE)
    BY <1>1 DEF Walk, Kick, KickEnds, KickSkips, Start, StartFails, KickBegins, KickFlushed,
         KickReads, FailedEarly, FailedFinishes, FailedReturns, backend
  <2> QED
    BY <1>0, <2>1 DEF Set
<1>2. CASE Caller \/ WriterStores
  BY <1>2 DEF Caller, ContinueLaunches, CancelFinishes, CancelDrained, CancelReturns,
       WriterStores, backend
<1>3. ASSUME NEW u \in Tasks, Pump(u) \/ Run(u) PROVE known'[t]
  BY <1>3 DEF Pump, Run, PumpStarts, PumpReads, PumpFinishes, PumpReturns, PumpEnds, RunSays,
       RunEnds, backend
<1>4. ASSUME NEW u \in Tasks, People(u) PROVE known'[t]
  <2>1. known' = known \/ known' = Set(known, u, TRUE)
    BY <1>4 DEF People, Dispatch, Refused, Continue, Launch, ContinueWaits, CancelUnstarted,
         Cancel, backend
  <2> QED
    BY <1>0, <2>1 DEF Set
<1> QED
  BY <1>1, <1>2, <1>3, <1>4, StepKinds

\* Of an event that is not news of a run, the task stays one that never ran.
LEMMA HandledUnstarted ==
    ASSUME TypeOK, NEW t \in Tasks, NeverRan(t), stored' = stored,
           NEW u \in Tasks, NEW e \in Event, NEW n \in Nat, Handle(u, e, n),
           e.type = "error" \/ e.state # "absent",
           u = t => e = Error \/ e = Result("stopped", FALSE)
    PROVE  NeverRan(t)'
<1>1. /\ row'[u] = RowAfter(u, e, n)
      /\ \A v \in Tasks \ {u} : row'[v] = row[v]
      /\ writes'[Len(writes) + 1] = Write(u, RowAfter(u, e, n))
      /\ \A i \in DOMAIN writes : writes'[i] = writes[i]
      /\ DOMAIN writes' = DOMAIN writes \cup {Len(writes) + 1}
  BY Handled
<1>2. CASE u = t
  <2>1. Unstarted(RowAfter(t, e, n))
    <3>1. CASE e = Error
      <4>1. /\ RowAfter(t, e, n).state = row[t].state
            /\ RowAfter(t, e, n).resumable = row[t].resumable
        BY <3>1, EventTypes, RowsAfter
      <4> QED
        BY <4>1 DEF NeverRan, Unstarted
    <3>2. CASE e = Result("stopped", FALSE)
      <4>1. e.type = "result" /\ e.state = "stopped" /\ e.resumable = FALSE
        BY <3>2, EventTypes
      <4>2. RowAfter(t, e, n).state = "stopped" /\ ~RowAfter(t, e, n).resumable
        BY <4>1, RowsAfter
      <4> QED
        BY <4>2 DEF Unstarted
    <3> QED
      BY <1>2, <3>1, <3>2
  <2> QED
    BY <1>1, <1>2, <2>1 DEF NeverRan, Write
<1>3. CASE u # t
  BY <1>1, <1>3 DEF NeverRan, Write
<1> QED
  BY <1>2, <1>3

LEMMA NeverRanStays ==
    ASSUME QueueInv, Next, NEW t \in Tasks, ~known[t], NeverRan(t)
    PROVE  NeverRan(t)'
<1>0. TypeOK /\ RowsExist /\ LogsSpeak /\ Unheard /\ Queue /\ Pumped
  BY DEF QueueInv
<1>1. ASSUME UNCHANGED <<stored, row, writes>> PROVE NeverRan(t)'
  BY <1>1 DEF NeverRan
<1>2. CASE KickEnds \/ KickSkips \/ KickBegins \/ KickFlushed \/ KickReads \/ Start
           \/ FailedFinishes \/ FailedReturns
  <2>1. UNCHANGED <<stored, row, writes>>
    BY <1>2 DEF KickEnds, KickSkips, KickBegins, KickFlushed, KickReads, Start, FailedFinishes,
         FailedReturns, database, rows
  <2> QED
    BY <1>1, <2>1
<1>3. CASE StartFails
  <2> PICK u \in Tasks \ launched : Handle(u, Error, cursor[u] + 1)
    BY <1>3 DEF StartFails
  <2>1. cursor[u] + 1 \in Nat /\ stored' = stored
    BY <1>0, <1>3, NextNumber DEF StartFails
  <2> QED
    BY <1>0, <2>1, EventTypes, HandledUnstarted
<1>4. CASE FailedEarly
  <2>1. CASE UNCHANGED <<writes, rows>>
    BY <1>1, <1>4, <2>1 DEF FailedEarly, rows
  <2>2. CASE Handle(kick.task, Result("stopped", FALSE), kick.seq)
    <3>1. kick.task \in Tasks /\ kick.seq \in Nat /\ stored' = stored
      BY <1>0, <1>4 DEF FailedEarly, TypeOK
    <3>2. /\ Result("stopped", FALSE) \in Event
          /\ Result("stopped", FALSE).state # "absent"
      BY EventTypes
    <3> QED
      BY <1>0, <2>2, <3>1, <3>2, HandledUnstarted
  <2> QED
    BY <1>4, <2>1, <2>2 DEF FailedEarly
<1>5. ASSUME NEW u \in Tasks, Pump(u) \/ Run(u) PROVE NeverRan(t)'
  <2>1. CASE PumpReads(u)
    <3>1. /\ known[u] /\ log[u][cursor[u] + 1] \in Event /\ cursor[u] + 1 \in Nat
          /\ log[u][cursor[u] + 1].state # "absent"
          /\ Handle(u, log[u][cursor[u] + 1], cursor[u] + 1)
      BY <1>0, <2>1, Read
    <3>2. stored' = stored
      BY <2>1 DEF PumpReads
    <3> QED
      BY <1>0, <3>1, <3>2, HandledUnstarted
  <2>2. CASE ~PumpReads(u)
    BY <1>1, <1>5, <2>2 DEF Pump, Run, PumpStarts, PumpFinishes, PumpReturns, PumpEnds, RunSays,
         RunEnds, database, rows
  <2> QED
    BY <2>1, <2>2
<1>6. CASE Caller
  BY <1>1, <1>6 DEF Caller, ContinueLaunches, CancelFinishes, CancelDrained, CancelReturns,
       database, rows
<1>7. ASSUME NEW u \in Tasks, People(u) PROVE NeverRan(t)'
  <2>1. CASE Dispatch(u)
    <3>1. u # t
      BY <2>1 DEF Dispatch, NeverRan, Unstarted, Absent
    <3>2. writes' = writes /\ stored'[t] = stored[t] /\ row'[t] = row[t]
      BY <1>0, <2>1, <3>1 DEF Dispatch, Set, TypeOK
    <3> QED
      BY <3>2 DEF NeverRan
  <2>2. CASE CancelUnstarted(u)
    <3>1. /\ cursor[u] + 1 \in Nat /\ stored' = stored
          /\ Handle(u, Result("stopped", FALSE), cursor[u] + 1)
      BY <1>0, <2>2, NextNumber DEF CancelUnstarted
    <3>2. /\ Result("stopped", FALSE) \in Event
          /\ Result("stopped", FALSE).state # "absent"
      BY EventTypes
    <3> QED
      BY <1>0, <3>1, <3>2, HandledUnstarted
  <2>3. CASE Refused(u) \/ Continue(u) \/ ContinueWaits(u) \/ Cancel(u)
    BY <1>1, <2>3 DEF Refused, Continue, ContinueWaits, Cancel, database, rows
  <2> QED
    BY <1>7, <2>1, <2>2, <2>3 DEF People
<1>8. CASE WriterStores
  <2>1. /\ writes # <<>> /\ row' = row
        /\ stored' = Set(stored, Head(writes).task, Head(writes).row) /\ writes' = Tail(writes)
    BY <1>8 DEF WriterStores, rows
  <2>2. /\ Head(writes) = writes[1] /\ 1 \in DOMAIN writes
        /\ \A i \in DOMAIN writes' : i + 1 \in DOMAIN writes /\ writes'[i] = writes[i + 1]
    BY <1>0, <2>1, HeadGoes
  <2>3. stored'[t] = IF t = writes[1].task THEN writes[1].row ELSE stored[t]
    BY <1>0, <2>1, <2>2 DEF Set, TypeOK
  <2> QED
    BY <2>1, <2>2, <2>3 DEF NeverRan
<1>9. CASE Restart
  <2> DEFINE back == {u \in Tasks : stored[u].state = "running"}
  <2>1. \E again \in SUBSET back :
          stored' = [u \in Tasks |-> IF u \in back THEN Restored(stored[u], u \in again)
                                     ELSE stored[u]]
    BY <1>9 DEF Restart
  <2>2. t \notin back
    BY DEF NeverRan, Unstarted
  <2>3. stored'[t] = stored[t]
    BY <2>1, <2>2
  <2>4. row' = stored' /\ writes' = <<>>
    BY <1>9 DEF Restart
  <2> QED
    BY <2>3, <2>4 DEF NeverRan
<1> QED
  BY <1>2, <1>3, <1>4, <1>5, <1>6, <1>7, <1>8, <1>9, StepKinds DEF Walk, Kick

\* What becomes queued or known to be waiting, and when.
LEMMA WaitsFrom ==
    ASSUME QueueInv, Next, ~Restart, NEW t \in Tasks, t \notin launched, Waits(t)', ~Waits(t)
    PROVE  Dispatch(t)
<1>0. TypeOK /\ Queue /\ stored[t].state # "queued" /\ t \notin kick.batch
  BY DEF QueueInv, Waits
<1>1. CASE Walk \/ Kick
  <2>1. stored' = stored
    BY <1>1 DEF Walk, Kick, KickEnds, KickSkips, Start, StartFails, KickBegins, KickFlushed,
         KickReads, FailedEarly, FailedFinishes, FailedReturns, database
  <2>2. t \notin kick'.batch
    <3>1. CASE KickBegins \/ KickFlushed \/ KickReads
      <4>1. kick' \in {Snapshot, [kick EXCEPT !.at = "flush"], [kick EXCEPT !.at = "read"]}
        BY <3>1 DEF KickBegins, KickFlushed, KickReads
      <4>2. kick'.batch = kick.batch \/ kick'.batch = {u \in Range(created) : Queued(u)}
        BY <1>0, <4>1, KickFields
      <4> QED
        BY <1>0, <4>2 DEF Queued
    <3>2. CASE KickEnds \/ FailedFinishes \/ FailedReturns
      BY <1>0, <3>2, KickFields DEF KickEnds, FailedFinishes, FailedReturns
    <3>3. CASE KickSkips \/ Start
      <4>1. PICK u : kick' = Past(u)
        BY <3>3 DEF KickSkips, Start
      <4> QED
        BY <1>0, <4>1, KickFields
    <3>4. CASE FailedEarly
      BY <1>0, <3>4, KickFields DEF FailedEarly
    <3>5. CASE StartFails
      <4> PICK u \in Tasks :
             kick' = [Past(u) EXCEPT !.at = "error", !.task = u, !.seq = cursor[u] + 2]
        BY <3>5 DEF StartFails
      <4>1. kick \in [at : KickPlaces, batch : SUBSET Tasks, task : Tasks \cup {Nobody}, seq : Nat]
        BY <1>0 DEF TypeOK, KickPlaces
      <4>2. kick'.batch = kick.batch \ {u}
        BY <4>1 DEF Past
      <4> QED
        BY <1>0, <4>2
    <3> QED
      BY <1>1, <3>1, <3>2, <3>3, <3>4, <3>5 DEF Walk, Kick
  <2> QED
    BY <1>0, <2>1, <2>2 DEF Waits
<1>2. CASE Caller
  BY <1>0, <1>2 DEF Caller, ContinueLaunches, CancelFinishes, CancelDrained, CancelReturns,
       database, kicks, Waits
<1>3. CASE WriterStores
  <2>1. /\ writes # <<>> /\ kick' = kick
        /\ stored' = Set(stored, Head(writes).task, Head(writes).row)
    BY <1>3 DEF WriterStores, kicks
  <2>2. Head(writes) = writes[1] /\ 1 \in DOMAIN writes
    BY <1>0, <2>1, HeadGoes
  <2>3. stored'[t] = IF t = writes[1].task THEN writes[1].row ELSE stored[t]
    BY <1>0, <2>1, <2>2 DEF Set, TypeOK
  <2> QED
    BY <1>0, <2>1, <2>2, <2>3 DEF Waits, Queue
<1>4. ASSUME NEW u \in Tasks, Pump(u) \/ Run(u) PROVE FALSE
  BY <1>0, <1>4 DEF Pump, Run, PumpStarts, PumpReads, PumpFinishes, PumpReturns, PumpEnds,
       RunSays, RunEnds, database, kicks, Waits
<1>5. ASSUME NEW u \in Tasks, People(u) PROVE Dispatch(t)
  <2>1. CASE Dispatch(u)
    <3>1. stored' = Set(stored, u, [Absent EXCEPT !.state = "queued"]) /\ kick' = kick
      BY <2>1 DEF Dispatch
    <3>2. CASE u # t
      BY <1>0, <3>1, <3>2 DEF Waits, Set, TypeOK
    <3> QED
      BY <2>1, <3>2
  <2>2. CASE ~Dispatch(u)
    BY <1>0, <1>5, <2>2 DEF People, Refused, Continue, ContinueWaits, CancelUnstarted, Cancel,
         database, kicks, Waits
  <2> QED
    BY <2>1, <2>2
<1> QED
  BY <1>1, <1>2, <1>3, <1>4, <1>5, StepKinds

\* _kick takes up what waits and nothing else.
LEMMA LaunchedFrom ==
    ASSUME TypeOK, Next, ~Restart, NEW t \in Tasks
    PROVE  /\ t \in launched => t \in launched'
           /\ t \in launched' /\ t \notin launched => Waits(t) /\ (Start \/ StartFails)
<1>1. CASE Start \/ StartFails
  BY <1>1 DEF Start, StartFails, Enlist, Turn, Waits
<1>2. CASE ~(Start \/ StartFails)
  <2>1. launched' = launched
    <3>1. CASE Walk \/ Kick \/ Caller \/ WriterStores
      BY <1>2, <3>1 DEF Walk, Kick, KickEnds, KickSkips, KickBegins, KickFlushed, KickReads,
           FailedEarly, FailedFinishes, FailedReturns, Caller, ContinueLaunches, CancelFinishes,
           CancelDrained, CancelReturns, WriterStores, slots
    <3>2. ASSUME NEW u \in Tasks, Pump(u) \/ Run(u) PROVE launched' = launched
      BY <3>2 DEF Pump, Run, PumpStarts, PumpReads, PumpFinishes, PumpReturns, PumpEnds,
           RunSays, RunEnds, slots
    <3>3. ASSUME NEW u \in Tasks, People(u) PROVE launched' = launched
      BY <3>3 DEF People, Dispatch, Refused, Continue, ContinueWaits, CancelUnstarted, Cancel,
           slots
    <3> QED
      BY <3>1, <3>2, <3>3, StepKinds
  <2> QED
    BY <1>2, <2>1
<1> QED
  BY <1>1, <1>2

\* Only these count the cursor of a task the backend does not know.
LEMMA CursorFrom ==
    ASSUME QueueInv, Next, ~Restart, NEW t \in Tasks, ~known[t]
    PROVE  \/ cursor'[t] = cursor[t] /\ row'[t] = row[t]
           \/ Dispatch(t)
           \/ StartFails /\ t \in launched' \ launched
           \/ FailedEarly /\ Failing(t)
           \/ CancelUnstarted(t)
           \/ known'[t]
<1>0. TypeOK /\ LogsSpeak /\ Unheard /\ Pumped
      /\ row \in [Tasks -> TaskRow] /\ cursor \in [Tasks -> Nat]
  BY DEF QueueInv, TypeOK
<1>1. CASE Walk \/ Kick
  <2>1. CASE StartFails
    <3> PICK u \in Tasks \ launched : Enlist(u) /\ Handle(u, Error, cursor[u] + 1)
      BY <2>1 DEF StartFails
    <3>1. CASE u = t
      BY <2>1, <3>1 DEF Enlist
    <3>2. CASE u # t
      BY <1>0, <3>2 DEF Handle, Set
    <3> QED
      BY <3>1, <3>2
  <2>2. CASE FailedEarly
    <3>1. \/ UNCHANGED <<row, cursor>>
          \/ Handle(kick.task, Result("stopped", FALSE), kick.seq)
      BY <2>2 DEF FailedEarly, rows
    <3>2. CASE kick.task = t
      BY <2>2, <3>2 DEF FailedEarly, Failing
    <3>3. CASE kick.task # t
      BY <1>0, <3>1, <3>3 DEF Handle, Set
    <3> QED
      BY <3>2, <3>3
  <2>3. CASE ~StartFails /\ ~FailedEarly
    BY <1>1, <2>3 DEF Walk, Kick, KickEnds, KickSkips, Start, KickBegins, KickFlushed,
         KickReads, FailedFinishes, FailedReturns, rows
  <2> QED
    BY <2>1, <2>2, <2>3
<1>2. CASE Caller \/ WriterStores
  BY <1>2 DEF Caller, ContinueLaunches, CancelFinishes, CancelDrained, CancelReturns,
       WriterStores, rows
<1>3. ASSUME NEW u \in Tasks, Pump(u) \/ Run(u)
      PROVE  cursor'[t] = cursor[t] /\ row'[t] = row[t]
  <2>1. CASE PumpReads(u)
    <3>1. known[u] /\ Handle(u, log[u][cursor[u] + 1], cursor[u] + 1)
      BY <1>0, <2>1, Read
    <3> QED
      BY <1>0, <3>1 DEF Handle, Set
  <2>2. CASE ~PumpReads(u)
    BY <1>3, <2>2 DEF Pump, Run, PumpStarts, PumpFinishes, PumpReturns, PumpEnds, RunSays,
         RunEnds, rows
  <2> QED
    BY <2>1, <2>2
<1>4. ASSUME NEW u \in Tasks, People(u)
      PROVE  \/ cursor'[t] = cursor[t] /\ row'[t] = row[t]
             \/ Dispatch(t) \/ CancelUnstarted(t) \/ known'[t]
  <2>1. CASE Dispatch(u)
    BY <1>0, <2>1 DEF Dispatch, Set
  <2>2. CASE CancelUnstarted(u)
    BY <1>0, <2>2 DEF CancelUnstarted, Handle, Set
  <2>3. CASE Refused(u) \/ ContinueWaits(u)
    BY <2>3 DEF Refused, ContinueWaits, rows
  <2>4. CASE Continue(u) \/ Cancel(u)
    <3>1. /\ row' = row /\ cursor' = Set(cursor, u, Registered(u).cursor)
          /\ known' = Set(known, u, TRUE)
      BY <2>4 DEF Continue, Launch, Cancel
    <3>2. known \in [Tasks -> BOOLEAN]
      BY <1>0 DEF TypeOK
    <3> QED
      BY <1>0, <3>1, <3>2 DEF Set
  <2> QED
    BY <1>4, <2>1, <2>2, <2>3, <2>4 DEF People
<1> QED
  BY <1>1, <1>2, <1>3, <1>4, StepKinds

\* A task the backend does not know stays without a log and without readers.
Silent(t) ==
    /\ log[t] = <<>> /\ ~active[t] /\ pump[t] = IdlePump /\ waiting[t] = 0
    /\ sender # t /\ ~Promised(t)

LEMMA SilentStays ==
    ASSUME QueueInv, Next, ~Restart, NEW t \in Tasks, ~known[t], ~known'[t]
    PROVE  Silent(t)'
<1>0. /\ TypeOK /\ LogsSpeak /\ Unheard /\ Pumped /\ Silent(t)
      /\ log \in [Tasks -> Seq(Event)] /\ active \in [Tasks -> BOOLEAN]
      /\ known \in [Tasks -> BOOLEAN] /\ waiting \in [Tasks -> Nat]
      /\ pump \in [Tasks -> [at : {"none", "reading", "finish", "drain"}, pos : Nat]]
  BY DEF QueueInv, TypeOK, Unheard, Silent
<1>1. CASE Walk \/ Kick
  <2>1. CASE Start
    <3> PICK u \in Tasks \ launched :
          /\ known' = Set(known, u, TRUE) /\ active' = Set(active, u, TRUE)
          /\ log' = Set(log, u, <<Status("queued")>>) /\ EnsurePump(u)
      BY <2>1 DEF Start
    <3>1. u # t
      BY <1>0 DEF Set
    <3>2. UNCHANGED <<pump, sender, canceller>>
      BY <2>1 DEF Start, callers
    <3> QED
      BY <1>0, <3>1, <3>2 DEF Silent, Promised, Set, EnsurePump
  <2>2. CASE ~Start
    <3>1. UNCHANGED <<pump, waiting, sender, canceller, log, active>>
      BY <1>1, <2>2 DEF Walk, Kick, KickEnds, KickSkips, StartFails, KickBegins, KickFlushed,
           KickReads, FailedEarly, FailedFinishes, FailedReturns, pumps, callers, backend
    <3> QED
      BY <1>0, <3>1 DEF Silent, Promised
  <2> QED
    BY <2>1, <2>2
<1>2. CASE WriterStores
  BY <1>0, <1>2 DEF WriterStores, pumps, callers, backend, Silent, Promised
<1>3. CASE Caller
  <2>1. CASE ContinueLaunches
    <3>1. /\ active' = Set(active, sender, TRUE) /\ EnsurePump(sender) /\ sender' = Nobody
          /\ sender # t /\ UNCHANGED <<pump, canceller, log>>
      BY <1>0, <2>1 DEF ContinueLaunches, Silent
    <3>2. active'[t] = active[t] /\ waiting'[t] = waiting[t]
      BY <1>0, <3>1 DEF Set, EnsurePump
    <3> QED
      BY <1>0, <3>1, <3>2, NobodyAssumption DEF Silent, Promised
  <2>2. CASE CancelFinishes \/ CancelDrained
    <3>1. /\ UNCHANGED <<pump, waiting, sender, log, active>>
          /\ canceller' = IdleCancel \/ canceller' = [canceller EXCEPT !.at = "drain"]
      BY <2>2 DEF CancelFinishes, CancelDrained, pumps, backend
    <3>2. canceller \in [at : {"idle", "finish", "drain", "stopping", "releasing"},
                          task : Tasks \cup {Nobody}]
      BY <1>0 DEF TypeOK
    <3>3. canceller'.at \in {"idle", "drain"}
      BY <3>1, <3>2 DEF IdleCancel
    <3> QED
      BY <1>0, <3>1, <3>3 DEF Silent, Promised
  <2>3. CASE CancelReturns
    <3>1. /\ canceller.at \in {"stopping", "releasing"} /\ EnsurePump(canceller.task)
          /\ canceller' = IdleCancel /\ UNCHANGED <<pump, sender, log, active>>
      BY <2>3 DEF CancelReturns, backend
    <3>2. canceller.task # t
      BY <1>0, <3>1 DEF Silent, Promised
    <3>3. waiting'[t] = waiting[t]
      BY <1>0, <3>1, <3>2 DEF EnsurePump, Set
    <3> QED
      BY <1>0, <3>1, <3>3 DEF Silent, Promised, IdleCancel
  <2> QED
    BY <1>3, <2>1, <2>2, <2>3 DEF Caller
<1>4. ASSUME NEW u \in Tasks, Pump(u) \/ Run(u) PROVE Silent(t)'
  <2>1. u # t
    <3>1. pump[t].at = "none" /\ ~(waiting[t] > 0) /\ ~active[t]
      BY <1>0 DEF Silent, IdlePump
    <3> QED
      BY <1>4, <3>1 DEF Pump, Run, PumpStarts, PumpReads, PumpFinishes, PumpReturns, PumpEnds,
           RunSays, RunEnds
  <2>2. sender' = sender /\ canceller' = canceller
    BY <1>4 DEF Pump, Run, PumpStarts, PumpReads, PumpFinishes, PumpReturns, PumpEnds,
         RunSays, RunEnds, callers
  <2>3. log'[t] = log[t] /\ active'[t] = active[t] /\ pump'[t] = pump[t]
        /\ waiting'[t] = waiting[t]
    <3>1. CASE Run(u)
      BY <1>0, <2>1, <3>1 DEF Run, RunSays, RunEnds, Set, pumps
    <3>2. CASE PumpReads(u)
      <4>1. /\ UNCHANGED <<waiting, active>>
            /\ \E p : pump' = Set(pump, u, p)
            /\ \E n, m : log' = [log EXCEPT ![u][n] = m]
        BY <3>2 DEF PumpReads
      <4> QED
        BY <1>0, <2>1, <4>1 DEF Set
    <3>3. CASE PumpStarts(u) \/ PumpFinishes(u) \/ PumpReturns(u) \/ PumpEnds(u)
      BY <1>0, <2>1, <3>3 DEF PumpStarts, PumpFinishes, PumpReturns, PumpEnds, Set, backend
    <3> QED
      BY <1>4, <3>1, <3>2, <3>3 DEF Pump
  <2> QED
    BY <1>0, <2>2, <2>3 DEF Silent, Promised
<1>5. ASSUME NEW u \in Tasks, People(u) PROVE Silent(t)'
  <2>1. CASE Dispatch(u) \/ Refused(u)
    BY <1>0, <2>1 DEF Dispatch, Refused, pumps, callers, backend, Silent, Promised
  <2>2. CASE ContinueWaits(u)
    BY <1>0, <2>2 DEF ContinueWaits, pumps, backend, Silent, Promised
  <2>3. CASE CancelUnstarted(u)
    BY <1>0, <2>3 DEF CancelUnstarted, pumps, backend, Silent, Promised
  <2>4. CASE Continue(u) \/ Cancel(u)
    <3>1. known' = Set(known, u, TRUE)
      BY <2>4 DEF Continue, Launch, Cancel
    <3>2. u # t
      BY <1>0, <3>1 DEF Set
    <3>3. /\ \E l : log' = Set(log, u, l)
          /\ active' = active \/ active' = Set(active, u, TRUE)
          /\ waiting' = waiting \/ EnsurePump(u)
          /\ canceller' = canceller \/ canceller'.task = u
          /\ UNCHANGED <<pump, sender>>
      <4>1. CASE Continue(u)
        BY <4>1 DEF Continue, Launch, callers
      <4>2. CASE Cancel(u)
        <5>1. canceller' = canceller \/ canceller'.task = u
          BY <4>2 DEF Cancel
        <5> QED
          BY <4>2, <5>1 DEF Cancel
      <4> QED
        BY <2>4, <4>1, <4>2
    <3>4. log'[t] = log[t] /\ active'[t] = active[t] /\ waiting'[t] = waiting[t]
      BY <1>0, <3>2, <3>3 DEF Set, EnsurePump
    <3> QED
      BY <1>0, <3>2, <3>3, <3>4 DEF Silent, Promised
  <2> QED
    BY <1>5, <2>1, <2>2, <2>3, <2>4 DEF People
<1> QED
  BY <1>1, <1>2, <1>3, <1>4, <1>5, StepKinds

LEMMA UnheardHolds ==
    ASSUME QueueInv, TypeOK', Next
    PROVE  Unheard'
<1>0. TypeOK /\ RowsExist /\ Unheard /\ Queue
  BY DEF QueueInv
<1>1. CASE Restart
  <2> DEFINE back == {t \in Tasks : stored[t].state = "running"}
  <2>1. /\ known' = [t \in Tasks |-> t \in back]
        /\ cursor' = [t \in Tasks |-> IF t \in back THEN stored[t].seq + 1 ELSE 0]
        /\ log' = [t \in Tasks |-> IF t \in back THEN [i \in 1 .. stored[t].seq + 1 |-> Blank]
                                   ELSE <<>>]
    BY <1>1 DEF Restart
  <2>2. /\ row' = stored' /\ writes' = <<>> /\ launched' = {} /\ kick' = IdleKick
        /\ pump' = [t \in Tasks |-> IdlePump] /\ waiting' = [t \in Tasks |-> 0]
        /\ sender' = Nobody /\ canceller' = IdleCancel /\ active' = [t \in Tasks |-> FALSE]
    BY <1>1 DEF Restart
  <2>3. ASSUME NEW t \in Tasks, ~known'[t]
        PROVE  /\ log'[t] = <<>> /\ ~active'[t] /\ pump'[t] = IdlePump /\ waiting'[t] = 0
               /\ ~Promised(t)' /\ cursor'[t] = 0
               /\ t \notin launched'
               /\ Waits(t)' => NeverRan(t)'
    <3>1. known'[t] = (t \in back)
      BY <2>1
    <3>2. t \notin back
      BY <2>3, <3>1
    <3>3. log'[t] = <<>> /\ cursor'[t] = 0
      BY <2>1, <3>2
    <3>4. ~active'[t] /\ pump'[t] = IdlePump /\ waiting'[t] = 0 /\ t \notin launched'
          /\ ~Promised(t)'
      BY <2>2 DEF Promised, IdleCancel
    <3>5. Waits(t)' => NeverRan(t)'
      BY <2>2 DEF Waits, NeverRan, Unstarted, IdleKick
    <3> QED
      BY <3>3, <3>4, <3>5
  <2>4. sender' = Nobody
    BY <2>2
  <2> HIDE <2>1
  <2> QED
    BY <2>3, <2>4, NobodyAssumption DEF Unheard
<1>2. CASE ~Restart
  <2> SUFFICES ASSUME NEW t \in Tasks, ~known'[t]
               PROVE  /\ Silent(t)'
                      /\ cursor'[t] = 0 \/ NeverRan(t)'
                      /\ t \in launched' \/ Waits(t)' => NeverRan(t)'
    BY DEF Unheard, Silent
  <2>1. ~known[t]
    BY <1>0, <1>2, KnownStays
  <2>2. CASE NeverRan(t)
    BY <1>2, <2>1, <2>2, NeverRanStays, SilentStays
  <2>3. CASE ~NeverRan(t)
    <3>1. cursor[t] = 0 /\ t \notin launched /\ ~Waits(t)
      BY <1>0, <2>1, <2>3 DEF Unheard
    <3>2. CASE Dispatch(t)
      <4>1. /\ cursor'[t] = 0 /\ row'[t].state = "queued" /\ stored'[t].state = "queued"
            /\ writes' = writes
        BY <1>0, <3>1, <3>2 DEF Dispatch, Set, Absent, TypeOK
      <4>2. t \notin Range(created)
        BY <1>0, <3>2 DEF Dispatch, Absent, TypeOK
      <4>3. NeverRan(t)'
        BY <1>0, <4>1, <4>2 DEF NeverRan, Unstarted, RowsExist
      <4> QED
        BY <1>2, <2>1, <4>1, <4>3, SilentStays
    <3>3. CASE ~Dispatch(t)
      <4>1. ~Waits(t)' /\ t \notin launched'
        BY <1>0, <1>2, <3>1, <3>3, WaitsFrom, LaunchedFrom
      <4>2. ~(FailedEarly /\ Failing(t))
        BY <1>0, <3>1 DEF Queue
      <4>3. ~CancelUnstarted(t)
        BY <3>1 DEF CancelUnstarted, Waits
      <4>4. cursor'[t] = 0
        BY <1>2, <2>1, <3>1, <3>3, <4>1, <4>2, <4>3, CursorFrom
      <4> QED
        BY <1>2, <2>1, <4>1, <4>4, SilentStays
    <3> QED
      BY <3>2, <3>3
  <2> QED
    BY <2>2, <2>3
<1> QED
  BY <1>1, <1>2

-----------------------------------------------------------------------------
(* The queue *)

Unqueued == \A i \in DOMAIN writes :
               writes[i].task \notin launched => writes[i].row.state # "queued"

LEMMA WritesTyped ==
    ASSUME TypeOK
    PROVE  /\ DOMAIN writes \subseteq Nat
           /\ \A i \in DOMAIN writes : writes[i].task \in Tasks /\ writes[i].row \in TaskRow
<1> DEFINE Update == [task : Tasks, row : TaskRow]
<1>1. writes \in Seq(Update)
  BY DEF TypeOK
<1>2. DOMAIN writes \subseteq Nat /\ \A i \in DOMAIN writes : writes[i] \in Update
  <2> HIDE DEF Update
  <2> QED
    BY <1>1
<1> QED
  BY <1>2

LEMMA HandledUnqueued ==
    ASSUME TypeOK, Unqueued, NEW t \in Tasks, NEW e \in Event, NEW n \in Nat,
           e.type = "error" \/ e.state # "absent", Handle(t, e, n),
           \A u \in Tasks : u \in launched => u \in launched',
           t \in launched' \/ (e.type # "error" /\ e.state # "queued")
    PROVE  Unqueued'
<1>1. /\ writes'[Len(writes) + 1] = Write(t, RowAfter(t, e, n))
      /\ \A i \in DOMAIN writes : writes'[i] = writes[i]
      /\ DOMAIN writes' = DOMAIN writes \cup {Len(writes) + 1}
      /\ \A i \in DOMAIN writes : writes[i].task \in Tasks
  BY Handled, WritesTyped
<1>2. t \in launched' \/ RowAfter(t, e, n).state # "queued"
  BY RowsAfter
<1> QED
  BY <1>1, <1>2 DEF Unqueued, Write

LEMMA UnqueuedHolds ==
    ASSUME QueueInv, Next
    PROVE  Unqueued'
<1>0. TypeOK /\ RowsExist /\ LogsSpeak /\ Unheard /\ Queue /\ Pumped /\ Unqueued
  BY DEF QueueInv, Queue, Unqueued
<1>1. CASE Restart
  BY <1>1 DEF Restart, Unqueued
<1>2. CASE ~Restart
  <2>0. \A u \in Tasks : u \in launched => u \in launched'
    BY <1>0, <1>2, LaunchedFrom
  <2>1. ASSUME writes' = writes PROVE Unqueued'
    <3>1. \A i \in DOMAIN writes : writes[i].task \in Tasks
      BY <1>0, WritesTyped
    <3> QED
      BY <1>0, <2>0, <2>1, <3>1 DEF Unqueued
  <2>2. CASE StartFails
    <3> PICK t \in Tasks \ launched : Enlist(t) /\ Handle(t, Error, cursor[t] + 1)
      BY <2>2 DEF StartFails
    <3>1. cursor[t] + 1 \in Nat /\ t \in launched'
      BY <1>0, NextNumber DEF Enlist
    <3> QED
      BY <1>0, <2>0, <3>1, EventTypes, HandledUnqueued
  <2>3. CASE FailedEarly
    <3>1. \/ UNCHANGED writes
          \/ Handle(kick.task, Result("stopped", FALSE), kick.seq)
      BY <2>3 DEF FailedEarly
    <3>2. kick.task \in Tasks /\ kick.seq \in Nat
      BY <1>0, <2>3 DEF FailedEarly, TypeOK
    <3>3. /\ Result("stopped", FALSE) \in Event /\ Result("stopped", FALSE).type = "result"
          /\ Result("stopped", FALSE).state = "stopped"
      BY EventTypes
    <3> QED
      BY <1>0, <2>0, <2>1, <3>1, <3>2, <3>3, HandledUnqueued
  <2>4. CASE (Walk \/ Kick) /\ ~StartFails /\ ~FailedEarly
    BY <2>1, <2>4 DEF Walk, Kick, KickEnds, KickSkips, Start, KickBegins, KickFlushed,
         KickReads, FailedFinishes, FailedReturns, database
  <2>5. CASE Caller
    BY <2>1, <2>5 DEF Caller, ContinueLaunches, CancelFinishes, CancelDrained, CancelReturns,
         database
  <2>6. ASSUME NEW t \in Tasks, Pump(t) \/ Run(t) PROVE Unqueued'
    <3>1. CASE PumpReads(t)
      <4>1. /\ log[t][cursor[t] + 1] \in Event /\ cursor[t] + 1 \in Nat
            /\ log[t][cursor[t] + 1].type # "error"
            /\ log[t][cursor[t] + 1].state # "absent"
            /\ t \notin launched => log[t][cursor[t] + 1].state # "queued"
            /\ Handle(t, log[t][cursor[t] + 1], cursor[t] + 1)
        BY <1>0, <3>1, Read
      <4> QED
        BY <1>0, <2>0, <4>1, HandledUnqueued
    <3>2. CASE ~PumpReads(t)
      BY <2>1, <2>6, <3>2 DEF Pump, Run, PumpStarts, PumpFinishes, PumpReturns, PumpEnds,
           RunSays, RunEnds, database
    <3> QED
      BY <3>1, <3>2
  <2>7. ASSUME NEW t \in Tasks, People(t) PROVE Unqueued'
    <3>1. CASE CancelUnstarted(t)
      <4>1. Handle(t, Result("stopped", FALSE), cursor[t] + 1) /\ cursor[t] + 1 \in Nat
        BY <1>0, <3>1, NextNumber DEF CancelUnstarted
      <4>2. /\ Result("stopped", FALSE) \in Event /\ Result("stopped", FALSE).type = "result"
            /\ Result("stopped", FALSE).state = "stopped"
        BY EventTypes
      <4> QED
        BY <1>0, <2>0, <4>1, <4>2, HandledUnqueued
    <3>2. CASE ~CancelUnstarted(t)
      BY <2>1, <2>7, <3>2 DEF People, Dispatch, Refused, Continue, ContinueWaits, Cancel,
           database
    <3> QED
      BY <3>1, <3>2
  <2>8. CASE WriterStores
    <3>1. writes # <<>> /\ writes' = Tail(writes)
      BY <2>8 DEF WriterStores
    <3>2. \A i \in DOMAIN writes' : i + 1 \in DOMAIN writes /\ writes'[i] = writes[i + 1]
      BY <1>0, <3>1, HeadGoes
    <3>3. \A i \in DOMAIN writes : writes[i].task \in Tasks
      BY <1>0, WritesTyped
    <3> QED
      BY <1>0, <2>0, <3>2, <3>3 DEF Unqueued
  <2> QED
    BY <1>2, <2>2, <2>3, <2>4, <2>5, <2>6, <2>7, <2>8, StepKinds
<1> QED
  BY <1>1, <1>2

\* A cancel in the queue is under way until the writer has stored it.
LEMMA WithdrawnStays ==
    ASSUME QueueInv, Next, ~Restart, NEW t \in Tasks, t \notin launched, Withdrawn(t)
    PROVE  Withdrawn(t)' \/ stored'[t].state # "queued"
<1>0. /\ TypeOK /\ RowsExist /\ LogsSpeak /\ Unheard /\ Pumped /\ Queue
      /\ canceller.task = t /\ canceller.at \in {"finish", "drain"}
      /\ \E i \in DOMAIN writes : writes[i].task = t
  BY DEF QueueInv, Withdrawn
<1> DEFINE Held == canceller' = canceller
           Grown == writes' = writes \/ \E u \in Tasks : \E e, n : Handle(u, e, n)
<1>1. ASSUME Held, Grown PROVE Withdrawn(t)'
  <2>1. \E i \in DOMAIN writes' : writes'[i].task = t
    <3>1. CASE writes' = writes
      BY <1>0, <3>1
    <3>2. CASE writes' # writes
      <4>1. PICK r : writes' = Append(writes, r)
        BY <1>1, <3>2 DEF Handle
      <4>2. writes \in Updates
        BY <1>0 DEF TypeOK, Updates
      <4>3. \A i \in DOMAIN writes : i \in DOMAIN writes' /\ writes'[i] = writes[i]
        BY <4>1, <4>2 DEF Updates
      <4> QED
        BY <1>0, <4>3
    <3> QED
      BY <3>1, <3>2
  <2> QED
    BY <1>0, <1>1, <2>1 DEF Withdrawn
<1>2. CASE Walk \/ Kick
  <2>1. Held
    BY <1>2 DEF Walk, Kick, KickEnds, KickSkips, Start, StartFails, KickBegins, KickFlushed,
         KickReads, FailedEarly, FailedFinishes, FailedReturns, callers
  <2>2. Grown
    <3>1. CASE StartFails
      BY <3>1 DEF StartFails
    <3>2. CASE FailedEarly
      <4>1. kick.task \in Tasks
        BY <1>0, <3>2 DEF FailedEarly, TypeOK
      <4> QED
        BY <3>2, <4>1 DEF FailedEarly
    <3>3. CASE ~StartFails /\ ~FailedEarly
      BY <1>2, <3>3 DEF Walk, Kick, KickEnds, KickSkips, Start, KickBegins, KickFlushed,
           KickReads, FailedFinishes, FailedReturns, database
    <3> QED
      BY <3>1, <3>2, <3>3
  <2> QED
    BY <1>1, <2>1, <2>2
<1>3. CASE Caller
  <2>1. CASE ContinueLaunches
    BY <1>1, <2>1 DEF ContinueLaunches, database
  <2>2. CASE CancelFinishes
    <3>1. canceller' = [canceller EXCEPT !.at = "drain"] /\ writes' = writes
      BY <2>2 DEF CancelFinishes, database
    <3> QED
      BY <1>0, <3>1 DEF Withdrawn, TypeOK
  <2>3. ~CancelDrained
    BY <1>0 DEF CancelDrained, Drained
  <2>4. ~CancelReturns
    BY <1>0 DEF CancelReturns
  <2> QED
    BY <1>3, <2>1, <2>2, <2>3, <2>4 DEF Caller
<1>4. ASSUME NEW u \in Tasks, Pump(u) \/ Run(u) PROVE Withdrawn(t)'
  <2>1. CASE PumpReads(u)
    <3>1. canceller' = canceller /\ Handle(u, log[u][cursor[u] + 1], cursor[u] + 1)
      BY <1>0, <2>1, Read DEF PumpReads, callers
    <3> QED
      BY <1>1, <3>1
  <2>2. CASE ~PumpReads(u)
    BY <1>1, <1>4, <2>2 DEF Pump, Run, PumpStarts, PumpFinishes, PumpReturns, PumpEnds,
         RunSays, RunEnds, database, callers
  <2> QED
    BY <2>1, <2>2
<1>5. ASSUME NEW u \in Tasks, People(u) PROVE Withdrawn(t)'
  <2>1. ~CancelUnstarted(u) /\ ~Cancel(u)
    <3>1. ~MayCancel(u)
      BY <1>0 DEF MayCancel, IdleCancel
    <3> QED
      BY <3>1 DEF CancelUnstarted, Cancel
  <2>2. Held /\ Grown
    BY <1>5, <2>1 DEF People, Dispatch, Refused, Continue, ContinueWaits, callers, database
  <2> QED
    BY <1>1, <2>2
<1>6. CASE WriterStores
  <2>1. /\ writes # <<>> /\ writes' = Tail(writes) /\ canceller' = canceller
        /\ stored' = Set(stored, Head(writes).task, Head(writes).row)
    BY <1>6 DEF WriterStores, callers
  <2>2. /\ Head(writes) = writes[1] /\ 1 \in DOMAIN writes /\ writes[1].task \in Tasks
        /\ \A i \in DOMAIN writes' : i + 1 \in DOMAIN writes /\ writes'[i] = writes[i + 1]
        /\ \A i \in DOMAIN writes : i # 1 => i - 1 \in DOMAIN writes'
    BY <1>0, <2>1, HeadGoes
  <2>3. PICK i \in DOMAIN writes : writes[i].task = t
    BY <1>0
  <2>4. CASE i = 1
    <3>1. stored'[t] = writes[1].row
      BY <1>0, <2>1, <2>2, <2>3, <2>4 DEF Set, TypeOK
    <3> QED
      BY <1>0, <2>2, <2>3, <2>4, <3>1 DEF Queue
  <2>5. CASE i # 1
    <3>1. i - 1 \in DOMAIN writes' /\ writes'[i - 1] = writes[i - 1 + 1]
      BY <2>2, <2>5
    <3>2. i \in Nat
      BY <1>0, WritesTyped
    <3>3. writes'[i - 1].task = t
      BY <2>3, <3>1, <3>2
    <3> QED
      BY <1>0, <2>1, <3>1, <3>3 DEF Withdrawn
  <2> QED
    BY <2>4, <2>5
<1> QED
  BY <1>2, <1>3, <1>4, <1>5, <1>6, StepKinds

\* A task becomes known when it is started or goes on.
LEMMA KnownFrom ==
    ASSUME QueueInv, Next, ~Restart, NEW t \in Tasks, ~known[t], known'[t], ~Ran(t)
    PROVE  Start /\ t \notin launched /\ t \in launched'
<1>0. TypeOK /\ known \in [Tasks -> BOOLEAN]
  BY DEF QueueInv, TypeOK
<1>1. CASE Walk \/ Kick
  <2>1. CASE Start
    <3> PICK u \in Tasks \ launched : Enlist(u) /\ known' = Set(known, u, TRUE)
      BY <2>1 DEF Start
    <3>1. u = t
      BY <1>0 DEF Set
    <3> QED
      BY <2>1, <3>1 DEF Enlist
  <2>2. CASE ~Start
    BY <1>1, <2>2 DEF Walk, Kick, KickEnds, KickSkips, StartFails, KickBegins, KickFlushed,
         KickReads, FailedEarly, FailedFinishes, FailedReturns, backend
  <2> QED
    BY <2>1, <2>2
<1>2. CASE Caller \/ WriterStores
  BY <1>2 DEF Caller, ContinueLaunches, CancelFinishes, CancelDrained, CancelReturns,
       WriterStores, backend
<1>3. ASSUME NEW u \in Tasks, Pump(u) \/ Run(u) PROVE FALSE
  BY <1>3 DEF Pump, Run, PumpStarts, PumpReads, PumpFinishes, PumpReturns, PumpEnds, RunSays,
       RunEnds, backend
<1>4. ASSUME NEW u \in Tasks, People(u) PROVE FALSE
  <2>1. CASE Continue(u) \/ Cancel(u)
    <3>1. known' = Set(known, u, TRUE) /\ Ran(u)
      BY <2>1, WhoMayGoOn DEF Continue, Launch, Cancel
    <3> QED
      BY <1>0, <3>1 DEF Set
  <2>2. CASE ~Continue(u) /\ ~Cancel(u)
    BY <1>4, <2>2 DEF People, Dispatch, Refused, ContinueWaits, CancelUnstarted, backend
  <2> QED
    BY <2>1, <2>2
<1> QED
  BY <1>1, <1>2, <1>3, <1>4, StepKinds

LEMMA StoredFrom ==
    ASSUME QueueInv, Next, ~Restart, NEW t \in Tasks, t \notin launched, ~Dispatch(t),
           stored'[t].state = "queued"
    PROVE  stored[t].state = "queued"
<1>0. TypeOK /\ Queue
  BY DEF QueueInv
<1>1. CASE Walk \/ Kick \/ Caller
  BY <1>1 DEF Walk, Kick, KickEnds, KickSkips, Start, StartFails, KickBegins, KickFlushed,
       KickReads, FailedEarly, FailedFinishes, FailedReturns, Caller, ContinueLaunches,
       CancelFinishes, CancelDrained, CancelReturns, database
<1>2. CASE WriterStores
  <2>1. writes # <<>> /\ stored' = Set(stored, Head(writes).task, Head(writes).row)
    BY <1>2 DEF WriterStores
  <2>2. Head(writes) = writes[1] /\ 1 \in DOMAIN writes
    BY <1>0, <2>1, HeadGoes
  <2>3. stored'[t] = IF t = writes[1].task THEN writes[1].row ELSE stored[t]
    BY <1>0, <2>1, <2>2 DEF Set, TypeOK
  <2> QED
    BY <1>0, <2>2, <2>3 DEF Queue
<1>3. ASSUME NEW u \in Tasks, Pump(u) \/ Run(u) PROVE stored' = stored
  BY <1>3 DEF Pump, Run, PumpStarts, PumpReads, PumpFinishes, PumpReturns, PumpEnds, RunSays,
       RunEnds, database
<1>4. ASSUME NEW u \in Tasks, People(u) PROVE stored'[t] = stored[t]
  <2>1. CASE Dispatch(u)
    <3>1. u # t
      BY <2>1
    <3> QED
      BY <1>0, <2>1, <3>1 DEF Dispatch, Set, TypeOK
  <2>2. CASE ~Dispatch(u)
    BY <1>4, <2>2 DEF People, Refused, Continue, ContinueWaits, CancelUnstarted, Cancel,
         database
  <2> QED
    BY <2>1, <2>2
<1> QED
  BY <1>1, <1>2, <1>3, <1>4, StepKinds

LEMMA FailingFrom ==
    ASSUME TypeOK, Next, ~Restart, ~StartFails, NEW t \in Tasks, Failing(t)'
    PROVE  Failing(t) /\ ~Start
<1>1. CASE Walk \/ Kick
  <2>1. CASE KickBegins \/ KickFlushed \/ KickReads
    BY <2>1, KickFields DEF KickBegins, KickFlushed, KickReads, Failing
  <2>2. CASE KickEnds \/ FailedReturns
    BY <2>2, KickFields DEF KickEnds, FailedReturns, Failing
  <2>3. CASE KickSkips \/ Start
    <3>1. kick.at = "walk" /\ \E u : kick' = Past(u)
      BY <2>3 DEF KickSkips, Start, Walking
    <3> QED
      BY <3>1, KickFields DEF Failing
  <2>4. CASE FailedEarly
    <3>1. /\ kick.at = "error"
          /\ kick' = WalksOn \/ kick' = [kick EXCEPT !.at = "finish"]
      BY <2>4 DEF FailedEarly
    <3> QED
      BY <3>1, KickFields DEF Failing, Start, Walking
  <2>5. CASE FailedFinishes
    BY <2>5, KickFields DEF FailedFinishes, Failing, Start, Walking
  <2> QED
    BY <1>1, <2>1, <2>2, <2>3, <2>4, <2>5 DEF Walk, Kick
<1>2. ASSUME kick' = kick PROVE Failing(t) /\ ~Start
  BY <1>2 DEF Failing, Start, Walking
<1>3. CASE Caller \/ WriterStores
  BY <1>2, <1>3 DEF Caller, ContinueLaunches, CancelFinishes, CancelDrained, CancelReturns,
       WriterStores, kicks
<1>4. ASSUME NEW u \in Tasks, Pump(u) \/ Run(u) PROVE kick' = kick
  BY <1>4 DEF Pump, Run, PumpStarts, PumpReads, PumpFinishes, PumpReturns, PumpEnds, RunSays,
       RunEnds, kicks
<1>5. ASSUME NEW u \in Tasks, People(u) PROVE kick' = kick
  BY <1>5 DEF People, Dispatch, Refused, Continue, ContinueWaits, CancelUnstarted, Cancel, kicks
<1> QED
  BY <1>1, <1>2, <1>3, <1>4, <1>5, StepKinds

LEMMA QueueHolds ==
    ASSUME QueueInv, TypeOK', Next
    PROVE  Queue'
<1>0. /\ TypeOK /\ RowsExist /\ LogsSpeak /\ Unheard /\ Pumped /\ Queue
      /\ known \in [Tasks -> BOOLEAN] /\ cursor \in [Tasks -> Nat]
  BY DEF QueueInv, TypeOK
<1>1. Unqueued'
  BY UnqueuedHolds
<1>2. CASE Restart
  <2> DEFINE back == {t \in Tasks : stored[t].state = "running"}
  <2>1. known' = [t \in Tasks |-> t \in back] /\ kick' = IdleKick /\ row' = stored'
        /\ cursor' = [t \in Tasks |-> IF t \in back THEN stored[t].seq + 1 ELSE 0]
        /\ \E again \in SUBSET back :
              stored' = [t \in Tasks |-> IF t \in back THEN Restored(stored[t], t \in again)
                                         ELSE stored[t]]
    BY <1>2 DEF Restart
  <2>2. ASSUME NEW t \in Tasks, Waits(t)' PROVE InQueue(t)'
    <3>1. stored'[t].state = "queued"
      BY <2>1, <2>2 DEF Waits, IdleKick
    <3>2. t \notin back
      BY <2>1, <3>1 DEF Restored
    <3>3. known'[t] = (t \in back) /\ cursor'[t] = 0
      BY <2>1, <3>2
    <3>4. row'[t].state = "queued"
      BY <2>1, <3>1
    <3>5. ~known'[t] /\ cursor'[t] = 0
      BY <3>2, <3>3
    <3> QED
      BY <3>4, <3>5 DEF InQueue
  <2>3. \A t \in Tasks : ~Failing(t)'
    BY <2>1 DEF Failing, IdleKick
  <2> QED
    BY <1>1, <2>2, <2>3 DEF Queue, Unqueued
<1>3. CASE ~Restart
  <2>1. ASSUME NEW t \in Tasks \ launched', Waits(t)' PROVE InQueue(t)'
    <3>1. t \notin launched
      BY <1>0, <1>3, LaunchedFrom
    <3>2. CASE ~Waits(t)
      <4>1. Dispatch(t)
        BY <1>3, <2>1, <3>1, <3>2, WaitsFrom
      <4>2. t \notin Range(created)
        BY <1>0, <4>1 DEF Dispatch, Absent, TypeOK
      <4>3. ~known[t] /\ ~(cursor[t] > 0)
        BY <1>0, <4>2 DEF RowsExist
      <4>4. cursor[t] = 0
        BY <1>0, <4>3
      <4>5. ~known'[t] /\ cursor'[t] = 0 /\ row'[t].state = "queued"
        BY <1>0, <4>1, <4>3, <4>4 DEF Dispatch, backend, Set, Absent, TypeOK
      <4> QED
        BY <4>5 DEF InQueue
    <3>3. CASE Waits(t)
      <4>1. /\ ~known[t] /\ cursor[t] <= 1
            /\ row[t].state = "queued" => cursor[t] = 0
            /\ row[t].state = "stopped" /\ stored[t].state = "queued" => Withdrawn(t)
        BY <1>0, <3>1, <3>3 DEF Queue, InQueue
      <4>2. NeverRan(t)
        BY <1>0, <3>3, <4>1 DEF Unheard
      <4>3. ~Ran(t)
        BY <4>1, <4>2 DEF Ran, NeverRan
      <4>4. ~known'[t]
        BY <1>3, <2>1, <4>1, <4>3, KnownFrom
      <4>5. CASE CancelUnstarted(t)
        <5>1. /\ canceller = IdleCancel /\ stored[t].state = "queued" /\ cursor[t] + 1 \in Nat
              /\ Handle(t, Result("stopped", FALSE), cursor[t] + 1)
              /\ canceller' = [at |-> "finish", task |-> t]
          BY <1>0, <4>5, NextNumber DEF CancelUnstarted, MayCancel
        <5>2. row[t].state = "queued"
          BY <4>1, <4>2, <5>1 DEF Withdrawn, IdleCancel, NeverRan, Unstarted
        <5>3. cursor[t] = 0
          BY <4>1, <5>2
        <5>4. /\ Result("stopped", FALSE) \in Event /\ Result("stopped", FALSE).type = "result"
              /\ Result("stopped", FALSE).state = "stopped"
          BY EventTypes
        <5>5. /\ cursor'[t] = cursor[t] + 1
              /\ row'[t] = RowAfter(t, Result("stopped", FALSE), cursor[t] + 1)
              /\ writes'[Len(writes) + 1]
                   = Write(t, RowAfter(t, Result("stopped", FALSE), cursor[t] + 1))
              /\ DOMAIN writes' = DOMAIN writes \cup {Len(writes) + 1}
          <6> DEFINE e == Result("stopped", FALSE)
          <6>1. e \in Event /\ e.state # "absent" /\ cursor[t] + 1 \in Nat
            BY <5>1, <5>4
          <6>2. Handle(t, e, cursor[t] + 1)
            BY <5>1
          <6> HIDE DEF e
          <6>3. /\ cursor'[t] = cursor[t] + 1 /\ row'[t] = RowAfter(t, e, cursor[t] + 1)
                /\ writes'[Len(writes) + 1] = Write(t, RowAfter(t, e, cursor[t] + 1))
                /\ DOMAIN writes' = DOMAIN writes \cup {Len(writes) + 1}
            BY <1>0, <6>1, <6>2, Handled
          <6> QED
            BY <6>3 DEF e
        <5>6. row'[t].state = "stopped"
          <6> DEFINE e == Result("stopped", FALSE)
          <6>1. e \in Event /\ e.type # "error" /\ e.state # "absent"
            BY <5>4
          <6> HIDE DEF e
          <6>2. RowAfter(t, e, cursor[t] + 1).state = e.state
            BY <1>0, <5>1, <6>1, RowsAfter
          <6>3. e = Result("stopped", FALSE)
            BY DEF e
          <6> QED
            BY <5>4, <5>5, <6>2, <6>3
        <5>7. Withdrawn(t)'
          BY <5>1, <5>5 DEF Withdrawn, Write
        <5>8. cursor'[t] = 1
          BY <5>3, <5>5
        <5> QED
          BY <4>4, <5>6, <5>7, <5>8 DEF InQueue
      <4>6. CASE ~CancelUnstarted(t)
        <5>1. ~Dispatch(t)
          BY <1>0, <4>2 DEF Dispatch, NeverRan, Unstarted, Absent
        <5>2. ~(FailedEarly /\ Failing(t))
          BY <1>0, <3>1 DEF Queue
        <5>3. cursor'[t] = cursor[t] /\ row'[t] = row[t]
          BY <1>3, <2>1, <4>1, <4>4, <4>6, <5>1, <5>2, CursorFrom
        <5>4. row[t].state = "stopped" /\ stored'[t].state = "queued" => Withdrawn(t)'
          <6>1. stored'[t].state = "queued" => stored[t].state = "queued"
            BY <1>3, <3>1, <5>1, StoredFrom
          <6> QED
            BY <1>3, <3>1, <4>1, <6>1, WithdrawnStays
        <5> QED
          BY <4>1, <4>4, <5>3, <5>4 DEF InQueue
      <4> QED
        BY <4>5, <4>6
    <3> QED
      BY <3>2, <3>3
  <2>2. ASSUME NEW t \in Tasks, Failing(t)' PROVE ~known'[t] /\ t \in launched'
    <3>1. CASE StartFails
      <4> PICK u \in Tasks \ launched : /\ Turn(u) /\ Enlist(u)
              /\ kick' = [Past(u) EXCEPT !.at = "error", !.task = u, !.seq = cursor[u] + 2]
        BY <3>1 DEF StartFails
      <4>1. kick'.task = u
        BY <1>0 DEF Past, TypeOK
      <4>2. u = t
        BY <2>2, <4>1 DEF Failing
      <4>3. ~known[t] /\ t \in launched' /\ known' = known
        BY <1>0, <3>1, <4>2 DEF Turn, Waits, Queue, InQueue, Enlist, StartFails, backend
      <4> QED
        BY <4>3
    <3>2. CASE ~StartFails
      <4>1. Failing(t) /\ ~Start
        BY <1>0, <1>3, <2>2, <3>2, FailingFrom
      <4>2. ~known[t] /\ t \in launched
        BY <1>0, <4>1 DEF Queue
      <4>3. ~Ran(t)
        BY <1>0, <4>2 DEF Unheard, Ran, NeverRan
      <4>4. ~known'[t]
        BY <1>3, <4>1, <4>2, <4>3, KnownFrom
      <4> QED
        BY <1>0, <1>3, <4>2, <4>4, LaunchedFrom
    <3> QED
      BY <3>1, <3>2
  <2> QED
    BY <1>1, <2>1, <2>2 DEF Queue, Unqueued
<1> QED
  BY <1>2, <1>3

-----------------------------------------------------------------------------
(* The pumps and the logs they read *)

\* What RunSays and RunEnds add to the log.
LEMMA Added ==
    ASSUME TypeOK, NEW t \in Tasks, Run(t)
    PROVE  \E e \in Event :
              /\ log' = Set(log, t, Append(log[t], e))
              /\ \/ RunSays(t) /\ e.type = "status" /\ active' = active
                 \/ RunEnds(t) /\ e.type = "result" /\ active' = Set(active, t, FALSE)
              /\ active[t] /\ UNCHANGED <<cursor, pump, waiting, canceller, known>>
<1>1. CASE RunSays(t)
  <2>1. Status("running") \in Event /\ Status("running").type = "status"
    BY EventTypes
  <2> QED
    BY <1>1, <2>1 DEF RunSays, rows, pumps, callers
<1>2. CASE RunEnds(t)
  <2> PICK s \in Terminal, again \in BOOLEAN :
         log' = Set(log, t, Append(log[t], Result(s, again)))
    BY <1>2 DEF RunEnds
  <2>1. Result(s, again) \in Event /\ Result(s, again).type = "result"
    BY EventTypes
  <2> QED
    BY <1>2, <2>1 DEF RunEnds, rows, pumps, callers
<1> QED
  BY <1>1, <1>2 DEF Run

\* The variables of one task that Pumped and EnoughReaders speak of.
Rest(t) == <<cursor[t], log[t], active[t], pump[t], waiting[t], known[t]>>

LEMMA QuietSteps ==
    ASSUME QueueInv, Next, ~Restart, NEW t \in Tasks,
           ~Start, ~(StartFails \/ FailedEarly), ~Pump(t), ~Run(t), ~Continue(t), ~Cancel(t),
           ~CancelUnstarted(t), ~ContinueLaunches, ~CancelReturns
    PROVE  Rest(t)' = Rest(t)
<1>0. /\ TypeOK /\ cursor \in [Tasks -> Nat] /\ log \in [Tasks -> Seq(Event)]
      /\ active \in [Tasks -> BOOLEAN] /\ waiting \in [Tasks -> Nat]
      /\ known \in [Tasks -> BOOLEAN]
      /\ pump \in [Tasks -> [at : {"none", "reading", "finish", "drain"}, pos : Nat]]
  BY DEF QueueInv, TypeOK
<1>1. CASE Walk \/ Kick \/ WriterStores \/ Caller
  BY <1>1 DEF Walk, Kick, KickEnds, KickSkips, KickBegins, KickFlushed, KickReads,
       FailedFinishes, FailedReturns, WriterStores, Caller, CancelFinishes, CancelDrained,
       rows, pumps, backend, Rest
<1>2. ASSUME NEW u \in Tasks, Pump(u) PROVE Rest(t)' = Rest(t)
  <2>1. u # t
    BY <1>2
  <2>2. CASE PumpReads(u)
    <3>1. /\ \E e, n : Handle(u, e, n)
          /\ \E p : pump' = Set(pump, u, p)
          /\ \E n, m : log' = [log EXCEPT ![u][n] = m]
          /\ UNCHANGED <<waiting, active, known>>
      BY <1>0, <2>2, Read DEF PumpReads, QueueInv
    <3> QED
      BY <1>0, <2>1, <3>1 DEF Handle, Set, Rest
  <2>3. CASE ~PumpReads(u)
    BY <1>0, <1>2, <2>1, <2>3 DEF Pump, PumpStarts, PumpFinishes, PumpReturns, PumpEnds, Set,
         rows, backend, Rest
  <2> QED
    BY <2>2, <2>3
<1>3. ASSUME NEW u \in Tasks, Run(u) PROVE Rest(t)' = Rest(t)
  <2>1. u # t
    BY <1>3
  <2> QED
    <3>1. PICK e \in Event :
            /\ log' = Set(log, u, Append(log[u], e))
            /\ active' = active \/ active' = Set(active, u, FALSE)
            /\ UNCHANGED <<cursor, pump, waiting, known>>
      BY <1>0, <1>3, Added
    <3> QED
      BY <1>0, <2>1, <3>1 DEF Set, Rest
<1>4. ASSUME NEW u \in Tasks, People(u) PROVE Rest(t)' = Rest(t)
  <2>1. CASE Dispatch(u) \/ Refused(u) \/ ContinueWaits(u)
    BY <1>0, <2>1 DEF Dispatch, Refused, ContinueWaits, rows, pumps, backend, Rest
  <2>2. CASE CancelUnstarted(u)
    <3>1. u # t /\ UNCHANGED <<log, active, pump, waiting, known>>
      BY <2>2 DEF CancelUnstarted, pumps, backend
    <3>2. cursor'[t] = cursor[t]
      BY <1>0, <2>2, <3>1 DEF CancelUnstarted, Handle, Set
    <3> QED
      BY <3>1, <3>2 DEF Rest
  <2>3. CASE Continue(u) \/ Cancel(u)
    <3>1. /\ u # t /\ known' = Set(known, u, TRUE) /\ pump' = pump
          /\ cursor' = Set(cursor, u, Registered(u).cursor)
          /\ \E l : log' = Set(log, u, l)
          /\ active' = active \/ active' = Set(active, u, TRUE)
          /\ waiting' = waiting \/ EnsurePump(u)
      <4>1. CASE Continue(u)
        BY <4>1 DEF Continue, Launch
      <4>2. CASE Cancel(u)
        BY <4>2 DEF Cancel
      <4> QED
        BY <2>3, <4>1, <4>2
    <3> QED
      BY <1>0, <3>1 DEF Set, EnsurePump, Rest
  <2> QED
    BY <1>4, <2>1, <2>2, <2>3 DEF People
<1> QED
  BY <1>1, <1>2, <1>3, <1>4, StepKinds

LEMMA PromiseKept ==
    ASSUME QueueInv, Next, ~Restart, NEW t \in Tasks, ~Cancel(t), ~CancelReturns
    PROVE  Promised(t)' <=> Promised(t)
<1>0. TypeOK
  BY DEF QueueInv
<1>1. ASSUME canceller' = canceller PROVE Promised(t)' <=> Promised(t)
  BY <1>1 DEF Promised
<1>2. CASE Walk \/ Kick \/ WriterStores
  BY <1>1, <1>2 DEF Walk, Kick, KickEnds, KickSkips, Start, StartFails, KickBegins,
       KickFlushed, KickReads, FailedEarly, FailedFinishes, FailedReturns, WriterStores, callers
<1>3. CASE Caller
  <2>1. CASE ContinueLaunches
    BY <1>1, <2>1 DEF ContinueLaunches
  <2>2. CASE CancelFinishes \/ CancelDrained
    <3>1. /\ canceller.at \in {"finish", "drain"}
          /\ canceller' = IdleCancel \/ canceller' = [canceller EXCEPT !.at = "drain"]
      BY <2>2 DEF CancelFinishes, CancelDrained
    <3>2. canceller \in [at : {"idle", "finish", "drain", "stopping", "releasing"},
                          task : Tasks \cup {Nobody}]
      BY <1>0 DEF TypeOK
    <3>3. canceller'.at \in {"idle", "drain"}
      BY <3>1, <3>2 DEF IdleCancel
    <3> QED
      BY <3>1, <3>3 DEF Promised
  <2> QED
    BY <1>3, <2>1, <2>2 DEF Caller
<1>4. ASSUME NEW u \in Tasks, Pump(u) \/ Run(u) PROVE canceller' = canceller
  BY <1>4 DEF Pump, Run, PumpStarts, PumpReads, PumpFinishes, PumpReturns, PumpEnds, RunSays,
       RunEnds, callers
<1>5. ASSUME NEW u \in Tasks, People(u) PROVE Promised(t)' <=> Promised(t)
  <2>1. CASE CancelUnstarted(u)
    BY <2>1 DEF CancelUnstarted, MayCancel, Promised, IdleCancel
  <2>2. CASE Cancel(u)
    <3>1. u # t
      BY <2>2
    <3>2. canceller = IdleCancel
      BY <2>2 DEF Cancel, MayCancel
    <3>3. canceller' = canceller \/ canceller'.task = u
      BY <2>2 DEF Cancel
    <3> QED
      BY <3>1, <3>2, <3>3 DEF Promised, IdleCancel
  <2>3. CASE ~CancelUnstarted(u) /\ ~Cancel(u)
    BY <1>1, <1>5, <2>3 DEF People, Dispatch, Refused, Continue, ContinueWaits, callers
  <2> QED
    BY <2>1, <2>2, <2>3
<1> QED
  BY <1>1, <1>2, <1>3, <1>4, <1>5, StepKinds

\* What leaves a task alone that the backend knows.
LEMMA KnownLeft ==
    ASSUME QueueInv, Next, ~Restart, NEW t \in Tasks, known[t],
           ~Pump(t), ~Run(t), ~Continue(t), ~Cancel(t), ~ContinueLaunches, ~CancelReturns
    PROVE  Rest(t)' = Rest(t)
<1>0. /\ TypeOK /\ Queue /\ Unheard /\ cursor \in [Tasks -> Nat] /\ log \in [Tasks -> Seq(Event)]
      /\ active \in [Tasks -> BOOLEAN] /\ waiting \in [Tasks -> Nat]
      /\ known \in [Tasks -> BOOLEAN]
  BY DEF QueueInv, TypeOK
<1>1. CASE Start
  <2> PICK u \in Tasks \ launched :
        /\ ~known[u]
        /\ known' = Set(known, u, TRUE) /\ active' = Set(active, u, TRUE)
        /\ log' = Set(log, u, <<Status("queued")>>) /\ EnsurePump(u)
    BY <1>1 DEF Start
  <2>1. u # t /\ pump' = pump /\ cursor' = cursor
    BY <1>1 DEF Start, rows
  <2> QED
    BY <1>0, <2>1 DEF Set, EnsurePump, Rest
<1>2. CASE StartFails
  <2> PICK u \in Tasks \ launched : Turn(u) /\ Handle(u, Error, cursor[u] + 1)
    BY <1>2 DEF StartFails
  <2>1. u # t
    BY <1>0 DEF Turn, Queue, Waits, InQueue
  <2>2. UNCHANGED <<pump, waiting, log, active, known>>
    BY <1>2 DEF StartFails, pumps, backend
  <2>3. cursor'[t] = cursor[t]
    BY <1>0, <2>1 DEF Handle, Set
  <2> QED
    BY <2>2, <2>3 DEF Rest
<1>3. CASE FailedEarly
  <2>1. kick.task # t
    BY <1>0, <1>3 DEF FailedEarly, Failing, Queue
  <2>2. UNCHANGED <<pump, waiting, log, active, known>>
    BY <1>3 DEF FailedEarly, pumps, backend
  <2>3. cursor' = cursor \/ cursor' = Set(cursor, kick.task, kick.seq)
    BY <1>3 DEF FailedEarly, Handle, rows
  <2>4. cursor'[t] = cursor[t]
    BY <1>0, <2>1, <2>3 DEF Set
  <2> QED
    BY <2>2, <2>4 DEF Rest
<1>4. CASE ~Start /\ ~StartFails /\ ~FailedEarly
  <2>1. ~CancelUnstarted(t)
    BY DEF CancelUnstarted
  <2> QED
    BY <1>4, <2>1, QuietSteps
<1> QED
  BY <1>1, <1>2, <1>3, <1>4

\* How a task becomes known.
LEMMA MadeKnown ==
    ASSUME QueueInv, Next, ~Restart, NEW t \in Tasks, ~known[t], known'[t]
    PROVE  \/ Continue(t) \/ Cancel(t)
           \/ /\ cursor[t] <= 1 /\ cursor' = cursor /\ pump' = pump
              /\ log'[t] = <<Status("queued")>> /\ active'[t] = TRUE
              /\ waiting'[t] = waiting[t] + 1
<1>0. /\ TypeOK /\ Queue /\ Unheard /\ log \in [Tasks -> Seq(Event)]
      /\ active \in [Tasks -> BOOLEAN] /\ waiting \in [Tasks -> Nat]
      /\ known \in [Tasks -> BOOLEAN]
  BY DEF QueueInv, TypeOK
<1>1. CASE Walk \/ Kick
  <2>1. Start
    BY <1>1 DEF Walk, Kick, KickEnds, KickSkips, StartFails, KickBegins, KickFlushed,
         KickReads, FailedEarly, FailedFinishes, FailedReturns, backend
  <2> PICK u \in Tasks \ launched :
        /\ Turn(u) /\ known' = Set(known, u, TRUE) /\ active' = Set(active, u, TRUE)
        /\ log' = Set(log, u, <<Status("queued")>>) /\ EnsurePump(u)
    BY <2>1 DEF Start
  <2>2. u = t
    BY <1>0 DEF Set
  <2>3. cursor[t] <= 1
    BY <1>0, <2>2 DEF Turn, Waits, Queue, InQueue
  <2>4. cursor' = cursor /\ pump' = pump
    BY <2>1 DEF Start, rows
  <2> QED
    BY <1>0, <2>2, <2>3, <2>4 DEF Set, EnsurePump
<1>2. CASE Caller \/ WriterStores
  BY <1>2 DEF Caller, ContinueLaunches, CancelFinishes, CancelDrained, CancelReturns,
       WriterStores, backend
<1>3. ASSUME NEW u \in Tasks, Pump(u) \/ Run(u) PROVE FALSE
  BY <1>3 DEF Pump, Run, PumpStarts, PumpReads, PumpFinishes, PumpReturns, PumpEnds, RunSays,
       RunEnds, backend
<1>4. ASSUME NEW u \in Tasks, People(u) PROVE Continue(t) \/ Cancel(t)
  <2>1. CASE Continue(u) \/ Cancel(u)
    <3>1. known' = Set(known, u, TRUE)
      BY <2>1 DEF Continue, Launch, Cancel
    <3>2. u = t
      BY <1>0, <3>1 DEF Set
    <3> QED
      BY <2>1, <3>2
  <2>2. CASE ~Continue(u) /\ ~Cancel(u)
    BY <1>4, <2>2 DEF People, Dispatch, Refused, ContinueWaits, CancelUnstarted, backend
  <2> QED
    BY <2>1, <2>2
<1> QED
  BY <1>1, <1>2, <1>3, <1>4, StepKinds


-----------------------------------------------------------------------------
(* A log that is over ends with a result *)

PumpedAt(t) ==
    /\ known[t] => cursor[t] <= Len(log[t])
    /\ pump[t].at = "reading" => pump[t].pos = cursor[t]
    /\ ~active[t] /\ cursor[t] < Len(log[t]) => log[t][Len(log[t])].type = "result"

LEMMA TaskTyped ==
    ASSUME TypeOK, NEW t \in Tasks
    PROVE  /\ cursor[t] \in Nat /\ log[t] \in Seq(Event) /\ Len(log[t]) \in Nat
           /\ active[t] \in BOOLEAN /\ known[t] \in BOOLEAN /\ waiting[t] \in Nat
           /\ pump[t] \in [at : {"none", "reading", "finish", "drain"}, pos : Nat]
           /\ Cardinality(Ahead(log[t], cursor[t])) \in Nat
<1>1. cursor[t] \in Nat /\ log[t] \in Seq(Event)
  BY DEF TypeOK
<1> QED
  BY <1>1, AheadIsFinite DEF TypeOK

LEMMA AtTheEnd ==
    ASSUME NEW l \in Seq(Event), NEW e \in Event
    PROVE  /\ Append(l, e) \in Seq(Event) /\ Len(Append(l, e)) = Len(l) + 1
           /\ Append(l, e)[Len(l) + 1] = e
           /\ \A i \in 1 .. Len(l) : Append(l, e)[i] = l[i]
OBVIOUS

\* A pump reads an event: the log keeps its events, but for what a result says.
LEMMA ReadOne ==
    ASSUME QueueInv, NEW t \in Tasks, PumpReads(t)
    PROVE  /\ known[t] /\ pump[t].at = "reading" /\ cursor[t] < Len(log[t])
           /\ cursor'[t] = cursor[t] + 1
           /\ log'[t] \in Seq(Event) /\ Len(log'[t]) = Len(log[t])
           /\ \A i \in 1 .. Len(log[t]) : log'[t][i].type = log[t][i].type
           /\ UNCHANGED <<active, waiting, known, canceller, sender>>
           /\ pump'[t].pos = cursor[t] + 1
           /\ pump'[t].at = IF log[t][cursor[t] + 1].type = "result" THEN "finish"
                            ELSE "reading"
<1>1. /\ TypeOK /\ LogsSpeak /\ Unheard /\ Pumped
      /\ pump \in [Tasks -> [at : {"none", "reading", "finish", "drain"}, pos : Nat]]
      /\ log \in [Tasks -> Seq(Event)]
  BY DEF QueueInv, TypeOK
<1>2. UNCHANGED <<active, waiting, known, canceller, sender>>
  BY DEF PumpReads, callers
<1>3. /\ log[t][cursor[t] + 1] \in Event /\ cursor[t] + 1 \in Nat
      /\ log[t][cursor[t] + 1].type # "error" /\ log[t][cursor[t] + 1].state # "absent"
      /\ Handle(t, log[t][cursor[t] + 1], cursor[t] + 1)
  BY <1>1, Read
<1>4. cursor'[t] = cursor[t] + 1
  BY <1>1, <1>3, Handled
<1>5. /\ known[t] /\ pump[t].at = "reading" /\ cursor[t] < Len(log[t])
      /\ log' \in [Tasks -> Seq(Event)] /\ Len(log'[t]) = Len(log[t])
      /\ \A i \in DOMAIN log[t] : log'[t][i].type = log[t][i].type
  BY <1>1, Read
<1>6. pump' = Set(pump, t, IF log[t][cursor[t] + 1].type = "result"
                           THEN [at |-> "finish", pos |-> cursor[t] + 1]
                           ELSE [at |-> "reading", pos |-> cursor[t] + 1])
  BY <1>1, Read
<1>7. pump'[t] = IF log[t][cursor[t] + 1].type = "result"
                 THEN [at |-> "finish", pos |-> cursor[t] + 1]
                 ELSE [at |-> "reading", pos |-> cursor[t] + 1]
  BY <1>1, <1>6 DEF Set
<1>8. log[t] \in Seq(Event) /\ log'[t] \in Seq(Event) /\ DOMAIN log[t] = 1 .. Len(log[t])
  BY <1>1, <1>5
<1>9. /\ pump'[t].pos = cursor[t] + 1
      /\ pump'[t].at = IF log[t][cursor[t] + 1].type = "result" THEN "finish" ELSE "reading"
  BY <1>7
<1> QED
  BY <1>2, <1>4, <1>5, <1>8, <1>9

\* A task that goes on has the log it had, or comes back idle.
LEMMA GoesOn ==
    ASSUME QueueInv, NEW t \in Tasks, Continue(t)
    PROVE  /\ Ran(t) /\ ~active[t] /\ active'[t] /\ known'[t] /\ waiting'[t] = waiting[t] + 1
           /\ log'[t] = Registered(t).log /\ cursor'[t] = Registered(t).cursor
           /\ UNCHANGED <<pump, canceller, sender>>
<1>1. /\ TypeOK /\ log \in [Tasks -> Seq(Event)] /\ active \in [Tasks -> BOOLEAN]
      /\ waiting \in [Tasks -> Nat] /\ known \in [Tasks -> BOOLEAN]
      /\ cursor \in [Tasks -> Nat]
  BY DEF QueueInv, TypeOK
<1>2. Ran(t) /\ ~active[t]
  BY WhoMayGoOn DEF Continue
<1>3. /\ active' = Set(active, t, TRUE) /\ known' = Set(known, t, TRUE)
      /\ log' = Set(log, t, Registered(t).log) /\ cursor' = Set(cursor, t, Registered(t).cursor)
      /\ EnsurePump(t) /\ UNCHANGED <<pump, canceller, sender>>
  BY DEF Continue, Launch, callers
<1> QED
  BY <1>1, <1>2, <1>3 DEF Set, EnsurePump

\* A cancel stops the run, or ends an idle task with a result, or finds it closed.
LEMMA Cancels ==
    ASSUME QueueInv, NEW t \in Tasks, Cancel(t)
    PROVE  /\ Ran(t) /\ active' = active /\ known'[t] /\ cursor'[t] = Registered(t).cursor
           /\ canceller = IdleCancel /\ UNCHANGED <<pump, sender>>
           /\ \/ /\ Registered(t).closed /\ log'[t] = Registered(t).log
                 /\ waiting'[t] = waiting[t] + 1 /\ canceller' = canceller
              \/ /\ active[t] /\ log'[t] = Registered(t).log /\ waiting' = waiting
                 /\ Promised(t)'
              \/ /\ ~active[t] /\ log'[t] = Append(Registered(t).log, Result("stopped", FALSE))
                 /\ waiting' = waiting /\ Promised(t)'
<1>1. /\ TypeOK /\ log \in [Tasks -> Seq(Event)] /\ waiting \in [Tasks -> Nat]
      /\ known \in [Tasks -> BOOLEAN] /\ cursor \in [Tasks -> Nat]
  BY DEF QueueInv, TypeOK
<1>2. Ran(t) /\ canceller = IdleCancel
  <2>1. MayCancel(t) /\ (stored[t].state = "queued" => known[t])
    BY DEF Cancel
  <2> QED
    BY <2>1, WhoMayGoOn DEF MayCancel
<1>3. /\ known' = Set(known, t, TRUE) /\ cursor' = Set(cursor, t, Registered(t).cursor)
      /\ log' = Set(log, t, IF active[t] \/ Registered(t).closed THEN Registered(t).log
                            ELSE Append(Registered(t).log, Result("stopped", FALSE)))
      /\ UNCHANGED <<pump, sender, active>>
  BY DEF Cancel
<1>4. known'[t] /\ cursor'[t] = Registered(t).cursor
      /\ log'[t] = IF active[t] \/ Registered(t).closed THEN Registered(t).log
                   ELSE Append(Registered(t).log, Result("stopped", FALSE))
  BY <1>1, <1>3 DEF Set
<1>5. CASE Registered(t).closed
  <2>1. EnsurePump(t) /\ canceller' = canceller
    BY <1>5 DEF Cancel
  <2>2. waiting'[t] = waiting[t] + 1
    BY <1>1, <2>1 DEF EnsurePump, Set
  <2> QED
    BY <1>2, <1>3, <1>4, <1>5, <2>1, <2>2
<1>6. CASE ~Registered(t).closed
  <2>1. /\ canceller' = [at |-> IF active[t] THEN "stopping" ELSE "releasing", task |-> t]
        /\ waiting' = waiting
    BY <1>6 DEF Cancel
  <2>2. Promised(t)'
    BY <2>1 DEF Promised
  <2> QED
    BY <1>2, <1>3, <1>4, <1>6, <2>1, <2>2
<1> QED
  BY <1>5, <1>6

LEMMA PumpedKnown ==
    ASSUME QueueInv, TypeOK', Next, ~Restart, NEW t \in Tasks, known[t]
    PROVE  PumpedAt(t)'
<1>0. /\ TypeOK /\ LogsSpeak /\ Unheard /\ Pumped /\ PumpedAt(t) /\ Unheard
      /\ cursor[t] \in Nat /\ log[t] \in Seq(Event) /\ Len(log[t]) \in Nat
      /\ active[t] \in BOOLEAN
  BY TaskTyped DEF QueueInv, Pumped, PumpedAt
<1>1. CASE Pump(t)
  <2>1. CASE PumpReads(t)
    <3>1. /\ cursor[t] < Len(log[t]) /\ cursor'[t] = cursor[t] + 1
          /\ Len(log'[t]) = Len(log[t]) /\ active' = active
          /\ \A i \in 1 .. Len(log[t]) : log'[t][i].type = log[t][i].type
      BY <2>1, ReadOne
    <3>2. Len(log[t]) \in 1 .. Len(log[t])
      BY <1>0, <3>1
    <3>3. pump'[t].at = "reading" => pump'[t].pos = cursor[t] + 1
      BY <2>1, ReadOne
    <3> QED
      BY <1>0, <3>1, <3>2, <3>3 DEF PumpedAt
  <2>2. CASE ~PumpReads(t)
    <3>1. /\ UNCHANGED <<cursor, log, active, known>>
          /\ pump'[t].at = "reading" => pump'[t].pos = cursor[t]
      <4>1. pump \in [Tasks -> [at : {"none", "reading", "finish", "drain"}, pos : Nat]]
        BY <1>0 DEF TypeOK
      <4>2. CASE PumpStarts(t)
        BY <4>1, <4>2 DEF PumpStarts, Set, rows, backend
      <4>3. CASE PumpFinishes(t)
        BY <4>1, <4>3 DEF PumpFinishes, database, rows, backend
      <4>4. CASE PumpReturns(t) \/ PumpEnds(t)
        BY <4>1, <4>4 DEF PumpReturns, PumpEnds, Set, IdlePump, rows, backend
      <4> QED
        BY <1>1, <2>2, <4>2, <4>3, <4>4 DEF Pump
    <3> QED
      BY <1>0, <3>1 DEF PumpedAt
  <2> QED
    BY <2>1, <2>2
<1>2. CASE Run(t)
  <2> PICK e \in Event :
        /\ log' = Set(log, t, Append(log[t], e))
        /\ \/ RunSays(t) /\ e.type = "status" /\ active' = active
           \/ RunEnds(t) /\ e.type = "result" /\ active' = Set(active, t, FALSE)
        /\ active[t] /\ UNCHANGED <<cursor, pump, waiting, canceller, known>>
    BY <1>0, <1>2, Added
  <2>1. log'[t] = Append(log[t], e)
    BY <1>0 DEF Set, TypeOK
  <2>2. Len(log'[t]) = Len(log[t]) + 1 /\ log'[t][Len(log[t]) + 1] = e
    BY <1>0, <2>1
  <2>3. active'[t] \/ e.type = "result"
    BY <1>0
  <2> QED
    BY <1>0, <2>2, <2>3 DEF PumpedAt
<1>3. CASE Continue(t)
  <2>1. /\ active'[t] /\ log'[t] = log[t] /\ cursor'[t] = cursor[t] /\ pump' = pump
    BY <1>0, <1>3, GoesOn, Registering
  <2> QED
    BY <1>0, <2>1 DEF PumpedAt
<1>4. CASE Cancel(t)
  <2>1. /\ active' = active /\ cursor'[t] = cursor[t] /\ pump' = pump
        /\ log'[t] = log[t] \/ log'[t] = Append(log[t], Result("stopped", FALSE))
    BY <1>0, <1>4, Cancels, Registering
  <2>2. CASE log'[t] = log[t]
    BY <1>0, <2>1, <2>2 DEF PumpedAt
  <2>3. CASE log'[t] = Append(log[t], Result("stopped", FALSE))
    <3>1. Result("stopped", FALSE) \in Event /\ Result("stopped", FALSE).type = "result"
      BY EventTypes
    <3>2. Len(log'[t]) = Len(log[t]) + 1 /\ log'[t][Len(log[t]) + 1].type = "result"
      <4> DEFINE e == Result("stopped", FALSE)
      <4>1. e \in Event /\ e.type = "result" /\ log'[t] = Append(log[t], e)
        BY <2>3, <3>1
      <4> HIDE DEF e
      <4> QED
        BY <1>0, <4>1, AtTheEnd
    <3> QED
      BY <1>0, <2>1, <3>2 DEF PumpedAt
  <2> QED
    BY <2>1, <2>2, <2>3
<1>5. CASE ContinueLaunches
  <2>1. /\ UNCHANGED <<cursor, log, pump, known>>
        /\ active'[t] \/ active'[t] = active[t]
    BY <1>0, <1>5 DEF ContinueLaunches, rows, Set, TypeOK
  <2> QED
    BY <1>0, <2>1 DEF PumpedAt
<1>6. CASE CancelReturns
  BY <1>0, <1>6 DEF CancelReturns, rows, backend, PumpedAt
<1>7. CASE ~Pump(t) /\ ~Run(t) /\ ~Continue(t) /\ ~Cancel(t) /\ ~ContinueLaunches
           /\ ~CancelReturns
  <2>1. Rest(t)' = Rest(t)
    BY <1>7, KnownLeft
  <2> QED
    BY <1>0, <2>1 DEF Rest, PumpedAt
<1> QED
  BY <1>1, <1>2, <1>3, <1>4, <1>5, <1>6, <1>7

LEMMA PumpedNew ==
    ASSUME QueueInv, TypeOK', Next, ~Restart, NEW t \in Tasks, ~known[t], known'[t]
    PROVE  PumpedAt(t)'
<1>0. /\ TypeOK /\ LogsSpeak /\ Unheard /\ Pumped /\ pump[t].at = "none" /\ ~active[t]
      /\ cursor[t] \in Nat
  BY TaskTyped DEF QueueInv, Unheard, IdlePump
<1>1. CASE Continue(t)
  <2>1. /\ active'[t] /\ pump' = pump /\ log'[t] = Registered(t).log
        /\ cursor'[t] = Registered(t).cursor
        /\ Registered(t).cursor <= Len(Registered(t).log)
    BY <1>0, <1>1, GoesOn, Registering
  <2> QED
    BY <1>0, <2>1 DEF PumpedAt
<1>2. CASE Cancel(t)
  <2>1. /\ pump' = pump /\ cursor'[t] = Registered(t).cursor
        /\ log'[t] = Append(Registered(t).log, Result("stopped", FALSE))
        /\ Registered(t).log \in Seq(Event) /\ Registered(t).cursor \in Nat
        /\ Registered(t).cursor <= Len(Registered(t).log)
    BY <1>0, <1>2, Cancels, Registering
  <2>2. Result("stopped", FALSE) \in Event /\ Result("stopped", FALSE).type = "result"
    BY EventTypes
  <2>3. Len(log'[t]) = Len(Registered(t).log) + 1
        /\ log'[t][Len(Registered(t).log) + 1].type = "result"
    <3> DEFINE l == Registered(t).log
               e == Result("stopped", FALSE)
    <3>1. l \in Seq(Event) /\ e \in Event /\ e.type = "result" /\ log'[t] = Append(l, e)
      BY <2>1, <2>2
    <3> HIDE DEF l, e
    <3>2. Len(log'[t]) = Len(l) + 1 /\ log'[t][Len(l) + 1].type = "result"
      BY <3>1, AtTheEnd
    <3> QED
      BY <3>2 DEF l
  <2>4. Len(Registered(t).log) \in Nat
    BY <2>1
  <2>5. cursor'[t] <= Len(log'[t]) /\ pump'[t].at = "none"
    BY <1>0, <2>1, <2>3, <2>4
  <2> QED
    BY <2>3, <2>5 DEF PumpedAt
<1>3. CASE ~Continue(t) /\ ~Cancel(t)
  <2>1. /\ cursor[t] <= 1 /\ cursor' = cursor /\ pump' = pump
        /\ log'[t] = <<Status("queued")>> /\ active'[t] = TRUE
    BY <1>3, MadeKnown
  <2>2. Len(log'[t]) = 1
    BY <2>1
  <2> QED
    BY <1>0, <2>1, <2>2 DEF PumpedAt
<1> QED
  BY <1>1, <1>2, <1>3

\* Nothing is read and no run goes on when the process starts.
LEMMA StartsOver ==
    ASSUME QueueInv, Restart, NEW t \in Tasks
    PROVE  /\ ~active'[t] /\ pump'[t] = IdlePump /\ waiting'[t] = 0 /\ ~Promised(t)'
           /\ Len(log'[t]) = cursor'[t] /\ cursor'[t] \in Nat /\ log'[t] \in Seq(Event)
<1>0. TypeOK /\ TypeOK'
  BY RestartTypes, AllTypes DEF QueueInv
<1>1. ~active'[t] /\ pump'[t] = IdlePump /\ waiting'[t] = 0 /\ canceller' = IdleCancel
  BY DEF Restart
<1> DEFINE back == {u \in Tasks : stored[u].state = "running"}
<1>2. /\ cursor' = [u \in Tasks |-> IF u \in back THEN stored[u].seq + 1 ELSE 0]
      /\ log' = [u \in Tasks |-> IF u \in back
                                 THEN [i \in 1 .. stored[u].seq + 1 |-> Blank] ELSE <<>>]
  BY DEF Restart
<1>3. stored[t].seq \in Nat /\ cursor'[t] \in Nat /\ log'[t] \in Seq(Event)
  BY <1>0 DEF TypeOK, TaskRow
<1>4. CASE t \in back
  <2>1. cursor'[t] = stored[t].seq + 1
        /\ log'[t] = [i \in 1 .. stored[t].seq + 1 |-> Blank]
    BY <1>2, <1>4
  <2>2. stored[t].seq + 1 \in Nat
    BY <1>3
  <2>3. Len(log'[t]) = stored[t].seq + 1
    <3>1. Blank \in Event
      BY EventTypes
    <3> HIDE DEF Blank, back
    <3> QED
      BY <2>1, <2>2, <3>1
  <2> QED
    BY <1>1, <1>3, <2>1, <2>3 DEF Promised, IdleCancel
<1>5. CASE t \notin back
  <2>1. cursor'[t] = 0 /\ log'[t] = <<>>
    BY <1>2, <1>5
  <2> QED
    BY <1>1, <1>3, <2>1 DEF Promised, IdleCancel
<1> QED
  BY <1>4, <1>5

LEMMA PumpedHolds ==
    ASSUME QueueInv, TypeOK', Unheard', Next
    PROVE  Pumped'
<1> SUFFICES ASSUME NEW t \in Tasks PROVE PumpedAt(t)'
  BY DEF Pumped, PumpedAt
<1>1. CASE Restart
  <2>1. ~active'[t] /\ pump'[t].at = "none" /\ Len(log'[t]) = cursor'[t] /\ cursor'[t] \in Nat
    BY <1>1, StartsOver DEF IdlePump
  <2> QED
    BY <2>1 DEF PumpedAt
<1>2. CASE ~Restart /\ ~known'[t]
  <2>1. log'[t] = <<>> /\ ~active'[t] /\ pump'[t].at = "none" /\ cursor'[t] \in Nat
    BY <1>2 DEF Unheard, IdlePump, TypeOK
  <2>2. Len(log'[t]) = 0
    BY <2>1
  <2>3. ~(cursor'[t] < Len(log'[t]))
    BY <2>1, <2>2
  <2> QED
    BY <1>2, <2>1, <2>3 DEF PumpedAt
<1>3. CASE ~Restart /\ known'[t]
  BY <1>3, PumpedKnown, PumpedNew
<1> QED
  BY <1>1, <1>2, <1>3

-----------------------------------------------------------------------------
(* There is a pump for each result that is still to be handled *)

EnoughAt(t) == Needed(t) <= Readers(t)

LEMMA Numbers ==
    ASSUME TypeOK, NEW t \in Tasks
    PROVE  Needed(t) \in Nat /\ Readers(t) \in Nat
BY TaskTyped DEF Needed, Readers, One

LEMMA ReadersAfter ==
    ASSUME TypeOK', NEW t \in Tasks
    PROVE  Readers(t)' \in Nat /\ waiting'[t] \in Nat /\ active'[t] \in BOOLEAN
           /\ known'[t] \in BOOLEAN
<1>1. waiting'[t] \in Nat /\ active'[t] \in BOOLEAN /\ known'[t] \in BOOLEAN
  BY DEF TypeOK
<1>2. One(pump'[t].at = "reading") \in Nat /\ One(Promised(t)') \in Nat
  BY DEF One
<1>3. Readers(t)' = One(pump'[t].at = "reading") + waiting'[t] + One(Promised(t)')
  BY DEF Readers
<1> QED
  BY <1>1, <1>2, <1>3

LEMMA EnoughForPumps ==
    ASSUME QueueInv, TypeOK', Next, ~Restart, NEW t \in Tasks, Pump(t)
    PROVE  EnoughAt(t)'
<1>0. /\ TypeOK /\ EnoughAt(t) /\ cursor[t] \in Nat /\ log[t] \in Seq(Event)
      /\ Len(log[t]) \in Nat /\ waiting[t] \in Nat /\ Readers(t)' \in Nat
      /\ Cardinality(Ahead(log[t], cursor[t])) \in Nat
      /\ pump[t].at = "reading" => pump[t].pos = cursor[t]
      /\ pump \in [Tasks -> [at : {"none", "reading", "finish", "drain"}, pos : Nat]]
      /\ waiting \in [Tasks -> Nat]
  BY TaskTyped, ReadersAfter DEF QueueInv, EnoughReaders, EnoughAt, Pumped, TypeOK
<1>1. Promised(t)' <=> Promised(t)
  <2>1. canceller' = canceller
    BY DEF Pump, PumpStarts, PumpReads, PumpFinishes, PumpReturns, PumpEnds, callers
  <2> QED
    BY <2>1 DEF Promised
<1>2. CASE PumpReads(t)
  <2>1. /\ pump[t].at = "reading" /\ cursor[t] < Len(log[t]) /\ cursor'[t] = cursor[t] + 1
        /\ Len(log'[t]) = Len(log[t])
        /\ \A i \in 1 .. Len(log[t]) : log'[t][i].type = log[t][i].type
        /\ active' = active /\ waiting' = waiting
        /\ pump'[t].at = IF log[t][cursor[t] + 1].type = "result" THEN "finish" ELSE "reading"
    BY <1>2, ReadOne
  <2>2. Ahead(log'[t], cursor[t] + 1) = Ahead(log[t], cursor[t] + 1)
    <3>1. \A i \in cursor[t] + 1 + 1 .. Len(log[t]) : i \in 1 .. Len(log[t])
      BY <1>0
    <3> QED
      BY <2>1, <3>1, AheadAgrees
  <2>3. Cardinality(Ahead(log[t], cursor[t]))
          = Cardinality(Ahead(log[t], cursor[t] + 1)) + One(log[t][cursor[t] + 1].type = "result")
    BY <1>0, <2>1, AheadShrinks
  <2>4. Cardinality(Ahead(log[t], cursor[t] + 1)) \in Nat
    <3>1. cursor[t] + 1 \in Nat
      BY <1>0
    <3> QED
      BY <1>0, <3>1, AheadIsFinite
  <2> DEFINE n == Cardinality(Ahead(log[t], cursor[t] + 1))
             r == One(log[t][cursor[t] + 1].type = "result")
  <2>5. r \in {0, 1} /\ One(pump'[t].at = "reading") = 1 - r
    BY <2>1 DEF One
  <2>6. /\ Needed(t) = n + r + One(active[t]) /\ Needed(t)' = n + One(active[t])
        /\ Readers(t) = 1 + waiting[t] + One(Promised(t))
        /\ Readers(t)' = (1 - r) + waiting[t] + One(Promised(t))
    <3>1. Needed(t) = n + r + One(active[t])
      BY <2>3 DEF Needed
    <3>2. Needed(t)' = n + One(active[t])
      BY <2>1, <2>2 DEF Needed
    <3>3. Readers(t) = 1 + waiting[t] + One(Promised(t))
      BY <2>1 DEF Readers, One
    <3>4. One(Promised(t))' = One(Promised(t))
      BY <1>1 DEF One
    <3>5. Readers(t)' = (1 - r) + waiting[t] + One(Promised(t))
      BY <2>1, <2>5, <3>4 DEF Readers
    <3> QED
      BY <3>1, <3>2, <3>3, <3>5
  <2>7. One(active[t]) \in {0, 1} /\ One(Promised(t)) \in {0, 1}
    BY DEF One
  <2> HIDE DEF n, r
  <2>8. n \in Nat
    BY <2>4 DEF n
  <2> QED
    BY <1>0, <2>5, <2>6, <2>7, <2>8 DEF EnoughAt
<1>3. CASE PumpStarts(t)
  <2>1. /\ pump[t].at = "none" /\ waiting'[t] = waiting[t] - 1 /\ pump'[t].at = "reading"
        /\ UNCHANGED <<cursor, log, active>>
    BY <1>0, <1>3 DEF PumpStarts, Set, rows, backend
  <2>2. Needed(t)' = Needed(t)
    BY <2>1 DEF Needed
  <2>3. Readers(t)' = Readers(t)
    BY <1>0, <1>1, <2>1 DEF Readers, One
  <2> QED
    BY <1>0, <2>2, <2>3 DEF EnoughAt
<1>4. CASE PumpFinishes(t) \/ PumpReturns(t)
  <2>1. /\ pump[t].at # "reading" /\ pump'[t].at # "reading"
        /\ UNCHANGED <<cursor, log, active, waiting>>
    BY <1>0, <1>4 DEF PumpFinishes, PumpReturns, Set, IdlePump, database, rows, backend
  <2>2. Needed(t)' = Needed(t)
    BY <2>1 DEF Needed
  <2>3. Readers(t)' = Readers(t)
    BY <1>0, <1>1, <2>1 DEF Readers, One
  <2> QED
    BY <1>0, <2>2, <2>3 DEF EnoughAt
<1>5. CASE PumpEnds(t)
  <2>1. /\ Len(log[t]) <= cursor[t] /\ ~active[t] /\ UNCHANGED <<cursor, log, active>>
    BY <1>0, <1>5 DEF PumpEnds, rows, backend
  <2>2. Cardinality(Ahead(log[t], cursor[t])) = 0
    BY <1>0, <2>1, NothingAhead
  <2>3. Needed(t)' = 0
    BY <2>1, <2>2 DEF Needed, One
  <2> QED
    BY <1>0, <2>3 DEF EnoughAt
<1> QED
  BY <1>2, <1>3, <1>4, <1>5 DEF Pump

LEMMA EnoughForRuns ==
    ASSUME QueueInv, Next, ~Restart, NEW t \in Tasks, Run(t)
    PROVE  EnoughAt(t)'
<1>0. /\ TypeOK /\ EnoughAt(t) /\ cursor[t] \in Nat /\ log[t] \in Seq(Event)
      /\ Len(log[t]) \in Nat /\ waiting[t] \in Nat /\ active \in [Tasks -> BOOLEAN]
      /\ log \in [Tasks -> Seq(Event)]
      /\ Cardinality(Ahead(log[t], cursor[t])) \in Nat
      /\ Unheard /\ Pumped
  BY TaskTyped DEF QueueInv, EnoughReaders, EnoughAt, TypeOK
<1>1. PICK e \in Event :
        /\ log' = Set(log, t, Append(log[t], e))
        /\ \/ RunSays(t) /\ e.type = "status" /\ active' = active
           \/ RunEnds(t) /\ e.type = "result" /\ active' = Set(active, t, FALSE)
        /\ active[t] /\ UNCHANGED <<cursor, pump, waiting, canceller, known>>
  BY <1>0, Added
<1>2. cursor[t] <= Len(log[t])
  BY <1>0, <1>1 DEF Unheard, Pumped
<1>3. log'[t] = Append(log[t], e)
  BY <1>0, <1>1 DEF Set
<1>4. Cardinality(Ahead(log'[t], cursor[t]))
        = Cardinality(Ahead(log[t], cursor[t])) + One(e.type = "result")
  BY <1>0, <1>2, <1>3, AheadGrows
<1>5. One(active'[t]) + One(e.type = "result") = One(active[t])
  BY <1>0, <1>1 DEF One, Set
<1>6. Needed(t)' = Needed(t)
  <2>1. One(active'[t]) \in {0, 1} /\ One(e.type = "result") \in {0, 1}
        /\ One(active[t]) \in {0, 1}
    BY DEF One
  <2>2. cursor'[t] = cursor[t]
    BY <1>1
  <2> QED
    BY <1>0, <1>4, <1>5, <2>1, <2>2 DEF Needed
<1>7. Readers(t)' = Readers(t)
  BY <1>1 DEF Readers, Promised
<1> QED
  BY <1>0, <1>6, <1>7 DEF EnoughAt

LEMMA EnoughForCalls ==
    ASSUME QueueInv, TypeOK', Next, ~Restart, NEW t \in Tasks, Continue(t) \/ Cancel(t)
    PROVE  EnoughAt(t)'
<1> DEFINE reg == Registered(t)
           n == Cardinality(Ahead(log[t], cursor[t]))
<1>0. /\ TypeOK /\ LogsSpeak /\ Unheard /\ Pumped /\ EnoughAt(t)
      /\ waiting[t] \in Nat /\ n \in Nat /\ waiting'[t] \in Nat /\ active[t] \in BOOLEAN
  BY TaskTyped, ReadersAfter DEF QueueInv, EnoughReaders, EnoughAt
<1>1. Ran(t)
  BY GoesOn, Cancels
<1>2. /\ reg.log \in Seq(Event) /\ reg.cursor \in Nat /\ reg.cursor <= Len(reg.log)
      /\ Cardinality(Ahead(reg.log, reg.cursor)) = n
  BY <1>0, <1>1, Registering
<1>3. One(active[t]) \in {0, 1} /\ One(active'[t]) \in {0, 1} /\ One(Promised(t)) \in {0, 1}
      /\ One(pump[t].at = "reading") \in {0, 1}
  BY DEF One
<1>4. /\ Needed(t) = n + One(active[t])
      /\ Readers(t) = One(pump[t].at = "reading") + waiting[t] + One(Promised(t))
  BY DEF Needed, Readers
<1>5. CASE Continue(t)
  <2>1. /\ ~active[t] /\ active'[t] /\ waiting'[t] = waiting[t] + 1
        /\ log'[t] = reg.log /\ cursor'[t] = reg.cursor /\ UNCHANGED <<pump, canceller>>
    BY <1>5, GoesOn
  <2>2. Needed(t)' = n + 1 /\ Needed(t) = n
    BY <1>0, <1>2, <1>4, <2>1 DEF Needed, One
  <2>3. Readers(t)' = One(pump[t].at = "reading") + (waiting[t] + 1) + One(Promised(t))
    BY <2>1 DEF Readers, Promised
  <2> HIDE DEF n
  <2> QED
    BY <1>0, <1>3, <1>4, <2>2, <2>3 DEF EnoughAt
<1>6. CASE Cancel(t)
  <2>1. /\ active' = active /\ cursor'[t] = reg.cursor /\ canceller = IdleCancel /\ pump' = pump
        /\ \/ /\ log'[t] = reg.log /\ waiting'[t] = waiting[t] + 1 /\ canceller' = canceller
           \/ /\ log'[t] = reg.log /\ waiting' = waiting /\ Promised(t)'
           \/ /\ log'[t] = Append(reg.log, Result("stopped", FALSE)) /\ waiting' = waiting
              /\ Promised(t)'
    BY <1>6, Cancels
  <2>2. ~Promised(t)
    BY <2>1 DEF Promised, IdleCancel
  <2>3. Readers(t) = One(pump[t].at = "reading") + waiting[t]
    BY <1>0, <1>3, <1>4, <2>2 DEF One
  <2>4. Readers(t)' = One(pump[t].at = "reading") + waiting[t] + 1
    <3>1. CASE waiting'[t] = waiting[t] + 1 /\ canceller' = canceller
      <4>1. One(Promised(t))' = 0
        BY <2>2, <3>1 DEF Promised, One
      <4> QED
        BY <1>0, <1>3, <2>1, <3>1, <4>1 DEF Readers
    <3>2. CASE waiting' = waiting /\ Promised(t)'
      BY <1>0, <1>3, <2>1, <3>2 DEF Readers, One
    <3> QED
      BY <2>1, <3>1, <3>2
  <2>5. Needed(t)' <= Needed(t) + 1 /\ Needed(t)' \in Int
    <3>1. CASE log'[t] = reg.log
      <4>1. Needed(t)' = Needed(t)
        BY <1>2, <1>4, <2>1, <3>1 DEF Needed
      <4> HIDE DEF n
      <4> QED
        BY <1>0, <1>3, <1>4, <4>1
    <3>2. CASE log'[t] = Append(reg.log, Result("stopped", FALSE))
      <4> DEFINE e == Result("stopped", FALSE)
      <4>1. e \in Event /\ e.type = "result"
        BY EventTypes
      <4> HIDE DEF e
      <4>2. log'[t] = Append(reg.log, e)
        BY <3>2 DEF e
      <4>3. Cardinality(Ahead(log'[t], reg.cursor)) = n + 1
        <5>1. Cardinality(Ahead(Append(reg.log, e), reg.cursor))
                = Cardinality(Ahead(reg.log, reg.cursor)) + One(e.type = "result")
          BY <1>2, <4>1, AheadGrows
        <5> QED
          BY <1>2, <4>1, <4>2, <5>1 DEF One
      <4>4. Needed(t)' = n + 1 + One(active[t])
        BY <2>1, <4>3 DEF Needed
      <4> HIDE DEF n
      <4> QED
        BY <1>0, <1>3, <1>4, <4>4
    <3> QED
      BY <2>1, <3>1, <3>2
  <2>6. Needed(t) \in Nat
    BY <1>0, Numbers
  <2> QED
    BY <1>0, <1>3, <2>3, <2>4, <2>5, <2>6 DEF EnoughAt
<1> QED
  BY <1>5, <1>6

LEMMA EnoughAfterCaller ==
    ASSUME QueueInv, Next, ~Restart, NEW t \in Tasks, ContinueLaunches \/ CancelReturns
    PROVE  EnoughAt(t)'
<1>0. /\ TypeOK /\ EnoughAt(t) /\ waiting[t] \in Nat /\ waiting \in [Tasks -> Nat]
      /\ active \in [Tasks -> BOOLEAN] /\ Cardinality(Ahead(log[t], cursor[t])) \in Nat
      /\ canceller.at # "idle" => canceller.task \in Tasks
      /\ sender \in Tasks \cup {Nobody}
  BY TaskTyped DEF QueueInv, EnoughReaders, EnoughAt, TypeOK
<1>1. CASE ContinueLaunches
  <2>1. /\ UNCHANGED <<cursor, log, pump, canceller>>
        /\ sender \in Tasks /\ active' = Set(active, sender, TRUE) /\ EnsurePump(sender)
    BY <1>0, <1>1 DEF ContinueLaunches, rows
  <2>2. CASE sender = t
    <3>1. active'[t] = TRUE /\ waiting'[t] = waiting[t] + 1
      BY <1>0, <2>1, <2>2 DEF Set, EnsurePump
    <3>2. Needed(t)' <= Needed(t) + 1 /\ Needed(t)' \in Nat /\ Needed(t) \in Nat
      <4>1. One(active'[t]) = 1 /\ One(active[t]) \in {0, 1}
        BY <3>1 DEF One
      <4>2. Needed(t)' = Cardinality(Ahead(log[t], cursor[t])) + One(active'[t])
        BY <2>1 DEF Needed
      <4> QED
        BY <1>0, <4>1, <4>2 DEF Needed
    <3>3. Readers(t)' = Readers(t) + 1 /\ Readers(t) \in Nat
      <4>1. One(Promised(t))' = One(Promised(t)) /\ One(Promised(t)) \in {0, 1}
        BY <2>1 DEF One, Promised
      <4>2. One(pump[t].at = "reading") \in {0, 1}
        BY DEF One
      <4> QED
        BY <1>0, <2>1, <3>1, <4>1, <4>2 DEF Readers
    <3> QED
      BY <1>0, <3>2, <3>3 DEF EnoughAt
  <2>3. CASE sender # t
    <3>1. active'[t] = active[t] /\ waiting'[t] = waiting[t]
      BY <1>0, <2>1, <2>3 DEF Set, EnsurePump
    <3> QED
      BY <1>0, <2>1, <3>1 DEF EnoughAt, Needed, Readers, Promised
  <2> QED
    BY <2>2, <2>3
<1>2. CASE CancelReturns
  <2>1. /\ UNCHANGED <<cursor, log, pump, active>> /\ canceller' = IdleCancel
        /\ canceller.at \in {"stopping", "releasing"} /\ EnsurePump(canceller.task)
    BY <1>2 DEF CancelReturns, rows, backend
  <2>2. Needed(t)' = Needed(t)
    BY <2>1 DEF Needed
  <2>3. ~Promised(t)'
    BY <2>1 DEF Promised, IdleCancel
  <2>4. Readers(t)' = Readers(t)
    <3>1. One(pump[t].at = "reading") \in {0, 1}
      BY DEF One
    <3>2. CASE canceller.task = t
      <4>1. Promised(t) /\ waiting'[t] = waiting[t] + 1
        BY <1>0, <2>1, <3>2 DEF Promised, EnsurePump, Set
      <4>2. One(Promised(t)) = 1 /\ One(Promised(t))' = 0
        BY <2>3, <4>1 DEF One
      <4>3. Readers(t)' = One(pump[t].at = "reading") + (waiting[t] + 1) + 0
        BY <2>1, <4>1, <4>2 DEF Readers
      <4> QED
        BY <1>0, <3>1, <4>2, <4>3 DEF Readers
    <3>3. CASE canceller.task # t
      <4>1. ~Promised(t) /\ waiting'[t] = waiting[t]
        BY <1>0, <2>1, <3>3 DEF Promised, EnsurePump, Set
      <4>2. One(Promised(t)) = 0 /\ One(Promised(t))' = 0
        BY <2>3, <4>1 DEF One
      <4> QED
        BY <1>0, <2>1, <3>1, <4>1, <4>2 DEF Readers
    <3> QED
      BY <3>2, <3>3
  <2> QED
    BY <1>0, <2>2, <2>4 DEF EnoughAt
<1> QED
  BY <1>1, <1>2

\* A start that succeeds: the run and its pump.
LEMMA EnoughForStart ==
    ASSUME QueueInv, TypeOK', Next, ~Restart, NEW t \in Tasks,
           log'[t] = <<Status("queued")>>, waiting'[t] = waiting[t] + 1
    PROVE  EnoughAt(t)'
<1>0. waiting[t] \in Nat /\ cursor'[t] \in Nat
  BY TaskTyped DEF QueueInv, TypeOK
<1>1. Ahead(log'[t], cursor'[t]) = {}
  <2>1. Status("queued").type = "status"
    BY DEF Status
  <2> QED
    BY <1>0, <2>1 DEF Ahead
<1>2. Cardinality(Ahead(log'[t], cursor'[t])) = 0
  BY <1>1, FS_EmptySet
<1>3. Needed(t)' <= 1 /\ Needed(t)' \in Nat
  BY <1>2 DEF Needed, One
<1>4. Readers(t)' >= 1 /\ Readers(t)' \in Nat
  BY <1>0 DEF Readers, One
<1> QED
  BY <1>3, <1>4 DEF EnoughAt

LEMMA EnoughReadersHolds ==
    ASSUME QueueInv, TypeOK', Unheard', Next
    PROVE  EnoughReaders'
<1> SUFFICES ASSUME NEW t \in Tasks PROVE EnoughAt(t)'
  BY DEF EnoughReaders, EnoughAt
<1>0. /\ TypeOK /\ EnoughAt(t) /\ Readers(t)' \in Nat
      /\ active'[t] \in BOOLEAN /\ known'[t] \in BOOLEAN
      /\ cursor'[t] \in Nat /\ log'[t] \in Seq(Event)
  BY ReadersAfter DEF QueueInv, EnoughReaders, EnoughAt, TypeOK
<1>1. ASSUME ~active'[t], Len(log'[t]) <= cursor'[t] PROVE EnoughAt(t)'
  <2>1. Cardinality(Ahead(log'[t], cursor'[t])) = 0
    BY <1>0, <1>1, NothingAhead
  <2>2. Needed(t)' = 0
    BY <1>1, <2>1 DEF Needed, One
  <2> QED
    BY <1>0, <2>2 DEF EnoughAt
<1>2. CASE Restart
  BY <1>0, <1>1, <1>2, StartsOver
<1>3. CASE ~Restart /\ ~known'[t]
  <2>1. ~active'[t] /\ log'[t] = <<>>
    BY <1>3 DEF Unheard
  <2>2. Len(log'[t]) <= cursor'[t]
    BY <1>0, <2>1
  <2> QED
    BY <1>1, <2>1, <2>2
<1>4. CASE ~Restart /\ known'[t]
  <2>1. CASE Pump(t) \/ Run(t)
    BY <1>4, <2>1, EnoughForPumps, EnoughForRuns
  <2>2. CASE Continue(t) \/ Cancel(t)
    BY <1>4, <2>2, EnoughForCalls
  <2>3. CASE ContinueLaunches \/ CancelReturns
    BY <1>4, <2>3, EnoughAfterCaller
  <2>4. CASE ~(Pump(t) \/ Run(t) \/ Continue(t) \/ Cancel(t)
               \/ ContinueLaunches \/ CancelReturns)
    <3>1. CASE known[t]
      <4>1. Rest(t)' = Rest(t)
        BY <1>4, <2>4, <3>1, KnownLeft
      <4>2. Promised(t)' <=> Promised(t)
        BY <1>4, <2>4, PromiseKept
      <4>3. One(Promised(t))' = One(Promised(t))
        BY <4>2 DEF One
      <4>4. Needed(t)' = Needed(t) /\ Readers(t)' = Readers(t)
        BY <4>1, <4>3 DEF Rest, Needed, Readers
      <4> QED
        BY <1>0, <4>4 DEF EnoughAt
    <3>2. CASE ~known[t]
      <4>1. log'[t] = <<Status("queued")>> /\ waiting'[t] = waiting[t] + 1
        BY <1>4, <2>4, <3>2, MadeKnown
      <4> QED
        BY <1>4, <4>1, EnoughForStart
    <3> QED
      BY <3>1, <3>2
  <2> QED
    BY <2>1, <2>2, <2>3, <2>4
<1> QED
  BY <1>2, <1>3, <1>4

-----------------------------------------------------------------------------
(* Every slot is on its way back *)

Returning(t) ==
    \/ active[t] \/ cursor[t] < Len(log[t]) \/ pump[t].at = "finish"
    \/ kick.at \in {"error", "finish"} /\ kick.task = t
    \/ canceller.at = "finish" /\ canceller.task = t
    \/ sender = t

LEMMA SlotsInKick ==
    ASSUME QueueInv, NEW t \in Tasks, t \in live', Walk \/ Kick
    PROVE  Returning(t)'
<1>0. /\ TypeOK /\ log \in [Tasks -> Seq(Event)] /\ active \in [Tasks -> BOOLEAN]
      /\ cursor \in [Tasks -> Nat] /\ FailedOnce
      /\ t \in live => Returning(t)
  BY DEF QueueInv, TypeOK, SlotsReturned, Returning
<1>1. CASE KickEnds \/ KickSkips \/ KickBegins \/ KickFlushed \/ KickReads
  <2>1. /\ kick.at \notin {"error", "finish"}
        /\ UNCHANGED <<live, active, cursor, log, pump, canceller, sender>>
    BY <1>1 DEF KickEnds, KickSkips, KickBegins, KickFlushed, KickReads, Walking, rows, slots,
         pumps, callers, backend
  <2> QED
    BY <1>0, <2>1 DEF Returning
<1>2. CASE Start
  <2> PICK u \in Tasks \ launched :
        /\ live' = live \cup {u} /\ active' = Set(active, u, TRUE)
        /\ log' = Set(log, u, <<Status("queued")>>)
    BY <1>2 DEF Start, Enlist
  <2>1. kick.at = "walk" /\ UNCHANGED <<cursor, pump, canceller, sender>>
    BY <1>2 DEF Start, Walking, rows, callers
  <2> QED
    BY <1>0, <2>1 DEF Set, Returning
<1>3. CASE StartFails
  <2> PICK u \in Tasks \ launched :
        /\ live' = live \cup {u} /\ Handle(u, Error, cursor[u] + 1)
        /\ kick' = [Past(u) EXCEPT !.at = "error", !.task = u, !.seq = cursor[u] + 2]
    BY <1>3 DEF StartFails, Enlist
  <2>1. kick.at = "walk" /\ UNCHANGED <<active, log, pump, canceller, sender>>
    BY <1>3 DEF StartFails, Walking, pumps, callers, backend
  <2>2. CASE u = t
    <3>1. kick'.at = "error" /\ kick'.task = t
      BY <1>0, <2>2, KickFields
    <3> QED
      BY <3>1 DEF Returning
  <2>3. CASE u # t
    <3>1. cursor'[t] = cursor[t]
      BY <1>0, <2>3 DEF Handle, Set
    <3> QED
      BY <1>0, <2>1, <2>3, <3>1 DEF Returning
  <2> QED
    BY <2>2, <2>3
<1>4. CASE FailedEarly
  <2>1. kick.at = "error" /\ UNCHANGED <<live, active, log, pump, canceller, sender>>
    BY <1>4 DEF FailedEarly, slots, pumps, callers, backend
  <2>2. CASE kick.task = t
    <3>1. CASE kick.seq <= cursor[t]
      <4>1. canceller.at = "finish" /\ canceller.task = t
        BY <1>0, <2>1, <2>2, <3>1 DEF FailedOnce
      <4> QED
        BY <2>1, <4>1 DEF Returning
    <3>2. CASE ~(kick.seq <= cursor[t])
      <4>1. kick' = [kick EXCEPT !.at = "finish"]
        BY <1>4, <2>2, <3>2 DEF FailedEarly
      <4>2. kick'.at = "finish" /\ kick'.task = t
        BY <1>0, <2>2, <4>1, KickFields
      <4> QED
        BY <4>2 DEF Returning
    <3> QED
      BY <3>1, <3>2
  <2>3. CASE kick.task # t
    <3>1. cursor' = cursor \/ cursor' = Set(cursor, kick.task, kick.seq)
      BY <1>4 DEF FailedEarly, Handle, rows
    <3>2. cursor'[t] = cursor[t]
      BY <1>0, <2>3, <3>1 DEF Set
    <3> QED
      BY <1>0, <2>1, <2>3, <3>2 DEF Returning
  <2> QED
    BY <2>2, <2>3
<1>5. CASE FailedFinishes \/ FailedReturns
  <2>1. /\ UNCHANGED <<active, cursor, log, pump, canceller, sender>>
        /\ t \in live /\ (kick.at = "finish" => t # kick.task)
        /\ kick.at # "error"
    BY <1>5 DEF FailedFinishes, FailedReturns, FreeSlot, rows, slots, pumps, callers, backend
  <2> QED
    BY <1>0, <2>1 DEF Returning
<1> QED
  BY <1>1, <1>2, <1>3, <1>4, <1>5 DEF Walk, Kick

LEMMA SlotsInPump ==
    ASSUME QueueInv, NEW t \in Tasks, t \in live', NEW u \in Tasks, Pump(u) \/ Run(u)
    PROVE  Returning(t)'
<1>0. /\ TypeOK /\ log \in [Tasks -> Seq(Event)] /\ active \in [Tasks -> BOOLEAN]
      /\ cursor \in [Tasks -> Nat] /\ Unheard /\ Pumped /\ LogsSpeak
      /\ pump \in [Tasks -> [at : {"none", "reading", "finish", "drain"}, pos : Nat]]
      /\ t \in live => Returning(t)
      /\ cursor[t] \in Nat /\ Len(log[t]) \in Nat /\ log[t] \in Seq(Event)
  BY TaskTyped DEF QueueInv, TypeOK, SlotsReturned, Returning
<1>1. UNCHANGED <<kick, canceller, sender>>
  BY DEF Pump, Run, PumpStarts, PumpReads, PumpFinishes, PumpReturns, PumpEnds, RunSays,
     RunEnds, kicks, callers
<1>2. CASE PumpReads(u)
  <2>1. live' = live
    BY <1>2 DEF PumpReads, slots
  <2>2. CASE u = t
    <3>1. /\ cursor[t] < Len(log[t]) /\ cursor'[t] = cursor[t] + 1
          /\ Len(log'[t]) = Len(log[t]) /\ active' = active
          /\ pump'[t].at = IF log[t][cursor[t] + 1].type = "result" THEN "finish"
                           ELSE "reading"
      BY <1>2, <2>2, ReadOne
    <3>2. CASE active[t]
      BY <3>1, <3>2 DEF Returning
    <3>3. CASE ~active[t]
      <4>1. log[t][Len(log[t])].type = "result"
        BY <1>0, <3>1, <3>3 DEF Pumped
      <4>2. CASE cursor[t] + 1 = Len(log[t])
        BY <3>1, <4>1, <4>2 DEF Returning
      <4>3. CASE cursor[t] + 1 # Len(log[t])
        <5>1. cursor'[t] < Len(log'[t])
          BY <1>0, <3>1, <4>3
        <5> QED
          BY <5>1 DEF Returning
      <4> QED
        BY <4>2, <4>3
    <3> QED
      BY <3>2, <3>3
  <2>3. CASE u # t
    <3>1. /\ \E e, n : Handle(u, e, n)
          /\ \E p : pump' = Set(pump, u, p)
          /\ \E n, m : log' = [log EXCEPT ![u][n] = m]
          /\ active' = active
      BY <1>0, <1>2, Read DEF PumpReads
    <3>2. cursor'[t] = cursor[t] /\ pump'[t] = pump[t] /\ log'[t] = log[t]
      BY <1>0, <2>3, <3>1 DEF Handle, Set
    <3> QED
      BY <1>0, <1>1, <2>1, <3>1, <3>2 DEF Returning
  <2> QED
    BY <2>2, <2>3
<1>3. CASE PumpFinishes(u)
  <2>1. /\ t \in live /\ u # t /\ UNCHANGED <<cursor, log, active>>
        /\ pump' = [pump EXCEPT ![u].at = "drain"]
    BY <1>3 DEF PumpFinishes, FreeSlot, database, rows, backend
  <2>2. pump'[t] = pump[t]
    BY <1>0, <2>1
  <2> QED
    BY <1>0, <1>1, <2>1, <2>2 DEF Returning
<1>4. CASE PumpStarts(u) \/ PumpReturns(u) \/ PumpEnds(u)
  <2>1. /\ live' = live /\ UNCHANGED <<cursor, log, active>>
        /\ pump[u].at # "finish" /\ \E p : pump' = Set(pump, u, p)
    BY <1>4 DEF PumpStarts, PumpReturns, PumpEnds, slots, rows, backend
  <2>2. pump[t].at = "finish" => pump'[t] = pump[t]
    BY <1>0, <2>1 DEF Set
  <2> QED
    BY <1>0, <1>1, <2>1, <2>2 DEF Returning
<1>5. CASE Run(u)
  <2>1. PICK e \in Event :
          /\ log' = Set(log, u, Append(log[u], e))
          /\ active' = active \/ active' = Set(active, u, FALSE)
          /\ active[u] /\ UNCHANGED <<cursor, pump>>
    BY <1>0, <1>5, Added
  <2>2. live' = live
    BY <1>5 DEF Run, RunSays, RunEnds, slots
  <2>3. CASE u = t
    <3>1. log'[t] = Append(log[t], e)
      BY <1>0, <2>1, <2>3 DEF Set
    <3>2. Len(log'[t]) = Len(log[t]) + 1
      BY <1>0, <3>1, AtTheEnd
    <3>3. cursor[t] <= Len(log[t])
      BY <1>0, <2>1, <2>3 DEF Unheard, Pumped
    <3> QED
      BY <1>0, <2>1, <3>2, <3>3 DEF Returning
  <2>4. CASE u # t
    <3>1. log'[t] = log[t] /\ active'[t] = active[t]
      BY <1>0, <2>1, <2>4 DEF Set
    <3> QED
      BY <1>0, <1>1, <2>1, <2>2, <3>1 DEF Returning
  <2> QED
    BY <2>3, <2>4
<1> QED
  BY <1>2, <1>3, <1>4, <1>5 DEF Pump

LEMMA SlotsInCalls ==
    ASSUME QueueInv, NEW t \in Tasks, t \in live', NEW u \in Tasks, People(u)
    PROVE  Returning(t)'
<1>0. /\ TypeOK /\ log \in [Tasks -> Seq(Event)] /\ active \in [Tasks -> BOOLEAN]
      /\ cursor \in [Tasks -> Nat] /\ Unheard /\ Pumped /\ LogsSpeak
      /\ t \in live => Returning(t)
      /\ cursor[t] \in Nat /\ Len(log[t]) \in Nat /\ log[t] \in Seq(Event)
  BY TaskTyped DEF QueueInv, TypeOK, SlotsReturned, Returning
<1>1. CASE Dispatch(u) \/ Refused(u)
  <2>1. UNCHANGED <<cursor, log, active, pump, kick, canceller, sender>> /\ t \in live
    BY <1>1 DEF Dispatch, Refused, GiveBack, rows, slots, kicks, pumps, callers, backend
  <2> QED
    BY <1>0, <2>1 DEF Returning
<1>2. CASE Continue(u)
  <2>1. CASE u = t
    BY <1>2, <2>1, GoesOn DEF Returning
  <2>2. CASE u # t
    <3>1. /\ active' = Set(active, u, TRUE) /\ \E l : log' = Set(log, u, l)
          /\ \E n : cursor' = Set(cursor, u, n) /\ live' = live \cup {u}
          /\ UNCHANGED <<pump, kick, canceller, sender>>
      BY <1>2 DEF Continue, Launch, kicks, callers
    <3>2. active'[t] = active[t] /\ log'[t] = log[t] /\ cursor'[t] = cursor[t] /\ t \in live
      BY <1>0, <2>2, <3>1 DEF Set
    <3> QED
      BY <1>0, <3>1, <3>2 DEF Returning
  <2> QED
    BY <2>1, <2>2
<1>3. CASE ContinueWaits(u)
  <2>1. /\ sender = Nobody /\ sender' = u /\ live' = live \cup {u}
        /\ UNCHANGED <<cursor, log, active, pump, kick, canceller>>
    BY <1>3 DEF ContinueWaits, rows, kicks, pumps, backend
  <2> QED
    BY <1>0, <2>1, NobodyAssumption DEF Returning
<1>4. CASE CancelUnstarted(u)
  <2>1. /\ canceller = IdleCancel /\ canceller' = [at |-> "finish", task |-> u]
        /\ live' = live /\ UNCHANGED <<log, active, pump, kick, sender>>
    BY <1>4 DEF CancelUnstarted, MayCancel, slots, kicks, pumps, backend
  <2>2. CASE u = t
    BY <2>1, <2>2 DEF Returning
  <2>3. CASE u # t
    <3>1. cursor'[t] = cursor[t]
      BY <1>0, <1>4, <2>3 DEF CancelUnstarted, Handle, Set
    <3> QED
      BY <1>0, <2>1, <3>1 DEF Returning, IdleCancel
  <2> QED
    BY <2>2, <2>3
<1>5. CASE Cancel(u)
  <2>1. /\ live' = live /\ UNCHANGED <<pump, kick, sender, active>>
    BY <1>5 DEF Cancel, slots, kicks
  <2>2. canceller = IdleCancel
    BY <1>5 DEF Cancel, MayCancel
  <2>3. cursor[t] < Len(log[t]) => cursor'[t] < Len(log'[t])
    <3>1. CASE u = t
      <4> SUFFICES ASSUME cursor[t] < Len(log[t]) PROVE cursor'[t] < Len(log'[t])
        OBVIOUS
      <4>1. known[t]
        <5>1. CASE ~known[t]
          <6>1. Len(log[t]) = 0
            BY <1>0, <5>1 DEF Unheard
          <6> QED
            BY <1>0, <6>1
        <5> QED
          BY <5>1
      <4>2. Ran(t) /\ cursor'[t] = Registered(t).cursor
            /\ \/ log'[t] = Registered(t).log
               \/ log'[t] = Append(Registered(t).log, Result("stopped", FALSE))
        BY <1>5, <3>1, Cancels
      <4>3. Registered(t).log = log[t] /\ Registered(t).cursor = cursor[t]
        BY <1>0, <4>1, <4>2, Registering
      <4> DEFINE e == Result("stopped", FALSE)
      <4>4. e \in Event /\ (log'[t] = log[t] \/ log'[t] = Append(log[t], e))
        BY <4>2, <4>3, EventTypes
      <4> HIDE DEF e
      <4>5. Len(log'[t]) >= Len(log[t]) /\ Len(log'[t]) \in Nat
        BY <1>0, <4>4, AtTheEnd
      <4> QED
        BY <1>0, <4>2, <4>3, <4>5
    <3>2. CASE u # t
      <4>1. /\ \E l : log' = Set(log, u, l) /\ \E n : cursor' = Set(cursor, u, n)
        BY <1>5 DEF Cancel
      <4> QED
        BY <1>0, <3>2, <4>1 DEF Set
    <3> QED
      BY <3>1, <3>2
  <2> QED
    BY <1>0, <2>1, <2>2, <2>3 DEF Returning, IdleCancel
<1> QED
  BY <1>1, <1>2, <1>3, <1>4, <1>5 DEF People

LEMMA SlotsHold ==
    ASSUME QueueInv, TypeOK', Next
    PROVE  SlotsReturned'
<1> SUFFICES ASSUME NEW t \in Tasks, t \in live' PROVE Returning(t)'
  BY DEF SlotsReturned, Returning, TypeOK
<1>0. /\ TypeOK /\ active \in [Tasks -> BOOLEAN]
      /\ t \in live => Returning(t)
  BY DEF QueueInv, TypeOK, SlotsReturned, Returning
<1>1. CASE Restart
  BY <1>1 DEF Restart
<1>2. CASE WriterStores
  BY <1>0, <1>2 DEF WriterStores, rows, slots, kicks, pumps, callers, backend, Returning
<1>3. CASE Caller
  <2>1. CASE ContinueLaunches
    <3>1. /\ active' = Set(active, sender, TRUE) /\ live' = live
          /\ sender \in Tasks /\ UNCHANGED <<cursor, log, pump, kick, canceller>>
      BY <1>0, <2>1 DEF ContinueLaunches, rows, slots, kicks, TypeOK
    <3>2. active'[t] = (active[t] \/ sender = t)
      BY <1>0, <3>1 DEF Set
    <3> QED
      BY <1>0, <3>1, <3>2 DEF Returning
  <2>2. CASE CancelFinishes
    <3>1. /\ t \in live /\ canceller.task # t
          /\ UNCHANGED <<cursor, log, active, pump, kick, sender>>
      BY <2>2 DEF CancelFinishes, FreeSlot, database, rows, kicks, pumps, backend
    <3> QED
      BY <1>0, <3>1 DEF Returning
  <2>3. CASE CancelDrained \/ CancelReturns
    <3>1. /\ live' = live /\ canceller.at # "finish"
          /\ UNCHANGED <<cursor, log, active, pump, kick, sender>>
      BY <2>3 DEF CancelDrained, CancelReturns, rows, slots, kicks, pumps, backend
    <3> QED
      BY <1>0, <3>1 DEF Returning
  <2> QED
    BY <1>3, <2>1, <2>2, <2>3 DEF Caller
<1> QED
  BY <1>1, <1>2, <1>3, StepKinds, SlotsInKick, SlotsInPump, SlotsInCalls

\* Only a start and a call that goes on take a slot.
LEMMA LiveFrom ==
    ASSUME Next, ~Restart, ~Start, ~StartFails, NEW t \in Tasks, t \in live', t \notin live
    PROVE  Continue(t) \/ ContinueWaits(t)
<1>1. CASE Walk \/ Kick \/ Caller \/ WriterStores
  BY <1>1 DEF Walk, Kick, KickEnds, KickSkips, KickBegins, KickFlushed, KickReads, FailedEarly,
       FailedFinishes, FailedReturns, FreeSlot, Caller, ContinueLaunches, CancelFinishes,
       CancelDrained, CancelReturns, WriterStores, slots
<1>2. ASSUME NEW u \in Tasks, Pump(u) \/ Run(u) PROVE FALSE
  BY <1>2 DEF Pump, Run, PumpStarts, PumpReads, PumpFinishes, PumpReturns, PumpEnds, RunSays,
       RunEnds, FreeSlot, slots
<1>3. ASSUME NEW u \in Tasks, People(u) PROVE Continue(t) \/ ContinueWaits(t)
  BY <1>3 DEF People, Dispatch, Refused, GiveBack, Continue, ContinueWaits, CancelUnstarted,
       Cancel, slots
<1> QED
  BY <1>1, <1>2, <1>3, StepKinds

\* No call reaches the backend for a task whose start is failing.
LEMMA FailingIsNotCalled ==
    ASSUME QueueInv, NEW t \in Tasks, Failing(t)
    PROVE  /\ ~known[t] /\ ~Ran(t) /\ ~Dispatch(t) /\ ~Continue(t) /\ ~ContinueWaits(t)
           /\ ~Cancel(t)
<1>1. ~known[t] /\ NeverRan(t) /\ t \in Range(created)
  BY DEF QueueInv, Queue, Unheard, RowsExist, Failing
<1>2. ~Ran(t)
  BY <1>1 DEF Ran, NeverRan
<1>3. row[t] # Absent
  BY <1>1 DEF QueueInv, TypeOK, Absent
<1>4. ~MaySend(t) /\ ~(MayCancel(t) /\ (stored[t].state = "queued" => known[t]))
  BY <1>2, WhoMayGoOn
<1> QED
  BY <1>1, <1>2, <1>3, <1>4 DEF Dispatch, Continue, ContinueWaits, Cancel

LEMMA FailedOnceHolds ==
    ASSUME QueueInv, TypeOK', Next
    PROVE  FailedOnce'
<1>0. /\ TypeOK /\ Queue /\ FailedOnce /\ cursor \in [Tasks -> Nat]
      /\ canceller.at # "idle" => canceller.task \in Tasks
      /\ kick.at \in {"error", "finish", "drain"} => kick.task \in Tasks
  BY DEF QueueInv, TypeOK
<1>1. CASE Restart
  BY <1>1 DEF Restart, IdleKick, FailedOnce
<1>2. CASE (Walk \/ Kick) /\ ~Restart
  <2>1. CASE StartFails
    <3> PICK u \in Tasks \ launched :
          /\ Handle(u, Error, cursor[u] + 1)
          /\ kick' = [Past(u) EXCEPT !.at = "error", !.task = u, !.seq = cursor[u] + 2]
      BY <2>1 DEF StartFails
    <3>1. kick'.task = u /\ kick'.seq = cursor[u] + 2
      BY <1>0, KickFields
    <3>2. cursor'[u] = cursor[u] + 1 /\ cursor[u] \in Nat
      BY <1>0 DEF Handle, Set
    <3> QED
      BY <3>1, <3>2 DEF FailedOnce
  <2>2. CASE ~StartFails
    <3>1. kick'.at # "error"
      <4>1. CASE Start \/ KickSkips
        <5>1. kick.at = "walk" /\ \E u : kick' = Past(u)
          BY <4>1 DEF Start, KickSkips, Walking
        <5> QED
          BY <1>0, <5>1, KickFields
      <4>2. CASE KickEnds
        BY <4>2 DEF KickEnds, IdleKick
      <4>3. CASE KickBegins \/ KickFlushed \/ KickReads
        BY <1>0, <4>3, KickFields DEF KickBegins, KickFlushed, KickReads
      <4>4. CASE FailedEarly \/ FailedFinishes \/ FailedReturns
        BY <1>0, <4>4, KickFields DEF FailedEarly, FailedFinishes, FailedReturns
      <4> QED
        BY <1>2, <2>2, <4>1, <4>2, <4>3, <4>4 DEF Walk, Kick
    <3> QED
      BY <3>1 DEF FailedOnce
  <2> QED
    BY <2>1, <2>2
<1>3. CASE ~(Walk \/ Kick) /\ ~Restart
  <2>1. kick' = kick
    <3>1. CASE Caller \/ WriterStores
      BY <3>1 DEF Caller, ContinueLaunches, CancelFinishes, CancelDrained, CancelReturns,
           WriterStores, kicks
    <3>2. ASSUME NEW u \in Tasks, Pump(u) \/ Run(u) PROVE kick' = kick
      BY <3>2 DEF Pump, Run, PumpStarts, PumpReads, PumpFinishes, PumpReturns, PumpEnds,
           RunSays, RunEnds, kicks
    <3>3. ASSUME NEW u \in Tasks, People(u) PROVE kick' = kick
      BY <3>3 DEF People, Dispatch, Refused, Continue, ContinueWaits, CancelUnstarted, Cancel,
           kicks
    <3> QED
      BY <1>3, <3>1, <3>2, <3>3, StepKinds
  <2> DEFINE k == kick.task
  <2> SUFFICES ASSUME kick.at = "error", k \in live', kick.seq <= cursor'[k]
               PROVE  canceller'.at = "finish" /\ canceller'.task = k
    BY <2>1 DEF FailedOnce
  <2>2. k \in Tasks /\ Failing(k) /\ k \in launched
    BY <1>0 DEF Failing, Queue
  <2> HIDE DEF k
  <2>3. /\ ~known[k] /\ ~Ran(k) /\ ~Dispatch(k) /\ ~Continue(k) /\ ~ContinueWaits(k)
        /\ ~Cancel(k)
    BY <2>2, FailingIsNotCalled
  <2>4. ~Start /\ ~StartFails /\ ~FailedEarly
    BY <1>3 DEF Walk, Kick
  <2>5. k \in live
    BY <1>3, <2>2, <2>3, <2>4, LiveFrom
  <2>6. CASE CancelUnstarted(k)
    BY <2>6 DEF CancelUnstarted
  <2>7. CASE ~CancelUnstarted(k)
    <3>1. ~known'[k]
      BY <1>3, <2>2, <2>3, <2>4, KnownFrom DEF QueueInv, TypeOK
    <3>2. cursor'[k] = cursor[k]
      BY <1>3, <2>2, <2>3, <2>4, <2>7, <3>1, CursorFrom
    <3>3. canceller.at = "finish" /\ canceller.task = k
      BY <1>0, <2>5, <3>2 DEF FailedOnce, k
    <3>4. canceller' = canceller
      <4>1. CASE Caller
        <5>1. ~CancelFinishes
          BY <3>3 DEF CancelFinishes, FreeSlot
        <5> QED
          BY <3>3, <4>1, <5>1 DEF Caller, ContinueLaunches, CancelDrained, CancelReturns
      <4>2. CASE WriterStores
        BY <4>2 DEF WriterStores, callers
      <4>3. ASSUME NEW u \in Tasks, Pump(u) \/ Run(u) PROVE canceller' = canceller
        BY <4>3 DEF Pump, Run, PumpStarts, PumpReads, PumpFinishes, PumpReturns, PumpEnds,
             RunSays, RunEnds, callers
      <4>4. ASSUME NEW u \in Tasks, People(u) PROVE canceller' = canceller
        <5>1. canceller # IdleCancel
          BY <3>3 DEF IdleCancel
        <5> QED
          BY <4>4, <5>1 DEF People, Dispatch, Refused, Continue, ContinueWaits,
               CancelUnstarted, Cancel, MayCancel, callers
      <4> QED
        BY <1>3, <4>1, <4>2, <4>3, <4>4, StepKinds
    <3> QED
      BY <3>3, <3>4
  <2> QED
    BY <2>6, <2>7
<1> QED
  BY <1>1, <1>2, <1>3

-----------------------------------------------------------------------------
(* How many slots there are *)

LEMMA FiniteLive ==
    ASSUME QueueInv, Next
    PROVE  IsFiniteSet(live')
<1>1. IsFiniteSet(live)
  BY DEF QueueInv
<1>2. PICK t : live' \subseteq live \cup {t}
  <2>1. CASE Walk \/ Kick \/ Caller \/ WriterStores \/ Restart
    BY <2>1 DEF Walk, Kick, KickEnds, KickSkips, Start, StartFails, Enlist, KickBegins,
         KickFlushed, KickReads, FailedEarly, FailedFinishes, FailedReturns, FreeSlot, Caller,
         ContinueLaunches, CancelFinishes, CancelDrained, CancelReturns, WriterStores, slots,
         Restart
  <2>2. ASSUME NEW u \in Tasks, Pump(u) \/ Run(u) \/ People(u)
        PROVE  \E t : live' \subseteq live \cup {t}
    <3>1. live' \subseteq live \cup {u}
      BY <2>2 DEF Pump, Run, PumpStarts, PumpReads, PumpFinishes, PumpReturns, PumpEnds,
           RunSays, RunEnds, FreeSlot, slots, People, Dispatch, Refused, GiveBack, Continue,
           ContinueWaits, CancelUnstarted, Cancel
    <3> QED
      BY <3>1
  <2> QED
    BY <2>1, <2>2, StepKinds
<1>3. IsFiniteSet(live \cup {t})
  BY <1>1, FS_AddElement
<1> QED
  BY <1>2, <1>3, FS_Subset

\* The steps that leave Undisturbed true.
LEMMA NobodyCalls ==
    ASSUME QueueInv, Next, ~Restart, Undisturbed'
    PROVE  /\ Undisturbed /\ ~Caller
           /\ \A t \in Tasks : ~Refused(t) /\ ~Continue(t) /\ ~ContinueWaits(t)
                               /\ ~CancelUnstarted(t) /\ ~Cancel(t)
<1>0. CallTypes /\ Quiet
  BY AllTypes DEF QueueInv, Types
<1>1. "resume" \in Calls /\ "cancel" \in Calls /\ "dispatch" \in Calls
  BY DEF Calls
<1>2. ~Count("resume") /\ ~Count("cancel")
  <2>1. ~(calls'.spent["resume"] > 0) /\ ~(calls'.spent["cancel"] > 0)
    BY DEF Undisturbed
  <2> QED
    BY <1>0, <1>1, <2>1, Counted
<1>3. \A t \in Tasks : ~Refused(t) /\ ~Continue(t) /\ ~ContinueWaits(t)
                       /\ ~CancelUnstarted(t) /\ ~Cancel(t)
  BY <1>2 DEF Refused, Continue, ContinueWaits, CancelUnstarted, Cancel, MayCancel
<1>4. Undisturbed
  <2>1. CASE \E t \in Tasks : Dispatch(t)
    <3>1. Count("dispatch")
      BY <2>1 DEF Dispatch
    <3>2. \A c \in Calls \ {"dispatch"} : calls'.spent[c] = calls.spent[c]
      BY <1>0, <1>1, <3>1, Counted
    <3> QED
      BY <1>1, <3>2 DEF Undisturbed
  <2>2. CASE ~\E t \in Tasks : Dispatch(t)
    <3>1. CASE Walk \/ Kick \/ Caller \/ WriterStores
      BY <3>1 DEF Walk, Kick, KickEnds, KickSkips, Start, StartFails, KickBegins, KickFlushed,
           KickReads, FailedEarly, FailedFinishes, FailedReturns, Caller, ContinueLaunches,
           CancelFinishes, CancelDrained, CancelReturns, WriterStores, Undisturbed
    <3>2. ASSUME NEW u \in Tasks, Pump(u) \/ Run(u) PROVE Undisturbed
      BY <3>2 DEF Pump, Run, PumpStarts, PumpReads, PumpFinishes, PumpReturns, PumpEnds,
           RunSays, RunEnds, Undisturbed
    <3> QED
      BY <1>3, <2>2, <3>1, <3>2, StepKinds DEF People
  <2> QED
    BY <2>1, <2>2
<1>5. ~Caller
  <2>1. canceller = IdleCancel /\ sender = Nobody
    BY <1>0, <1>4 DEF Quiet
  <2> QED
    BY <2>1 DEF Caller, ContinueLaunches, CancelFinishes, CancelDrained, CancelReturns,
         IdleCancel
<1> QED
  BY <1>3, <1>4, <1>5

LEMMA WithinLimit ==
    ASSUME QueueInv, Next, ~Restart, Undisturbed'
    PROVE  Cardinality(live') <= Limit
<1>0. /\ Undisturbed /\ ~Caller
      /\ \A t \in Tasks : ~Refused(t) /\ ~Continue(t) /\ ~ContinueWaits(t)
                          /\ ~CancelUnstarted(t) /\ ~Cancel(t)
  BY NobodyCalls
<1>1. /\ IsFiniteSet(live) /\ Cardinality(live) <= Limit /\ Cardinality(live) \in Nat
      /\ Limit \in Nat
  BY <1>0, LimitAssumption, FS_CardinalityType DEF QueueInv, Quiet
<1>2. CASE Start \/ StartFails
  <2> PICK t : live' = live \cup {t}
    BY <1>2 DEF Start, StartFails, Enlist
  <2>1. Cardinality(live) < Limit
    BY <1>2 DEF Start, StartFails, Walking
  <2>2. Cardinality(live') <= Cardinality(live) + 1 /\ Cardinality(live') \in Nat
    <3>1. IsFiniteSet(live')
      BY <1>1, FS_AddElement
    <3> QED
      BY <1>1, <3>1, FS_AddElement, FS_CardinalityType
  <2> QED
    BY <1>1, <2>1, <2>2
<1>3. CASE ~Start /\ ~StartFails
  <2>1. live' \subseteq live
    <3>1. live' \subseteq Tasks
      BY TypesHold DEF TypeOK
    <3> QED
      BY <1>0, <1>3, <3>1, LiveFrom
  <2>2. Cardinality(live') <= Cardinality(live) /\ IsFiniteSet(live')
    BY <1>1, <2>1, FS_Subset
  <2> QED
    BY <1>1, <2>2, FS_CardinalityType
<1> QED
  BY <1>2, <1>3

NoResult(l) == \A i \in DOMAIN l : l[i].type # "result"

LEMMA FirstRunStays ==
    ASSUME QueueInv, Next, ~Restart, Undisturbed', NEW t \in Tasks, active'[t]
    PROVE  FirstRun(t)'
<1>0. /\ TypeOK /\ Quiet /\ Queue /\ Unheard /\ LogsSpeak /\ Pumped
      /\ log \in [Tasks -> Seq(Event)] /\ active \in [Tasks -> BOOLEAN]
      /\ known \in [Tasks -> BOOLEAN] /\ known[t] \in BOOLEAN
      /\ pump \in [Tasks -> [at : {"none", "reading", "finish", "drain"}, pos : Nat]]
      /\ log[t] \in Seq(Event) /\ DOMAIN log[t] = 1 .. Len(log[t]) /\ Len(log[t]) \in Nat
  <2>1. log[t] \in Seq(Event)
    BY DEF QueueInv, TypeOK
  <2>2. DOMAIN log[t] = 1 .. Len(log[t]) /\ Len(log[t]) \in Nat
    BY <2>1
  <2> QED
    BY <2>1, <2>2 DEF QueueInv, TypeOK
<1>1. /\ Undisturbed /\ ~Caller
      /\ \A u \in Tasks : ~Refused(u) /\ ~Continue(u) /\ ~ContinueWaits(u)
                          /\ ~CancelUnstarted(u) /\ ~Cancel(u)
  BY NobodyCalls
<1>2. active[t] => t \in live /\ known[t] /\ pump[t].at # "finish" /\ NoResult(log[t])
  BY <1>0, <1>1 DEF Quiet, FirstRun, NoResult
<1> SUFFICES /\ t \in live' /\ known'[t] /\ pump'[t].at # "finish"
             /\ NoResult(log'[t])
  BY DEF FirstRun, NoResult
<1>3. CASE Start
  <2> PICK u \in Tasks \ launched :
        /\ ~known[u] /\ live' = live \cup {u}
        /\ known' = Set(known, u, TRUE) /\ active' = Set(active, u, TRUE)
        /\ log' = Set(log, u, <<Status("queued")>>)
    BY <1>3 DEF Start, Enlist
  <2>1. pump' = pump
    BY <1>3 DEF Start
  <2>2. CASE u = t
    <3>1. t \in live' /\ known'[t] /\ log'[t] = <<Status("queued")>>
      BY <1>0, <2>2 DEF Set
    <3>2. pump'[t].at = "none"
      BY <1>0, <2>1, <2>2 DEF Unheard, IdlePump
    <3>3. NoResult(log'[t])
      BY <3>1 DEF NoResult, Status
    <3> QED
      BY <3>1, <3>2, <3>3
  <2>3. CASE u # t
    <3>1. active'[t] = active[t] /\ known'[t] = known[t] /\ log'[t] = log[t]
      BY <1>0, <2>3 DEF Set
    <3> QED
      BY <1>2, <2>1, <3>1
  <2> QED
    BY <2>2, <2>3
<1>4. CASE FailedFinishes
  <2>1. kick.task # t \/ ~active[t]
    BY <1>0, <1>2, <1>4 DEF FailedFinishes, Failing, Queue
  <2> QED
    BY <1>2, <1>4, <2>1 DEF FailedFinishes, FreeSlot, backend, pumps
<1>5. CASE (Walk \/ Kick \/ WriterStores) /\ ~Start /\ ~FailedFinishes
  <2>1. live \subseteq live' /\ UNCHANGED <<known, active, log, pump>>
    BY <1>5 DEF Walk, Kick, KickEnds, KickSkips, StartFails, Enlist, KickBegins, KickFlushed,
         KickReads, FailedEarly, FailedReturns, WriterStores, slots, pumps, backend
  <2> QED
    BY <1>2, <2>1
<1>6. ASSUME NEW u \in Tasks, Pump(u)
      PROVE  t \in live' /\ known'[t] /\ pump'[t].at # "finish" /\ NoResult(log'[t])
  <2>1. CASE PumpReads(u)
    <3>1. UNCHANGED <<active, known, live>>
      BY <2>1 DEF PumpReads, slots
    <3>2. CASE u = t
      <4>1. /\ cursor[t] < Len(log[t]) /\ Len(log'[t]) = Len(log[t])
            /\ log'[t] \in Seq(Event)
            /\ \A i \in 1 .. Len(log[t]) : log'[t][i].type = log[t][i].type
            /\ pump'[t].at = IF log[t][cursor[t] + 1].type = "result" THEN "finish"
                             ELSE "reading"
        BY <2>1, <3>2, ReadOne
      <4>2. cursor[t] + 1 \in 1 .. Len(log[t])
        <5>1. cursor[t] \in Nat
          BY <1>0 DEF TypeOK
        <5> QED
          BY <1>0, <4>1, <5>1
      <4>3. log[t][cursor[t] + 1].type # "result"
        BY <1>0, <1>2, <3>1, <4>2 DEF NoResult
      <4>4. NoResult(log'[t])
        <5>1. DOMAIN log'[t] = 1 .. Len(log[t])
          BY <4>1
        <5> QED
          BY <1>0, <1>2, <3>1, <4>1, <5>1 DEF NoResult
      <4> QED
        BY <1>2, <3>1, <4>1, <4>3, <4>4
    <3>3. CASE u # t
      <4>1. /\ \E p : pump' = Set(pump, u, p)
            /\ \E n, m : log' = [log EXCEPT ![u][n] = m]
        BY <2>1 DEF PumpReads
      <4>2. pump'[t] = pump[t] /\ log'[t] = log[t]
        BY <1>0, <3>3, <4>1 DEF Set
      <4> QED
        BY <1>2, <3>1, <4>2
    <3> QED
      BY <3>2, <3>3
  <2>2. CASE PumpFinishes(u)
    <3>1. /\ live' = live \ {u} /\ pump[u].at = "finish"
          /\ pump' = [pump EXCEPT ![u].at = "drain"] /\ UNCHANGED <<known, active, log>>
      BY <2>2 DEF PumpFinishes, FreeSlot, backend
    <3>2. u # t
      BY <1>2, <3>1
    <3>3. pump'[t] = pump[t]
      BY <1>0, <3>1, <3>2
    <3> QED
      BY <1>2, <3>1, <3>2, <3>3
  <2>3. CASE PumpStarts(u) \/ PumpReturns(u) \/ PumpEnds(u)
    <3>1. /\ UNCHANGED <<live, known, active, log>>
          /\ \E p : pump' = Set(pump, u, p) /\ p.at # "finish"
      BY <2>3 DEF PumpStarts, PumpReturns, PumpEnds, IdlePump, slots, backend
    <3>2. pump'[t].at # "finish"
      BY <1>0, <1>2, <3>1 DEF Set
    <3> QED
      BY <1>2, <3>1, <3>2
  <2> QED
    BY <1>6, <2>1, <2>2, <2>3 DEF Pump
<1>7. ASSUME NEW u \in Tasks, Run(u)
      PROVE  t \in live' /\ known'[t] /\ pump'[t].at # "finish" /\ NoResult(log'[t])
  <2>1. PICK e \in Event :
          /\ log' = Set(log, u, Append(log[u], e))
          /\ \/ e.type = "status" /\ active' = active
             \/ active' = Set(active, u, FALSE)
          /\ UNCHANGED <<pump, known>>
    BY <1>0, <1>7, Added
  <2>2. live' = live
    BY <1>7 DEF Run, RunSays, RunEnds, slots
  <2>3. CASE u = t
    <3>1. e.type = "status" /\ active' = active /\ log'[t] = Append(log[t], e)
      BY <1>0, <2>1, <2>3 DEF Set
    <3>2. NoResult(log'[t])
      <4>1. DOMAIN log'[t] = 1 .. Len(log[t]) + 1
        BY <1>0, <3>1
      <4>2. \A i \in 1 .. Len(log[t]) + 1 : log'[t][i] = IF i = Len(log[t]) + 1 THEN e
                                                         ELSE log[t][i]
        BY <1>0, <3>1
      <4> QED
        BY <1>0, <1>2, <3>1, <4>1, <4>2 DEF NoResult
    <3> QED
      BY <1>2, <2>1, <2>2, <3>1, <3>2
  <2>4. CASE u # t
    <3>1. active'[t] = active[t] /\ log'[t] = log[t]
      BY <1>0, <2>1, <2>4 DEF Set
    <3> QED
      BY <1>2, <2>1, <2>2, <3>1
  <2> QED
    BY <2>3, <2>4
<1>8. ASSUME NEW u \in Tasks, Dispatch(u)
      PROVE  t \in live' /\ known'[t] /\ pump'[t].at # "finish" /\ NoResult(log'[t])
  BY <1>2, <1>8 DEF Dispatch, slots, pumps, backend
<1> QED
  BY <1>1, <1>3, <1>4, <1>5, <1>6, <1>7, <1>8, StepKinds DEF People

LEMMA QuietHolds ==
    ASSUME QueueInv, TypeOK', Next
    PROVE  Quiet'
<1> SUFFICES ASSUME Undisturbed'
             PROVE  /\ canceller' = IdleCancel /\ sender' = Nobody
                    /\ Cardinality(live') <= Limit
                    /\ \A t \in Tasks : active'[t] => FirstRun(t)'
  BY DEF Quiet
<1>1. CASE Restart
  <2>1. /\ canceller' = IdleCancel /\ sender' = Nobody /\ live' = {}
        /\ \A t \in Tasks : ~active'[t]
    BY <1>1 DEF Restart
  <2>2. Cardinality(live') <= Limit
    BY <2>1, FS_EmptySet, LimitAssumption
  <2> QED
    BY <2>1, <2>2
<1>2. CASE ~Restart
  <2>1. /\ Undisturbed /\ ~Caller
        /\ \A t \in Tasks : ~Refused(t) /\ ~Continue(t) /\ ~ContinueWaits(t)
                            /\ ~CancelUnstarted(t) /\ ~Cancel(t)
    BY <1>2, NobodyCalls
  <2>2. canceller = IdleCancel /\ sender = Nobody
    BY <2>1 DEF QueueInv, Quiet
  <2>3. UNCHANGED callers
    <3>1. CASE Walk \/ Kick \/ WriterStores
      BY <3>1 DEF Walk, Kick, KickEnds, KickSkips, Start, StartFails, KickBegins, KickFlushed,
           KickReads, FailedEarly, FailedFinishes, FailedReturns, WriterStores
    <3>2. ASSUME NEW u \in Tasks, Pump(u) \/ Run(u) \/ Dispatch(u) PROVE UNCHANGED callers
      BY <3>2 DEF Pump, Run, PumpStarts, PumpReads, PumpFinishes, PumpReturns, PumpEnds,
           RunSays, RunEnds, Dispatch
    <3> QED
      BY <1>2, <2>1, <3>1, <3>2, StepKinds DEF People
  <2> QED
    BY <1>2, <2>2, <2>3, WithinLimit, FirstRunStays DEF callers
<1> QED
  BY <1>1, <1>2

-----------------------------------------------------------------------------
(* The invariant and what follows from it *)

LEMMA TypesAtFirst ==
    ASSUME Init
    PROVE  TypeOK
<1>1. created = <<>> /\ Range(created) = {}
  BY DEF Init, Range
<1>2. Absent \in TaskRow /\ Absent.state = "absent"
  BY DEF Absent, TaskRow, States
<1>3. [t \in Tasks |-> Absent] \in [Tasks -> TaskRow]
  <2> HIDE DEF Absent, TaskRow
  <2> QED
    BY <1>2
<1>4. DataTypes
  <2>1. RowsAbsent
    BY <1>1, <1>2 DEF Init, RowsAbsent
  <2> QED
    BY <1>1, <1>3, <2>1 DEF Init, DataTypes, Updates
<1>5. KickTypes /\ PumpTypes /\ CallerTypes /\ SlotTypes
  BY DEF Init, KickTypes, KickPlaces, IdleKick, PumpTypes, IdlePump, CallerTypes, IdleCancel,
     SlotTypes
<1>6. BackendTypes
  BY DEF Init, BackendTypes
<1>7. CallTypes
  BY DEF Init, CallTypes
<1> QED
  BY <1>4, <1>5, <1>6, <1>7, AllTypes DEF Types

LEMMA InvAtFirst ==
    ASSUME Init
    PROVE  QueueInv
<1>1. TypeOK /\ live = {} /\ IsFiniteSet(live) /\ Cardinality(live) = 0
  BY TypesAtFirst, FS_EmptySet DEF Init
<1>2. /\ created = <<>> /\ Range(created) = {} /\ writes = <<>> /\ DOMAIN writes = {}
      /\ launched = {} /\ kick = IdleKick /\ canceller = IdleCancel /\ sender = Nobody
      /\ \A t \in Tasks :
            /\ stored[t] = Absent /\ row[t] = Absent /\ cursor[t] = 0 /\ log[t] = <<>>
            /\ pump[t] = IdlePump /\ waiting[t] = 0 /\ ~known[t] /\ ~active[t]
  BY DEF Init, Range
<1>3. RowsExist
  BY <1>2 DEF RowsExist, Failing, IdleKick, Absent
<1>4. LogsSpeak
  <2>1. \A t \in Tasks : DOMAIN log[t] = {}
    BY <1>2
  <2> QED
    BY <2>1 DEF LogsSpeak
<1>5. Unheard
  BY <1>2, NobodyAssumption DEF Unheard, Promised, Waits, IdleKick, IdleCancel, Absent
<1>6. Queue
  BY <1>2 DEF Queue, Waits, Failing, IdleKick, Absent
<1>7. Pumped
  <2>1. \A t \in Tasks : ~(cursor[t] < Len(log[t])) /\ pump[t].at = "none"
    BY <1>2 DEF IdlePump
  <2> QED
    BY <1>2, <2>1 DEF Pumped
<1>8. EnoughReaders
  <2> SUFFICES ASSUME NEW t \in Tasks PROVE Needed(t) <= Readers(t)
    BY DEF EnoughReaders
  <2>1. Len(log[t]) <= cursor[t] /\ cursor[t] \in Nat /\ log[t] \in Seq(Event)
    <3>1. log[t] = <<>> /\ cursor[t] = 0
      BY <1>2
    <3>2. Len(log[t]) = 0
      BY <3>1
    <3> QED
      BY <1>1, <3>1, <3>2, TaskTyped
  <2>2. Cardinality(Ahead(log[t], cursor[t])) = 0
    BY <2>1, NothingAhead
  <2>3. Needed(t) = 0
    BY <1>2, <2>2 DEF Needed, One
  <2> QED
    BY <1>1, <2>3, Numbers
<1>9. SlotsReturned /\ FailedOnce
  BY <1>1, <1>2 DEF SlotsReturned, FailedOnce
<1>10. Quiet
  BY <1>1, <1>2, LimitAssumption DEF Quiet
<1> QED
  BY <1>1, <1>3, <1>4, <1>5, <1>6, <1>7, <1>8, <1>9, <1>10 DEF QueueInv

LEMMA InvKept ==
    ASSUME QueueInv, [Next]_vars
    PROVE  QueueInv'
<1>1. TypeOK'
  BY TypesHold
<1>2. CASE Next
  <2>1. Unheard'
    BY <1>1, <1>2, UnheardHolds
  <2> QED
    BY <1>1, <1>2, <2>1, FiniteLive, RowsExistHolds, LogsSpeakHolds, QueueHolds, PumpedHolds,
       EnoughReadersHolds, SlotsHold, FailedOnceHolds, QuietHolds DEF QueueInv
<1>3. CASE UNCHANGED vars
  <2>1. /\ UNCHANGED <<created, stored, writes, row, cursor, live, launched, kick, kickWanted>>
        /\ UNCHANGED <<pump, waiting, sender, canceller, known, active, closed, resumable, log>>
        /\ UNCHANGED calls
    BY <1>3 DEF vars, database, rows, slots, kicks, pumps, callers, backend
  <2>2. RowsExist'
    BY <2>1 DEF QueueInv, RowsExist, Failing
  <2>3. LogsSpeak'
    BY <2>1 DEF QueueInv, LogsSpeak
  <2>4. Unheard'
    BY <2>1 DEF QueueInv, Unheard, Promised, NeverRan, Waits
  <2>5. Queue'
    BY <2>1 DEF QueueInv, Queue, Waits, InQueue, Withdrawn, Failing
  <2>6. Pumped'
    BY <2>1 DEF QueueInv, Pumped
  <2>7. EnoughReaders'
    BY <2>1 DEF QueueInv, EnoughReaders, Needed, Readers, Promised
  <2>8. SlotsReturned' /\ FailedOnce'
    BY <2>1 DEF QueueInv, SlotsReturned, FailedOnce
  <2>9. Quiet'
    BY <2>1 DEF QueueInv, Quiet, Undisturbed, FirstRun
  <2>10. IsFiniteSet(live)'
    BY <2>1 DEF QueueInv
  <2> QED
    BY <1>1, <2>2, <2>3, <2>4, <2>5, <2>6, <2>7, <2>8, <2>9, <2>10 DEF QueueInv
<1> QED
  BY <1>2, <1>3

LEMMA Accounted ==
    ASSUME QueueInv
    PROVE  SlotsAccounted
<1>1. LimitKept
  <2> SUFFICES ASSUME Undisturbed PROVE Cardinality({t \in Tasks : active[t]}) <= Limit
    BY DEF LimitKept, Undisturbed
  <2>1. {t \in Tasks : active[t]} \subseteq live
    BY DEF QueueInv, Quiet, FirstRun
  <2>2. IsFiniteSet(live) /\ Cardinality(live) <= Limit
    BY DEF QueueInv, Quiet
  <2>3. /\ IsFiniteSet({t \in Tasks : active[t]})
        /\ Cardinality({t \in Tasks : active[t]}) <= Cardinality(live)
    BY <2>1, <2>2, FS_Subset
  <2> QED
    BY <2>2, <2>3, FS_CardinalityType, LimitAssumption
<1> QED
  BY <1>1 DEF QueueInv, SlotsAccounted

LEMMA Watched ==
    ASSUME QueueInv
    PROVE  RunsAreWatched
<1> SUFFICES ASSUME NEW t \in Tasks, active[t] \/ cursor[t] < Len(log[t]),
                    pump[t].at # "reading", ~Promised(t)
             PROVE  waiting[t] > 0
  BY DEF RunsAreWatched, Promised
<1>0. /\ TypeOK /\ Pumped /\ EnoughAt(t) /\ cursor[t] \in Nat /\ log[t] \in Seq(Event)
      /\ waiting[t] \in Nat /\ Cardinality(Ahead(log[t], cursor[t])) \in Nat
  BY TaskTyped DEF QueueInv, EnoughReaders, EnoughAt
<1>1. Needed(t) >= 1 /\ Needed(t) \in Nat
  <2>1. CASE active[t]
    BY <1>0, <2>1 DEF Needed, One
  <2>2. CASE ~active[t]
    <3>1. Cardinality(Ahead(log[t], cursor[t])) >= 1
      BY <1>0, <2>2, ResultAhead DEF Pumped
    <3> QED
      BY <1>0, <2>2, <3>1 DEF Needed, One
  <2> QED
    BY <2>1, <2>2
<1>2. Readers(t) = waiting[t]
  BY <1>0 DEF Readers, One
<1> QED
  BY <1>0, <1>1, <1>2 DEF EnoughAt

LEMMA QueueInvariant == Spec => []QueueInv
<1>1. Init => QueueInv
  BY InvAtFirst
<1>2. QueueInv /\ [Next]_vars => QueueInv'
  BY InvKept
<1> QED
  BY <1>1, <1>2, PTL DEF Spec

(* Over failed starts, refused resumes, cancels in the queue and beside a     *)
(* run, and restarts, no slot in TaskManager._live stays behind; and while    *)
(* nobody resumes or cancels no more tasks run than agents.max_concurrent.    *)
THEOREM NoSlotLeaks == Spec => []SlotsAccounted
<1>1. QueueInv => SlotsAccounted
  BY Accounted
<1> QED
  BY <1>1, QueueInvariant, PTL

(* Whatever a backend says of a task is read: _ensure_pump is called often    *)
(* enough for every result that ends a pump, however many runs, resumes and   *)
(* cancels a task has had.                                                    *)
THEOREM NoRunGoesUnread == Spec => []RunsAreWatched
<1>1. QueueInv => RunsAreWatched
  BY Watched
<1> QED
  BY <1>1, QueueInvariant, PTL
=============================================================================

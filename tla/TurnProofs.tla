----------------------------- MODULE TurnProofs -----------------------------
(***************************************************************************)
(* What is proved of a turn and of the message that asks for it.           *)
(*                                                                         *)
(* Of GatewayTurn, for any threads, turns, attempts, permits, losses and   *)
(* restarts: no turn runs twice on the gateway, no more calls are out than *)
(* there are permits, and the stop button ends the run its own thread      *)
(* waits on.                                                               *)
(*                                                                         *)
(* Of SendAck, for any messages, sockets, retries and faults: what the     *)
(* person sent is not lost and is not answered twice.                      *)
(***************************************************************************)
EXTENDS GatewayTurn, SendAck, FiniteSetTheorems, SequenceTheorems, TLAPS

(* A run that was sent and not refused: it may yet run, runs or ran.        *)
Alive(run) == gw[run] \in {"asked", "running", "done"}

(* OneRunPerTurn is not inductive: what keeps a turn from running twice is  *)
(* that another attempt follows a refusal only, when no attempt is alive.   *)
Once ==
    \A a, b \in RunIds :
        a.thread = b.thread /\ a.turn = b.turn /\ Alive(a) /\ Alive(b) => a = b

MayTry ==
    \A t \in Threads :
        stage[t] \in {"wanting", "resting"} =>
            /\ tries[t] < MaxTries
            /\ \A run \in RunIds : run.thread = t /\ run.turn = holder[t] => ~Alive(run)

(* A turn in hand has the lock, and an attempt out has a number.            *)
Held ==
    \A t \in Threads :
        /\ stage[t] = "none" <=> holder[t] = 0
        /\ stage[t] \in {"sent", "accepted", "lost"} => tries[t] # 0

(* A turn that waits has never been tried, and is asked for once.           *)
Queued ==
    \A t \in Threads :
        /\ \A i \in 1 .. Len(waiting[t]) :
              /\ waiting[t][i] <= asked
              /\ waiting[t][i] # holder[t]
              /\ \A run \in RunIds :
                    run.thread = t /\ run.turn = waiting[t][i] => gw[run] = "unasked"
        /\ \A i, j \in 1 .. Len(waiting[t]) : waiting[t][i] = waiting[t][j] => i = j

NotYet ==
    /\ \A t \in Threads : holder[t] <= asked
    /\ \A run \in RunIds : run.turn > asked => gw[run] = "unasked"

(* A receipt means that the gateway has the run.                            *)
Taken == \A t \in Threads : stage[t] = "accepted" => gw[Current(t)] \in {"running", "done"}

(* A thread whose entries are certain has none but that of its call.        *)
Sure ==
    \A t \in Threads :
        t \notin uncertain =>
            \A run \in inflight :
                run.thread = t =>
                    /\ stage[t] \in {"sent", "accepted", "lost"}
                    /\ run = Current(t)

Callers == {t \in Threads : Calling(t)}

Slots == IsFiniteSet(Callers) /\ Cardinality(Callers) <= Permits

TurnInv ==
    /\ TypeOK
    /\ Slots /\ Held /\ Queued /\ NotYet
    /\ MayTry /\ Once /\ Taken /\ Sure

-----------------------------------------------------------------------------
(* Helpers *)

LEMMA RunIdParts ==
    ASSUME NEW run \in RunIds
    PROVE  run.thread \in Threads /\ run.turn \in 1..MaxTurns /\ run.try \in 1..MaxTries
BY DEF RunIds

LEMMA CurrentIsRun ==
    ASSUME TurnInv, NEW t \in Threads, stage[t] \in {"sent", "accepted", "lost"}
    PROVE  Current(t) \in RunIds
BY BoundsAssumption DEF TurnInv, TypeOK, Held, Current, RunIds

LEMMA FewerCallers ==
    ASSUME TurnInv, Callers' \subseteq Callers
    PROVE  Slots'
BY FS_Subset, FS_CardinalityType, BoundsAssumption DEF TurnInv, Slots

LEMMA TurnTypes ==
    ASSUME TurnInv, NEW t \in Threads
    PROVE  /\ asked \in Nat /\ asked <= MaxTurns
           /\ waiting[t] \in Seq(1..MaxTurns) /\ Len(waiting[t]) \in Nat
           /\ \A i \in 1..Len(waiting[t]) : waiting[t][i] \in 1..MaxTurns
           /\ holder[t] \in 0..MaxTurns /\ stage[t] \in Stages /\ tries[t] \in 0..MaxTries
BY BoundsAssumption DEF TurnInv, TypeOK

LEMMA QueueBelow ==
    ASSUME TurnInv, NEW u \in Threads, NEW i \in 1 .. Len(waiting[u]), asked' = asked + 1
    PROVE  waiting[u][i] <= asked' /\ waiting[u][i] # asked + 1
<1>1. waiting[u][i] \in Nat /\ asked \in Nat
  BY TurnTypes
<1>2. waiting[u][i] <= asked
  BY DEF TurnInv, Queued
<1> QED
  BY <1>1, <1>2

(* The lock is taken by the turn that has waited longest.                   *)
LEMMA HeadOfQueue ==
    ASSUME NEW w \in Seq(1..MaxTurns), w # <<>>
    PROVE  /\ Head(w) = w[1] /\ 1 \in 1 .. Len(w) /\ w[1] \in 1..MaxTurns
           /\ Tail(w) \in Seq(1..MaxTurns)
           /\ Len(w) \in Nat /\ Len(Tail(w)) = Len(w) - 1
           /\ \A i \in 1 .. Len(Tail(w)) : Tail(w)[i] = w[i + 1]
<1>1. Head(w) \in 1..MaxTurns /\ Tail(w) \in Seq(1..MaxTurns)
      /\ Len(Tail(w)) = Len(w) - 1
      /\ \A i \in 1 .. Len(Tail(w)) : Tail(w)[i] = w[i + 1]
  BY HeadTailProperties
<1>2. Head(w) = w[1] /\ Len(w) \in Nat /\ 1 \in 1 .. Len(w)
  OBVIOUS
<1> QED
  BY <1>1, <1>2

(* What most steps do to a turn: nothing, it gets its receipt or loses its  *)
(* call, it rests after a refusal, it wakes up, or it is over; and no run   *)
(* comes alive.                                                             *)
Stays(t) == holder'[t] = holder[t] /\ tries'[t] = tries[t]

Settles ==
    /\ UNCHANGED <<asked, waiting>>
    /\ \A t \in Threads :
          \/ stage'[t] = stage[t] /\ Stays(t)
          \/ stage[t] \in {"sent", "accepted"} /\ stage'[t] = "lost" /\ Stays(t)
          \/ /\ stage[t] = "sent" /\ stage'[t] = "accepted" /\ Stays(t)
             /\ gw'[Current(t)] \in {"running", "done"}
          \/ stage[t] = "resting" /\ stage'[t] = "wanting" /\ Stays(t)
          \/ /\ stage[t] # "none" /\ stage'[t] = "resting" /\ holder'[t] = holder[t]
             /\ tries'[t] < MaxTries
             /\ \A run \in RunIds : run.thread = t /\ run.turn = holder[t] => ~Alive(run)'
          \/ stage'[t] = "none" /\ holder'[t] = 0

NoneStarts ==
    \A run \in RunIds :
        /\ gw[run] = "unasked" => gw'[run] = "unasked"
        /\ gw[run] \in {"running", "done"} => gw'[run] \in {"running", "done"}
        /\ Alive(run)' => Alive(run)

LEMMA SettledKeeps ==
    ASSUME TurnInv, Settles, NoneStarts
    PROVE  Slots' /\ Held' /\ Queued' /\ NotYet' /\ MayTry' /\ Once' /\ Taken'
<1> USE DEF TurnInv, Settles, Stays, NoneStarts
<1>1. Slots'
  <2>1. Callers' \subseteq Callers
    BY DEF Callers, Calling
  <2> QED
    BY <2>1, FewerCallers
<1>2. Held'
  BY DEF Held
<1>3. Queued'
  <2> SUFFICES ASSUME NEW t \in Threads
               PROVE  /\ \A i \in 1 .. Len(waiting[t]) :
                            /\ waiting[t][i] <= asked
                            /\ waiting[t][i] # holder'[t]
                            /\ \A run \in RunIds :
                                  run.thread = t /\ run.turn = waiting[t][i] =>
                                      gw'[run] = "unasked"
                      /\ \A i, j \in 1 .. Len(waiting[t]) :
                            waiting[t][i] = waiting[t][j] => i = j
    BY DEF Queued
  <2>1. \A i \in 1 .. Len(waiting[t]) : waiting[t][i] # 0
    BY TurnTypes
  <2>2. holder'[t] = holder[t] \/ holder'[t] = 0
    OBVIOUS
  <2> QED
    BY <2>1, <2>2 DEF Queued
<1>4. NotYet'
  <2>1. \A t \in Threads : holder'[t] = holder[t] \/ holder'[t] = 0
    OBVIOUS
  <2>2. asked \in Nat /\ asked' = asked
    BY DEF TypeOK
  <2> QED
    BY <2>1, <2>2 DEF NotYet
<1>5. MayTry'
  <2> SUFFICES ASSUME NEW t \in Threads, stage'[t] \in {"wanting", "resting"}
               PROVE  /\ tries'[t] < MaxTries
                      /\ \A run \in RunIds :
                            run.thread = t /\ run.turn = holder'[t] => ~Alive(run)'
    BY DEF MayTry
  <2>1. \/ /\ stage[t] \in {"wanting", "resting"} /\ Stays(t)
        \/ /\ holder'[t] = holder[t] /\ tries'[t] < MaxTries
           /\ \A run \in RunIds : run.thread = t /\ run.turn = holder[t] => ~Alive(run)'
    OBVIOUS
  <2> QED
    BY <2>1 DEF MayTry
<1>6. Once'
  BY DEF Once
<1>7. Taken'
  <2> SUFFICES ASSUME NEW t \in Threads, stage'[t] = "accepted"
               PROVE  gw'[Current(t)'] \in {"running", "done"}
    BY DEF Taken
  <2>1. CASE stage[t] = "accepted" /\ Stays(t)
    <3>1. Current(t)' = Current(t)
      BY <2>1 DEF Current
    <3>2. Current(t) \in RunIds
      BY <2>1, CurrentIsRun
    <3> QED
      BY <2>1, <3>1, <3>2 DEF Taken
  <2>2. CASE Stays(t) /\ gw'[Current(t)] \in {"running", "done"}
    BY <2>2 DEF Current
  <2> QED
    BY <2>1, <2>2
<1> QED
  BY <1>1, <1>2, <1>3, <1>4, <1>5, <1>6, <1>7

(* The types of a turn that is over, refused or failed.                     *)
TurnsTyped ==
    /\ /\ asked \in 0..MaxTurns
       /\ waiting \in [Threads -> Seq(1..MaxTurns)]
       /\ holder \in [Threads -> 0..MaxTurns]
    /\ /\ stage \in [Threads -> Stages]
       /\ tries \in [Threads -> 0..MaxTries]
       /\ status \in [Threads -> {"idle", "thinking", "error"}]

LEMMA OverTypes ==
    ASSUME TurnInv, NEW t \in Threads, NEW verdict \in {"idle", "error"}, Over(t, verdict)
    PROVE  TurnsTyped'
<1>1. 0 \in 0..MaxTurns /\ 0 \in 0..MaxTries
  BY BoundsAssumption
<1>2. holder' \in [Threads -> 0..MaxTurns] /\ tries' \in [Threads -> 0..MaxTries]
  BY <1>1 DEF TurnInv, TypeOK, Over
<1>3. /\ stage' \in [Threads -> Stages]
      /\ status' \in [Threads -> {"idle", "thinking", "error"}]
  BY DEF TurnInv, TypeOK, Over, Stages
<1> QED
  BY <1>2, <1>3 DEF TurnsTyped, TurnInv, TypeOK, Over

(* A turn that is over leaves the others where they were.                   *)
LEMMA OverSettles ==
    ASSUME TurnInv, NEW t \in Threads, NEW verdict \in {"idle", "error"}, Over(t, verdict)
    PROVE  Settles
BY DEF TurnInv, TypeOK, Over, Settles, Stays

LEMMA UnchangedSettles ==
    ASSUME TurnInv, UNCHANGED turns
    PROVE  Settles /\ TurnsTyped'
<1>1. Settles
  BY DEF turns, Settles, Stays
<1>2. TurnsTyped'
  BY DEF turns, TurnsTyped, TurnInv, TypeOK
<1> QED
  BY <1>1, <1>2

LEMMA FailsSettles ==
    ASSUME TurnInv, NEW t \in Threads, Fails(t, Current(t))
    PROVE  Settles /\ TurnsTyped'
BY OverTypes, OverSettles DEF Fails

LEMMA RefusedSettles ==
    ASSUME TurnInv, NEW t \in Threads, NEW reason \in {"down", "verdict", "no receipt"},
           Refused(t, reason), stage[t] # "none",
           \A run \in RunIds :
               reason = "down" /\ run.thread = t /\ run.turn = holder[t] => ~Alive(run)'
    PROVE  Settles /\ TurnsTyped'
<1>1. CASE Over(t, "error")
  BY <1>1, OverTypes, OverSettles
<1>2. CASE ~Over(t, "error")
  <2>1. /\ reason = "down" /\ tries[t] < MaxTries
        /\ stage' = [stage EXCEPT ![t] = "resting"]
        /\ UNCHANGED <<asked, waiting, holder, tries, status>>
    BY <1>2 DEF Refused, Retries, OneLeft
  <2>2. Settles
    BY <2>1 DEF Settles, Stays, TurnInv, TypeOK
  <2>3. TurnsTyped'
    BY <2>1 DEF TurnsTyped, TurnInv, TypeOK, Stages
  <2> QED
    BY <2>2, <2>3
<1> QED
  BY <1>1, <1>2

(* A turn that is asked is new to its queue.                                *)
LEMMA AskQueues ==
    ASSUME TurnInv, NEW t \in Threads, Ask(t)
    PROVE  Queued'
<1> SUFFICES ASSUME NEW u \in Threads
             PROVE  /\ \A i \in 1 .. Len(waiting'[u]) :
                          /\ waiting'[u][i] <= asked'
                          /\ waiting'[u][i] # holder'[u]
                          /\ \A run \in RunIds :
                                run.thread = u /\ run.turn = waiting'[u][i] =>
                                    gw'[run] = "unasked"
                    /\ \A i, j \in 1 .. Len(waiting'[u]) :
                          waiting'[u][i] = waiting'[u][j] => i = j
  BY DEF Queued
<1>1. asked' = asked + 1 /\ holder' = holder /\ gw' = gw
  BY DEF Ask, remote
<1>2. asked \in Nat /\ asked' \in 1..MaxTurns
  BY <1>1, TurnTypes, BoundsAssumption DEF Ask
<1>3. ASSUME NEW i \in 1 .. Len(waiting[u])
      PROVE  waiting[u][i] <= asked' /\ waiting[u][i] # asked'
  BY <1>1, QueueBelow
<1>4. /\ \A i \in 1 .. Len(waiting[u]) :
            /\ waiting[u][i] # holder[u]
            /\ \A run \in RunIds :
                  run.thread = u /\ run.turn = waiting[u][i] => gw[run] = "unasked"
      /\ \A i, j \in 1 .. Len(waiting[u]) : waiting[u][i] = waiting[u][j] => i = j
  BY DEF TurnInv, Queued
<1>5. CASE u # t
  <2>1. waiting'[u] = waiting[u]
    BY <1>5 DEF Ask, TurnInv, TypeOK
  <2> QED
    BY <1>1, <1>3, <1>4, <2>1
<1>6. CASE u = t
  <2>1. waiting'[u] = Append(waiting[u], asked')
    BY <1>1, <1>6 DEF Ask, TurnInv, TypeOK
  <2>2. /\ Len(waiting'[u]) = Len(waiting[u]) + 1
        /\ \A i \in 1 .. Len(waiting[u]) : waiting'[u][i] = waiting[u][i]
        /\ waiting'[u][Len(waiting[u]) + 1] = asked'
    <3>1. waiting[u] \in Seq(1..MaxTurns)
      BY TurnTypes
    <3> QED
      BY <1>2, <2>1, <3>1, AppendProperties
  <2>3. \A i \in 1 .. Len(waiting'[u]) :
           \/ i \in 1 .. Len(waiting[u]) /\ waiting'[u][i] = waiting[u][i]
           \/ i = Len(waiting[u]) + 1 /\ waiting'[u][i] = asked'
    BY <2>2, TurnTypes
  <2>4. asked' <= asked' /\ asked' # holder[u]
    BY <1>1, <1>2, TurnTypes DEF TurnInv, NotYet
  <2>5. \A run \in RunIds : run.turn = asked' => gw[run] = "unasked"
    BY <1>1, <1>2 DEF TurnInv, NotYet
  <2>6. \A i \in 1 .. Len(waiting'[u]) :
           /\ waiting'[u][i] <= asked'
           /\ waiting'[u][i] # holder'[u]
           /\ \A run \in RunIds :
                 run.thread = u /\ run.turn = waiting'[u][i] => gw'[run] = "unasked"
    BY <1>1, <1>3, <1>4, <2>3, <2>4, <2>5
  <2>7. \A i, j \in 1 .. Len(waiting'[u]) : waiting'[u][i] = waiting'[u][j] => i = j
    BY <1>3, <1>4, <2>3
  <2> QED
    BY <2>6, <2>7
<1> QED
  BY <1>5, <1>6

-----------------------------------------------------------------------------
(* One lemma for each action *)

LEMMA AskKeeps ==
    ASSUME TurnInv, NEW t \in Threads, Ask(t)
    PROVE  TurnInv'
<1> USE DEF TurnInv, Ask, turns, remote, delivery, past, budget
<1>1. TypeOK'
  <2>1. /\ asked' \in 0..MaxTurns
        /\ waiting' \in [Threads -> Seq(1..MaxTurns)]
        /\ holder' \in [Threads -> 0..MaxTurns]
    BY BoundsAssumption, RunIdParts DEF TypeOK
  <2>2. /\ stage' \in [Threads -> Stages]
        /\ tries' \in [Threads -> 0..MaxTries]
        /\ status' \in [Threads -> {"idle", "thinking", "error"}]
    BY BoundsAssumption, RunIdParts DEF TypeOK, Stages, MayTry
  <2>3. inflight' \subseteq RunIds /\ chase' \subseteq RunIds
    BY RunIdParts DEF TypeOK
  <2>4. gw' \in [RunIds -> {"unasked", "asked", "refused", "running", "done"}]
    BY RunIdParts DEF TypeOK
  <2>5. wrote' \subseteq RunIds /\ landed' \subseteq wrote' /\ dropped' \subseteq RunIds
    BY RunIdParts DEF TypeOK
  <2>6. known' \subseteq Threads /\ uncertain' \subseteq Threads
    BY RunIdParts DEF TypeOK
  <2>7. /\ up' \in BOOLEAN
        /\ stops' \in 0..MaxStops /\ cuts' \in 0..MaxCuts /\ crashes' \in 0..MaxCrashes
    BY BoundsAssumption, RunIdParts DEF TypeOK
  <2> QED
    BY <2>1, <2>2, <2>3, <2>4, <2>5, <2>6, <2>7 DEF TypeOK
<1>2. Slots'
  <2>1. Callers' \subseteq Callers
    BY DEF Callers, TypeOK, Calling
  <2> QED
    BY <2>1, FewerCallers
<1>3. Held'
  BY RunIdParts DEF Held, TypeOK
<1>4. Queued'
  BY AskQueues
<1>5. NotYet'
  BY RunIdParts DEF NotYet, TypeOK
<1>6. MayTry'
  BY RunIdParts DEF MayTry, TypeOK, Alive
<1>7. Once'
  BY RunIdParts DEF Once, TypeOK, Alive, MayTry
<1>8. Taken'
  BY RunIdParts DEF Taken, TypeOK, Current
<1>9. Sure'
  BY RunIdParts DEF Sure, TypeOK, Current
<1> QED
  BY <1>1, <1>2, <1>3, <1>4, <1>5, <1>6, <1>7, <1>8, <1>9

LEMMA BeginKeeps ==
    ASSUME TurnInv, NEW t \in Threads, Begin(t)
    PROVE  TurnInv'
<1> USE DEF TurnInv, Begin, turns, remote, delivery, past, budget
<1>0. /\ waiting[t] \in Seq(1..MaxTurns) /\ waiting[t] # <<>>
      /\ Len(waiting[t]) \in Nat /\ Len(waiting'[t]) = Len(waiting[t]) - 1
      /\ \A i \in 1 .. Len(waiting'[t]) : waiting'[t][i] = waiting[t][i + 1]
      /\ Head(waiting[t]) = waiting[t][1]
      /\ holder'[t] = waiting[t][1] /\ waiting'[t] = Tail(waiting[t])
      /\ 1 \in 1 .. Len(waiting[t])
      /\ waiting[t][1] \in 1..MaxTurns /\ waiting[t][1] <= asked /\ waiting[t][1] # 0
      /\ \A run \in RunIds : run.thread = t /\ run.turn = waiting[t][1] => gw[run] = "unasked"
  <2>1. waiting[t] \in Seq(1..MaxTurns) /\ waiting[t] # <<>>
    BY DEF TypeOK
  <2>2. Head(waiting[t]) = waiting[t][1] /\ 1 \in 1 .. Len(waiting[t])
    BY <2>1, HeadOfQueue
  <2>3. waiting[t][1] \in 1..MaxTurns /\ waiting[t][1] # 0
    BY <2>2, TurnTypes
  <2>4. holder'[t] = waiting[t][1] /\ waiting'[t] = Tail(waiting[t])
    BY <2>2 DEF TypeOK
  <2>5. /\ Len(waiting[t]) \in Nat /\ Len(waiting'[t]) = Len(waiting[t]) - 1
        /\ \A i \in 1 .. Len(waiting'[t]) : waiting'[t][i] = waiting[t][i + 1]
    <3>1. /\ Len(waiting[t]) \in Nat /\ Len(Tail(waiting[t])) = Len(waiting[t]) - 1
          /\ \A i \in 1 .. Len(Tail(waiting[t])) : Tail(waiting[t])[i] = waiting[t][i + 1]
      BY <2>1, HeadOfQueue
    <3> QED
      BY <2>4, <3>1
  <2> QED
    BY <2>5, <2>1, <2>2, <2>3, <2>4 DEF Queued
<1>1. TypeOK'
  <2>1. /\ asked' \in 0..MaxTurns
        /\ waiting' \in [Threads -> Seq(1..MaxTurns)]
        /\ holder' \in [Threads -> 0..MaxTurns]
    <3>1. waiting[t][1] \in 0..MaxTurns
      BY <1>0, BoundsAssumption
    <3>2. Head(waiting[t]) \in 0..MaxTurns /\ Tail(waiting[t]) \in Seq(1..MaxTurns)
      BY <1>0, <3>1, HeadOfQueue
    <3> QED
      BY <3>2 DEF TypeOK
  <2>2. /\ stage' \in [Threads -> Stages]
        /\ tries' \in [Threads -> 0..MaxTries]
        /\ status' \in [Threads -> {"idle", "thinking", "error"}]
    BY BoundsAssumption, RunIdParts DEF TypeOK, Stages, MayTry
  <2>3. inflight' \subseteq RunIds /\ chase' \subseteq RunIds
    BY RunIdParts DEF TypeOK
  <2>4. gw' \in [RunIds -> {"unasked", "asked", "refused", "running", "done"}]
    BY RunIdParts DEF TypeOK
  <2>5. wrote' \subseteq RunIds /\ landed' \subseteq wrote' /\ dropped' \subseteq RunIds
    BY RunIdParts DEF TypeOK
  <2>6. known' \subseteq Threads /\ uncertain' \subseteq Threads
    BY RunIdParts DEF TypeOK
  <2>7. /\ up' \in BOOLEAN
        /\ stops' \in 0..MaxStops /\ cuts' \in 0..MaxCuts /\ crashes' \in 0..MaxCrashes
    BY BoundsAssumption, RunIdParts DEF TypeOK
  <2> QED
    BY <2>1, <2>2, <2>3, <2>4, <2>5, <2>6, <2>7 DEF TypeOK
<1>2. Slots'
  <2>1. Callers' \subseteq Callers
    BY DEF Callers, TypeOK, Calling
  <2> QED
    BY <2>1, FewerCallers
<1>3. Held'
  <2>1. \A u \in Threads :
           u # t => holder'[u] = holder[u] /\ stage'[u] = stage[u] /\ tries'[u] = tries[u]
    BY DEF TypeOK
  <2>2. stage'[t] = "wanting"
    BY DEF TypeOK
  <2> QED
    BY <1>0, <2>1, <2>2 DEF Held
<1>4. Queued'
  <2> SUFFICES ASSUME NEW u \in Threads
               PROVE  /\ \A i \in 1 .. Len(waiting'[u]) :
                            /\ waiting'[u][i] <= asked
                            /\ waiting'[u][i] # holder'[u]
                            /\ \A run \in RunIds :
                                  run.thread = u /\ run.turn = waiting'[u][i] =>
                                      gw[run] = "unasked"
                      /\ \A i, j \in 1 .. Len(waiting'[u]) :
                            waiting'[u][i] = waiting'[u][j] => i = j
    BY DEF Queued
  <2>1. CASE u # t
    <3>1. waiting'[u] = waiting[u] /\ holder'[u] = holder[u]
      BY <2>1 DEF TypeOK
    <3> DEFINE behind(w, h) ==
                 /\ \A i \in 1 .. Len(w) :
                       /\ w[i] <= asked
                       /\ w[i] # h
                       /\ \A run \in RunIds :
                             run.thread = u /\ run.turn = w[i] => gw[run] = "unasked"
                 /\ \A i, j \in 1 .. Len(w) : w[i] = w[j] => i = j
    <3>2. behind(waiting[u], holder[u])
      BY DEF Queued
    <3> HIDE DEF behind
    <3>3. behind(waiting'[u], holder'[u])
      BY <3>1, <3>2
    <3> QED
      BY <3>3 DEF behind
  <2>2. CASE u = t
    <3>1. waiting'[u] = Tail(waiting[u]) /\ holder'[u] = waiting[u][1]
      BY <2>2, <1>0
    <3>2. /\ Len(waiting[u]) \in Nat /\ Len(waiting'[u]) = Len(waiting[u]) - 1
          /\ \A i \in 1 .. Len(waiting'[u]) : waiting'[u][i] = waiting[u][i + 1]
      BY <1>0, <2>2
    <3>3. \A i \in 1 .. Len(waiting'[u]) :
             i \in Nat /\ i + 1 \in 1 .. Len(waiting[u]) /\ i + 1 # 1
      BY <3>2
    <3>4. 1 \in 1 .. Len(waiting[u])
      BY <2>2, <1>0
    <3>5. ASSUME NEW i \in 1 .. Len(waiting'[u])
          PROVE  /\ waiting'[u][i] <= asked
                 /\ waiting'[u][i] # holder'[u]
                 /\ \A run \in RunIds :
                       run.thread = u /\ run.turn = waiting'[u][i] => gw[run] = "unasked"
      BY <3>1, <3>2, <3>3, <3>4 DEF Queued
    <3>6. ASSUME NEW i \in 1 .. Len(waiting'[u]), NEW j \in 1 .. Len(waiting'[u]),
                 waiting'[u][i] = waiting'[u][j]
          PROVE  i = j
      <4>1. waiting[u][i + 1] = waiting[u][j + 1]
        BY <3>2, <3>6
      <4>2. i + 1 = j + 1
        BY <3>3, <4>1 DEF Queued
      <4> QED
        BY <4>2, <3>3
    <3> QED
      BY <3>5, <3>6
  <2> QED
    BY <2>1, <2>2
<1>5. NotYet'
  <2>1. \A u \in Threads : u # t => holder'[u] = holder[u]
    BY DEF TypeOK
  <2> QED
    BY <1>0, <2>1 DEF NotYet
<1>6. MayTry'
  <2> SUFFICES ASSUME NEW u \in Threads, stage'[u] \in {"wanting", "resting"}
               PROVE  /\ tries'[u] < MaxTries
                      /\ \A run \in RunIds :
                            run.thread = u /\ run.turn = holder'[u] => ~Alive(run)'
    BY DEF MayTry
  <2>1. CASE u # t
    BY <2>1 DEF MayTry, TypeOK, Alive
  <2>2. CASE u = t
    <3>1. tries'[u] = 0
      BY <2>2 DEF TypeOK
    <3> QED
      BY <1>0, <2>2, <3>1, BoundsAssumption DEF Alive
  <2> QED
    BY <2>1, <2>2
<1>7. Once'
  BY RunIdParts DEF Once, TypeOK, Alive, MayTry
<1>8. Taken'
  BY RunIdParts DEF Taken, TypeOK, Current
<1>9. Sure'
  BY RunIdParts DEF Sure, TypeOK, Current
<1> QED
  BY <1>1, <1>2, <1>3, <1>4, <1>5, <1>6, <1>7, <1>8, <1>9

LEMMA DispatchKeeps ==
    ASSUME TurnInv, NEW t \in Threads, Dispatch(t)
    PROVE  TurnInv'
<1> USE DEF TurnInv, Dispatch, turns, remote, delivery, past, budget
<1>0. [thread |-> t, turn |-> holder[t], try |-> tries[t] + 1] \in RunIds
  <2>1. holder[t] \in 1..MaxTurns
    BY TurnTypes DEF Held
  <2>2. tries[t] + 1 \in 1..MaxTries
    BY TurnTypes, BoundsAssumption DEF MayTry
  <2> QED
    BY <2>1, <2>2 DEF RunIds
<1>1. TypeOK'
  <2>1. /\ asked' \in 0..MaxTurns
        /\ waiting' \in [Threads -> Seq(1..MaxTurns)]
        /\ holder' \in [Threads -> 0..MaxTurns]
    BY BoundsAssumption, RunIdParts DEF TypeOK
  <2>2. /\ stage' \in [Threads -> Stages]
        /\ tries' \in [Threads -> 0..MaxTries]
        /\ status' \in [Threads -> {"idle", "thinking", "error"}]
    BY BoundsAssumption, RunIdParts DEF TypeOK, Stages, MayTry
  <2>3. inflight' \subseteq RunIds /\ chase' \subseteq RunIds
    BY <1>0 DEF TypeOK
  <2>4. gw' \in [RunIds -> {"unasked", "asked", "refused", "running", "done"}]
    BY <1>0 DEF TypeOK
  <2>5. wrote' \subseteq RunIds /\ landed' \subseteq wrote' /\ dropped' \subseteq RunIds
    BY RunIdParts DEF TypeOK
  <2>6. known' \subseteq Threads /\ uncertain' \subseteq Threads
    BY RunIdParts DEF TypeOK
  <2>7. /\ up' \in BOOLEAN
        /\ stops' \in 0..MaxStops /\ cuts' \in 0..MaxCuts /\ crashes' \in 0..MaxCrashes
    BY BoundsAssumption, RunIdParts DEF TypeOK
  <2> QED
    BY <2>1, <2>2, <2>3, <2>4, <2>5, <2>6, <2>7 DEF TypeOK
<1>2. Slots'
  <2>1. Callers' = Callers \cup {t}
    BY DEF Callers, TypeOK, Calling
  <2>2. /\ IsFiniteSet(Callers) /\ Cardinality(Callers) \in Nat
        /\ Cardinality(Callers) < Permits
    BY FS_CardinalityType DEF Slots, PermitsInUse, Callers
  <2>3. /\ IsFiniteSet(Callers \cup {t})
        /\ \/ Cardinality(Callers \cup {t}) = Cardinality(Callers)
           \/ Cardinality(Callers \cup {t}) = Cardinality(Callers) + 1
    BY <2>2, FS_AddElement
  <2> QED
    BY <2>1, <2>2, <2>3, BoundsAssumption DEF Slots
<1>3. Held'
  BY RunIdParts DEF Held, TypeOK
<1>4. Queued'
  <2>1. \A run \in RunIds :
           gw'[run] = gw[run] \/ run = [thread |-> t, turn |-> holder[t], try |-> tries[t] + 1]
    BY DEF TypeOK
  <2>2. \A run \in RunIds :
           gw'[run] = gw[run] \/ (run.thread = t /\ run.turn = holder[t])
    BY <2>1
  <2>3. UNCHANGED <<asked, waiting, holder>>
    OBVIOUS
  <2> HIDE DEF Dispatch, TurnInv
  <2>4. Queued
    BY DEF TurnInv
  <2> QED
    BY <2>2, <2>3, <2>4 DEF Queued
<1>5. NotYet'
  BY RunIdParts DEF NotYet, TypeOK
<1>6. MayTry'
  BY RunIdParts DEF MayTry, TypeOK, Alive
<1>7. Once'
  BY RunIdParts DEF Once, TypeOK, Alive, MayTry
<1>8. Taken'
  BY RunIdParts DEF Taken, TypeOK, Current
<1>9. Sure'
  BY RunIdParts DEF Sure, TypeOK, Current
<1> QED
  BY <1>1, <1>2, <1>3, <1>4, <1>5, <1>6, <1>7, <1>8, <1>9

LEMMA UnavailableKeeps ==
    ASSUME TurnInv, NEW t \in Threads, Unavailable(t)
    PROVE  TurnInv'
<1>1. Settles /\ TurnsTyped'
  <2>1. CASE Over(t, "error")
    BY <2>1, OverTypes, OverSettles
  <2>2. CASE ~Over(t, "error")
    <3>1. /\ tries[t] + 1 < MaxTries
          /\ tries' = [tries EXCEPT ![t] = @ + 1]
          /\ stage' = [stage EXCEPT ![t] = "resting"]
          /\ UNCHANGED <<asked, waiting, holder, status, gw>>
          /\ stage[t] = "wanting"
      BY <2>2 DEF Unavailable, OneLeft, remote
    <3>2. tries[t] + 1 \in 0..MaxTries
      BY <3>1, TurnTypes, BoundsAssumption
    <3>3. Settles
      BY <3>1 DEF Settles, Stays, TurnInv, TypeOK, MayTry, Alive
    <3>4. TurnsTyped'
      BY <3>1, <3>2 DEF TurnsTyped, TurnInv, TypeOK, Stages
    <3> QED
      BY <3>3, <3>4
  <2> QED
    BY <2>1, <2>2
<1> USE DEF TurnInv, Unavailable, Over, OneLeft, turns, remote, delivery, past, budget
<1>2. TypeOK'
  <2>1. inflight' \subseteq RunIds /\ chase' \subseteq RunIds
    BY RunIdParts, CurrentIsRun DEF TypeOK
  <2>2. gw' \in [RunIds -> {"unasked", "asked", "refused", "running", "done"}]
    BY RunIdParts, CurrentIsRun DEF TypeOK
  <2>3. wrote' \subseteq RunIds /\ landed' \subseteq wrote' /\ dropped' \subseteq RunIds
    BY RunIdParts, CurrentIsRun DEF TypeOK
  <2>4. known' \subseteq Threads /\ uncertain' \subseteq Threads
    BY RunIdParts, CurrentIsRun DEF TypeOK
  <2>5. /\ up' \in BOOLEAN
        /\ stops' \in 0..MaxStops /\ cuts' \in 0..MaxCuts /\ crashes' \in 0..MaxCrashes
    BY BoundsAssumption DEF TypeOK
  <2> QED
    BY <1>1, <2>1, <2>2, <2>3, <2>4, <2>5 DEF TypeOK, TurnsTyped
<1>3. NoneStarts
  BY CurrentIsRun DEF NoneStarts, TypeOK, Alive
<1>4. Sure'
  <2>1. ASSUME NEW u \in Threads, u \notin uncertain, NEW other \in inflight,
               other.thread = u
        PROVE  /\ stage'[u] \in {"sent", "accepted", "lost"}
               /\ other = Current(u)'
    <3>1. stage[u] \in {"sent", "accepted", "lost"} /\ other = Current(u)
      BY <2>1 DEF Sure
    <3>2. u # t
      BY <3>1
    <3>3. stage'[u] = stage[u] /\ holder'[u] = holder[u] /\ tries'[u] = tries[u]
      BY <3>2 DEF TypeOK
    <3> QED
      BY <3>1, <3>3 DEF Current
  <2> QED
    BY <2>1 DEF Sure
<1> QED
  BY <1>1, <1>2, <1>3, <1>4, SettledKeeps

LEMMA WakeKeeps ==
    ASSUME TurnInv, NEW t \in Threads, Wake(t)
    PROVE  TurnInv'
<1>1. Settles /\ TurnsTyped'
  <2>1. Settles
    BY DEF Wake, Settles, Stays, TurnInv, TypeOK
  <2>2. TurnsTyped'
    BY DEF Wake, TurnsTyped, TurnInv, TypeOK, Stages
  <2> QED
    BY <2>1, <2>2
<1> USE DEF TurnInv, Wake, turns, remote, delivery, past, budget
<1>2. TypeOK'
  <2>1. inflight' \subseteq RunIds /\ chase' \subseteq RunIds
    BY RunIdParts, CurrentIsRun DEF TypeOK
  <2>2. gw' \in [RunIds -> {"unasked", "asked", "refused", "running", "done"}]
    BY RunIdParts, CurrentIsRun DEF TypeOK
  <2>3. wrote' \subseteq RunIds /\ landed' \subseteq wrote' /\ dropped' \subseteq RunIds
    BY RunIdParts, CurrentIsRun DEF TypeOK
  <2>4. known' \subseteq Threads /\ uncertain' \subseteq Threads
    BY RunIdParts, CurrentIsRun DEF TypeOK
  <2>5. /\ up' \in BOOLEAN
        /\ stops' \in 0..MaxStops /\ cuts' \in 0..MaxCuts /\ crashes' \in 0..MaxCrashes
    BY BoundsAssumption DEF TypeOK
  <2> QED
    BY <1>1, <2>1, <2>2, <2>3, <2>4, <2>5 DEF TypeOK, TurnsTyped
<1>3. NoneStarts
  BY CurrentIsRun DEF NoneStarts, TypeOK, Alive
<1>4. Sure'
  BY RunIdParts DEF Sure, TypeOK, Current
<1> QED
  BY <1>1, <1>2, <1>3, <1>4, SettledKeeps

LEMMA AcceptKeeps ==
    ASSUME TurnInv, NEW run \in RunIds, Accept(run)
    PROVE  TurnInv'
<1>1. Settles /\ TurnsTyped'
  <2>0. run.thread \in Threads
    BY RunIdParts
  <2>1. CASE up /\ Called(run) /\ stage[run.thread] = "sent"
    <3>1. Current(run.thread) = run /\ gw'[run] = "running"
      BY <2>1 DEF Accept, Called, TurnInv, TypeOK
    <3>2. /\ stage' = [stage EXCEPT ![run.thread] = "accepted"]
          /\ UNCHANGED <<asked, waiting, holder, tries, status>>
      BY <2>1 DEF Accept
    <3>3. stage[run.thread] = "sent"
      BY <2>1
    <3>4. Settles
      BY <3>1, <3>2, <3>3 DEF Settles, Stays, TurnInv, TypeOK
    <3>5. TurnsTyped'
      BY <3>2 DEF TurnsTyped, TurnInv, TypeOK, Stages
    <3> QED
      BY <3>4, <3>5
  <2>2. CASE ~(up /\ Called(run) /\ stage[run.thread] = "sent")
    <3>1. ~(up /\ Called(run))
      BY <2>0, <2>2 DEF Called, Calling, Accept, TurnInv, Taken
    <3>2. UNCHANGED turns
      BY <3>1 DEF Accept, turns
    <3> QED
      BY <3>2, UnchangedSettles
  <2> QED
    BY <2>1, <2>2
<1> USE DEF TurnInv, Accept, Called, turns, remote, delivery, past, budget
<1>2. TypeOK'
  <2>1. inflight' \subseteq RunIds /\ chase' \subseteq RunIds
    BY RunIdParts, CurrentIsRun DEF TypeOK
  <2>2. gw' \in [RunIds -> {"unasked", "asked", "refused", "running", "done"}]
    BY RunIdParts, CurrentIsRun DEF TypeOK
  <2>3. wrote' \subseteq RunIds /\ landed' \subseteq wrote' /\ dropped' \subseteq RunIds
    BY RunIdParts, CurrentIsRun DEF TypeOK
  <2>4. known' \subseteq Threads /\ uncertain' \subseteq Threads
    BY RunIdParts, CurrentIsRun DEF TypeOK
  <2>5. /\ up' \in BOOLEAN
        /\ stops' \in 0..MaxStops /\ cuts' \in 0..MaxCuts /\ crashes' \in 0..MaxCrashes
    BY BoundsAssumption DEF TypeOK
  <2> QED
    BY <1>1, <2>1, <2>2, <2>3, <2>4, <2>5 DEF TypeOK, TurnsTyped
<1>3. NoneStarts
  BY CurrentIsRun DEF NoneStarts, TypeOK, Alive
<1>4. Sure'
  BY RunIdParts DEF Sure, TypeOK, Current
<1> QED
  BY <1>1, <1>2, <1>3, <1>4, SettledKeeps

LEMMA RefuseKeeps ==
    ASSUME TurnInv, NEW run \in RunIds, NEW reason \in {"down", "verdict"}, Refuse(run, reason)
    PROVE  TurnInv'
<1>1. Settles /\ TurnsTyped'
  <2>1. CASE up /\ Called(run)
    <3>1. /\ run.thread \in Threads /\ stage[run.thread] # "none"
          /\ run = Current(run.thread) /\ Refused(run.thread, reason)
      BY <2>1, RunIdParts DEF Refuse, Called, Calling
    <3>2. ASSUME NEW other \in RunIds, other.thread = run.thread,
                 other.turn = holder[run.thread]
          PROVE  ~Alive(other)'
      <4>1. other.turn = run.turn /\ Alive(run)
        BY <3>1, <3>2 DEF Current, Alive, Refuse
      <4>2. CASE other = run
        BY <4>2 DEF Refuse, Alive, TurnInv, TypeOK
      <4>3. CASE other # run
        <5>1. ~Alive(other)
          BY <3>2, <4>1, <4>3 DEF TurnInv, Once
        <5> QED
          BY <4>3, <5>1 DEF Refuse, Alive, TurnInv, TypeOK
      <4> QED
        BY <4>2, <4>3
    <3> QED
      BY <3>1, <3>2, RefusedSettles
  <2>2. CASE ~(up /\ Called(run))
    BY <2>2, UnchangedSettles DEF Refuse
  <2> QED
    BY <2>1, <2>2
<1> USE DEF TurnInv, Refuse, Called, Refused, Retries, OneLeft, Over, Without, turns, remote,
   delivery, past, budget
<1>2. TypeOK'
  <2>1. inflight' \subseteq RunIds /\ chase' \subseteq RunIds
    BY RunIdParts, CurrentIsRun DEF TypeOK
  <2>2. gw' \in [RunIds -> {"unasked", "asked", "refused", "running", "done"}]
    BY RunIdParts, CurrentIsRun DEF TypeOK
  <2>3. wrote' \subseteq RunIds /\ landed' \subseteq wrote' /\ dropped' \subseteq RunIds
    BY RunIdParts, CurrentIsRun DEF TypeOK
  <2>4. known' \subseteq Threads /\ uncertain' \subseteq Threads
    BY RunIdParts, CurrentIsRun DEF TypeOK
  <2>5. /\ up' \in BOOLEAN
        /\ stops' \in 0..MaxStops /\ cuts' \in 0..MaxCuts /\ crashes' \in 0..MaxCrashes
    BY BoundsAssumption DEF TypeOK
  <2> QED
    BY <1>1, <2>1, <2>2, <2>3, <2>4, <2>5 DEF TypeOK, TurnsTyped
<1>3. NoneStarts
  BY CurrentIsRun DEF NoneStarts, TypeOK, Alive
<1>4. Sure'
  BY RunIdParts DEF Sure, TypeOK, Current
<1> QED
  BY <1>1, <1>2, <1>3, <1>4, SettledKeeps

LEMMA NoReceiptKeeps ==
    ASSUME TurnInv, NEW t \in Threads, NoReceipt(t)
    PROVE  TurnInv'
<1>1. Settles /\ TurnsTyped'
  BY RefusedSettles DEF NoReceipt
<1> USE DEF TurnInv, NoReceipt, Refused, Retries, Over, Without, turns, remote, delivery, past,
   budget
<1>2. TypeOK'
  <2>1. inflight' \subseteq RunIds /\ chase' \subseteq RunIds
    BY RunIdParts, CurrentIsRun DEF TypeOK
  <2>2. gw' \in [RunIds -> {"unasked", "asked", "refused", "running", "done"}]
    BY RunIdParts, CurrentIsRun DEF TypeOK
  <2>3. wrote' \subseteq RunIds /\ landed' \subseteq wrote' /\ dropped' \subseteq RunIds
    BY RunIdParts, CurrentIsRun DEF TypeOK
  <2>4. known' \subseteq Threads /\ uncertain' \subseteq Threads
    BY RunIdParts, CurrentIsRun DEF TypeOK
  <2>5. /\ up' \in BOOLEAN
        /\ stops' \in 0..MaxStops /\ cuts' \in 0..MaxCuts /\ crashes' \in 0..MaxCrashes
    BY BoundsAssumption DEF TypeOK
  <2> QED
    BY <1>1, <2>1, <2>2, <2>3, <2>4, <2>5 DEF TypeOK, TurnsTyped
<1>3. NoneStarts
  BY CurrentIsRun DEF NoneStarts, TypeOK, Alive
<1>4. Sure'
  BY RunIdParts DEF Sure, TypeOK, Current
<1> QED
  BY <1>1, <1>2, <1>3, <1>4, SettledKeeps

LEMMA FinishKeeps ==
    ASSUME TurnInv, NEW run \in RunIds, NEW reply \in BOOLEAN, Finish(run, reply)
    PROVE  TurnInv'
<1>1. Settles /\ TurnsTyped'
  BY UnchangedSettles DEF Finish
<1> USE DEF TurnInv, Finish, turns, remote, delivery, past, budget
<1>2. TypeOK'
  <2>1. inflight' \subseteq RunIds /\ chase' \subseteq RunIds
    BY RunIdParts, CurrentIsRun DEF TypeOK
  <2>2. gw' \in [RunIds -> {"unasked", "asked", "refused", "running", "done"}]
    BY RunIdParts, CurrentIsRun DEF TypeOK
  <2>3. wrote' \subseteq RunIds /\ landed' \subseteq wrote' /\ dropped' \subseteq RunIds
    BY RunIdParts, CurrentIsRun DEF TypeOK
  <2>4. known' \subseteq Threads /\ uncertain' \subseteq Threads
    <3>1. run.thread \in Threads
      BY RunIdParts
    <3> QED
      BY <3>1 DEF TypeOK
  <2>5. /\ up' \in BOOLEAN
        /\ stops' \in 0..MaxStops /\ cuts' \in 0..MaxCuts /\ crashes' \in 0..MaxCrashes
    BY BoundsAssumption DEF TypeOK
  <2> QED
    BY <1>1, <2>1, <2>2, <2>3, <2>4, <2>5 DEF TypeOK, TurnsTyped
<1>3. NoneStarts
  BY CurrentIsRun DEF NoneStarts, TypeOK, Alive
<1>4. Sure'
  BY RunIdParts DEF Sure, TypeOK, Current
<1> QED
  BY <1>1, <1>2, <1>3, <1>4, SettledKeeps

LEMMA AnswerKeeps ==
    ASSUME TurnInv, NEW t \in Threads, Answer(t)
    PROVE  TurnInv'
<1>1. Settles /\ TurnsTyped'
  BY OverTypes, OverSettles DEF Answer
<1> USE DEF TurnInv, Answer, Over, Without, turns, remote, delivery, past, budget
<1>2. TypeOK'
  <2>1. inflight' \subseteq RunIds /\ chase' \subseteq RunIds
    BY RunIdParts, CurrentIsRun DEF TypeOK
  <2>2. gw' \in [RunIds -> {"unasked", "asked", "refused", "running", "done"}]
    BY RunIdParts, CurrentIsRun DEF TypeOK
  <2>3. wrote' \subseteq RunIds /\ landed' \subseteq wrote' /\ dropped' \subseteq RunIds
    BY RunIdParts, CurrentIsRun DEF TypeOK
  <2>4. known' \subseteq Threads /\ uncertain' \subseteq Threads
    BY RunIdParts, CurrentIsRun DEF TypeOK
  <2>5. /\ up' \in BOOLEAN
        /\ stops' \in 0..MaxStops /\ cuts' \in 0..MaxCuts /\ crashes' \in 0..MaxCrashes
    BY BoundsAssumption DEF TypeOK
  <2> QED
    BY <1>1, <2>1, <2>2, <2>3, <2>4, <2>5 DEF TypeOK, TurnsTyped
<1>3. NoneStarts
  BY CurrentIsRun DEF NoneStarts, TypeOK, Alive
<1>4. Sure'
  BY RunIdParts DEF Sure, TypeOK, Current
<1> QED
  BY <1>1, <1>2, <1>3, <1>4, SettledKeeps

LEMMA RunFailedKeeps ==
    ASSUME TurnInv, NEW t \in Threads, RunFailed(t)
    PROVE  TurnInv'
<1>1. Settles /\ TurnsTyped'
  BY FailsSettles DEF RunFailed
<1> USE DEF TurnInv, RunFailed, Fails, Over, turns, remote, delivery, past, budget
<1>2. TypeOK'
  <2>1. inflight' \subseteq RunIds /\ chase' \subseteq RunIds
    BY RunIdParts, CurrentIsRun DEF TypeOK
  <2>2. gw' \in [RunIds -> {"unasked", "asked", "refused", "running", "done"}]
    BY RunIdParts, CurrentIsRun DEF TypeOK
  <2>3. wrote' \subseteq RunIds /\ landed' \subseteq wrote' /\ dropped' \subseteq RunIds
    BY RunIdParts, CurrentIsRun DEF TypeOK
  <2>4. known' \subseteq Threads /\ uncertain' \subseteq Threads
    BY RunIdParts, CurrentIsRun DEF TypeOK
  <2>5. /\ up' \in BOOLEAN
        /\ stops' \in 0..MaxStops /\ cuts' \in 0..MaxCuts /\ crashes' \in 0..MaxCrashes
    BY BoundsAssumption DEF TypeOK
  <2> QED
    BY <1>1, <2>1, <2>2, <2>3, <2>4, <2>5 DEF TypeOK, TurnsTyped
<1>3. NoneStarts
  BY CurrentIsRun DEF NoneStarts, TypeOK, Alive
<1>4. Sure'
  BY RunIdParts DEF Sure, TypeOK, Current
<1> QED
  BY <1>1, <1>2, <1>3, <1>4, SettledKeeps

LEMMA RunTimeoutKeeps ==
    ASSUME TurnInv, NEW t \in Threads, RunTimeout(t)
    PROVE  TurnInv'
<1>1. Settles /\ TurnsTyped'
  BY FailsSettles DEF RunTimeout
<1> USE DEF TurnInv, RunTimeout, Fails, Over, turns, remote, delivery, past, budget
<1>2. TypeOK'
  <2>1. inflight' \subseteq RunIds /\ chase' \subseteq RunIds
    BY RunIdParts, CurrentIsRun DEF TypeOK
  <2>2. gw' \in [RunIds -> {"unasked", "asked", "refused", "running", "done"}]
    BY RunIdParts, CurrentIsRun DEF TypeOK
  <2>3. wrote' \subseteq RunIds /\ landed' \subseteq wrote' /\ dropped' \subseteq RunIds
    BY RunIdParts, CurrentIsRun DEF TypeOK
  <2>4. known' \subseteq Threads /\ uncertain' \subseteq Threads
    BY RunIdParts, CurrentIsRun DEF TypeOK
  <2>5. /\ up' \in BOOLEAN
        /\ stops' \in 0..MaxStops /\ cuts' \in 0..MaxCuts /\ crashes' \in 0..MaxCrashes
    BY BoundsAssumption DEF TypeOK
  <2> QED
    BY <1>1, <2>1, <2>2, <2>3, <2>4, <2>5 DEF TypeOK, TurnsTyped
<1>3. NoneStarts
  BY CurrentIsRun DEF NoneStarts, TypeOK, Alive
<1>4. Sure'
  BY RunIdParts DEF Sure, TypeOK, Current
<1> QED
  BY <1>1, <1>2, <1>3, <1>4, SettledKeeps

LEMMA CutKeeps ==
    ASSUME TurnInv, Cut
    PROVE  TurnInv'
<1>1. Settles /\ TurnsTyped'
  <2>1. Settles
    BY DEF Cut, Settles, Stays, Calling
  <2>2. TurnsTyped'
    BY DEF Cut, TurnsTyped, TurnInv, TypeOK, Stages
  <2> QED
    BY <2>1, <2>2
<1> USE DEF TurnInv, Cut, turns, remote, delivery, past, budget
<1>2. TypeOK'
  <2>1. inflight' \subseteq RunIds /\ chase' \subseteq RunIds
    BY RunIdParts, CurrentIsRun DEF TypeOK
  <2>2. gw' \in [RunIds -> {"unasked", "asked", "refused", "running", "done"}]
    BY RunIdParts, CurrentIsRun DEF TypeOK
  <2>3. wrote' \subseteq RunIds /\ landed' \subseteq wrote' /\ dropped' \subseteq RunIds
    BY RunIdParts, CurrentIsRun DEF TypeOK
  <2>4. known' \subseteq Threads /\ uncertain' \subseteq Threads
    BY RunIdParts, CurrentIsRun DEF TypeOK
  <2>5. /\ up' \in BOOLEAN
        /\ stops' \in 0..MaxStops /\ cuts' \in 0..MaxCuts /\ crashes' \in 0..MaxCrashes
    <3>1. cuts' \in 0..MaxCuts
      <4>1. cuts \in 0..MaxCuts /\ cuts < MaxCuts /\ cuts' = cuts + 1
        BY DEF TypeOK
      <4> QED
        BY <4>1, BoundsAssumption
    <3> QED
      BY <3>1 DEF TypeOK
  <2> QED
    BY <1>1, <2>1, <2>2, <2>3, <2>4, <2>5 DEF TypeOK, TurnsTyped
<1>3. NoneStarts
  BY DEF NoneStarts, Alive
<1>4. Sure'
  BY RunIdParts DEF Sure, TypeOK, Current
<1> QED
  BY <1>1, <1>2, <1>3, <1>4, SettledKeeps

LEMMA LostKeeps ==
    ASSUME TurnInv, NEW t \in Threads, Lost(t)
    PROVE  TurnInv'
<1>1. Settles /\ TurnsTyped'
  BY FailsSettles DEF Lost
<1> USE DEF TurnInv, Lost, Fails, Over, turns, remote, delivery, past, budget
<1>2. TypeOK'
  <2>1. inflight' \subseteq RunIds /\ chase' \subseteq RunIds
    BY RunIdParts, CurrentIsRun DEF TypeOK
  <2>2. gw' \in [RunIds -> {"unasked", "asked", "refused", "running", "done"}]
    BY RunIdParts, CurrentIsRun DEF TypeOK
  <2>3. wrote' \subseteq RunIds /\ landed' \subseteq wrote' /\ dropped' \subseteq RunIds
    BY RunIdParts, CurrentIsRun DEF TypeOK
  <2>4. known' \subseteq Threads /\ uncertain' \subseteq Threads
    BY RunIdParts, CurrentIsRun DEF TypeOK
  <2>5. /\ up' \in BOOLEAN
        /\ stops' \in 0..MaxStops /\ cuts' \in 0..MaxCuts /\ crashes' \in 0..MaxCrashes
    BY BoundsAssumption DEF TypeOK
  <2> QED
    BY <1>1, <2>1, <2>2, <2>3, <2>4, <2>5 DEF TypeOK, TurnsTyped
<1>3. NoneStarts
  BY CurrentIsRun DEF NoneStarts, TypeOK, Alive
<1>4. Sure'
  BY RunIdParts DEF Sure, TypeOK, Current
<1> QED
  BY <1>1, <1>2, <1>3, <1>4, SettledKeeps

LEMMA ReconnectKeeps ==
    ASSUME TurnInv, Reconnect
    PROVE  TurnInv'
<1>1. Settles /\ TurnsTyped'
  BY UnchangedSettles DEF Reconnect
<1> USE DEF TurnInv, Reconnect, CaughtUp, History, turns, remote, delivery, past, budget
<1>2. TypeOK'
  <2>1. inflight' \subseteq RunIds /\ chase' \subseteq RunIds
    BY RunIdParts DEF TypeOK, CaughtUp, History
  <2>2. gw' \in [RunIds -> {"unasked", "asked", "refused", "running", "done"}]
    BY RunIdParts DEF TypeOK, CaughtUp, History
  <2>3. wrote' \subseteq RunIds /\ landed' \subseteq wrote' /\ dropped' \subseteq RunIds
    BY RunIdParts DEF TypeOK, CaughtUp, History
  <2>4. known' \subseteq Threads /\ uncertain' \subseteq Threads
    BY RunIdParts DEF TypeOK, CaughtUp, History
  <2>5. /\ up' \in BOOLEAN
        /\ stops' \in 0..MaxStops /\ cuts' \in 0..MaxCuts /\ crashes' \in 0..MaxCrashes
    BY BoundsAssumption DEF TypeOK
  <2> QED
    BY <1>1, <2>1, <2>2, <2>3, <2>4, <2>5 DEF TypeOK, TurnsTyped
<1>3. NoneStarts
  BY CurrentIsRun DEF NoneStarts, TypeOK, Alive
<1>4. Sure'
  BY RunIdParts DEF Sure, TypeOK, Current
<1> QED
  BY <1>1, <1>2, <1>3, <1>4, SettledKeeps

LEMMA ChaseKeeps ==
    ASSUME TurnInv, Chase
    PROVE  TurnInv'
<1>1. Settles /\ TurnsTyped'
  BY UnchangedSettles DEF Chase
<1> USE DEF TurnInv, Chase, CaughtUp, History, turns, remote, delivery, past, budget
<1>2. TypeOK'
  <2>1. inflight' \subseteq RunIds /\ chase' \subseteq RunIds
    BY RunIdParts DEF TypeOK, CaughtUp, History
  <2>2. gw' \in [RunIds -> {"unasked", "asked", "refused", "running", "done"}]
    BY RunIdParts DEF TypeOK, CaughtUp, History
  <2>3. wrote' \subseteq RunIds /\ landed' \subseteq wrote' /\ dropped' \subseteq RunIds
    BY RunIdParts DEF TypeOK, CaughtUp, History
  <2>4. known' \subseteq Threads /\ uncertain' \subseteq Threads
    BY RunIdParts DEF TypeOK, CaughtUp, History
  <2>5. /\ up' \in BOOLEAN
        /\ stops' \in 0..MaxStops /\ cuts' \in 0..MaxCuts /\ crashes' \in 0..MaxCrashes
    BY BoundsAssumption DEF TypeOK
  <2> QED
    BY <1>1, <2>1, <2>2, <2>3, <2>4, <2>5 DEF TypeOK, TurnsTyped
<1>3. NoneStarts
  BY CurrentIsRun DEF NoneStarts, TypeOK, Alive
<1>4. Sure'
  BY RunIdParts DEF Sure, TypeOK, Current
<1> QED
  BY <1>1, <1>2, <1>3, <1>4, SettledKeeps

LEMMA CrashKeeps ==
    ASSUME TurnInv, Crash
    PROVE  TurnInv'
<1> USE DEF TurnInv, Crash, History, turns, remote, delivery, past, budget
<1>1. TypeOK'
  <2>1. /\ asked' \in 0..MaxTurns
        /\ waiting' \in [Threads -> Seq(1..MaxTurns)]
        /\ holder' \in [Threads -> 0..MaxTurns]
    BY BoundsAssumption, RunIdParts DEF TypeOK
  <2>2. /\ stage' \in [Threads -> Stages]
        /\ tries' \in [Threads -> 0..MaxTries]
        /\ status' \in [Threads -> {"idle", "thinking", "error"}]
    BY BoundsAssumption, RunIdParts DEF TypeOK, Stages, MayTry
  <2>3. inflight' \subseteq RunIds /\ chase' \subseteq RunIds
    BY RunIdParts DEF TypeOK
  <2>4. gw' \in [RunIds -> {"unasked", "asked", "refused", "running", "done"}]
    BY RunIdParts DEF TypeOK
  <2>5. wrote' \subseteq RunIds /\ landed' \subseteq wrote' /\ dropped' \subseteq RunIds
    BY RunIdParts DEF TypeOK
  <2>6. known' \subseteq Threads /\ uncertain' \subseteq Threads
    BY RunIdParts DEF TypeOK
  <2>7. /\ up' \in BOOLEAN
        /\ stops' \in 0..MaxStops /\ cuts' \in 0..MaxCuts /\ crashes' \in 0..MaxCrashes
    <3>1. crashes' \in 0..MaxCrashes
      <4>1. crashes \in 0..MaxCrashes /\ crashes < MaxCrashes /\ crashes' = crashes + 1
        BY DEF TypeOK
      <4> QED
        BY <4>1, BoundsAssumption
    <3> QED
      BY <3>1 DEF TypeOK
  <2> QED
    BY <2>1, <2>2, <2>3, <2>4, <2>5, <2>6, <2>7 DEF TypeOK
<1>2. Slots'
  <2>1. Callers' \subseteq Callers
    BY DEF Callers, TypeOK, Calling
  <2> QED
    BY <2>1, FewerCallers
<1>3. Held'
  BY RunIdParts DEF Held, TypeOK
<1>4. Queued'
  BY RunIdParts DEF Queued, TypeOK
<1>5. NotYet'
  BY RunIdParts DEF NotYet, TypeOK
<1>6. MayTry'
  BY RunIdParts DEF MayTry, TypeOK, Alive
<1>7. Once'
  BY RunIdParts DEF Once, TypeOK, Alive, MayTry
<1>8. Taken'
  BY RunIdParts DEF Taken, TypeOK, Current
<1>9. Sure'
  BY RunIdParts DEF Sure, TypeOK, Current
<1> QED
  BY <1>1, <1>2, <1>3, <1>4, <1>5, <1>6, <1>7, <1>8, <1>9

LEMMA StopKeeps ==
    ASSUME TurnInv, NEW t \in Threads, Stop(t)
    PROVE  TurnInv'
<1>1. Settles /\ TurnsTyped'
  BY UnchangedSettles DEF Stop
<1> USE DEF TurnInv, Stop, Entries, Named, First, turns, remote, delivery, past, budget
<1>2. TypeOK'
  <2>1. inflight' \subseteq RunIds /\ chase' \subseteq RunIds
    BY RunIdParts, CurrentIsRun DEF TypeOK
  <2>2. gw' \in [RunIds -> {"unasked", "asked", "refused", "running", "done"}]
    BY RunIdParts, CurrentIsRun DEF TypeOK
  <2>3. wrote' \subseteq RunIds /\ landed' \subseteq wrote' /\ dropped' \subseteq RunIds
    BY RunIdParts, CurrentIsRun DEF TypeOK
  <2>4. known' \subseteq Threads /\ uncertain' \subseteq Threads
    BY RunIdParts, CurrentIsRun DEF TypeOK
  <2>5. /\ up' \in BOOLEAN
        /\ stops' \in 0..MaxStops /\ cuts' \in 0..MaxCuts /\ crashes' \in 0..MaxCrashes
    BY BoundsAssumption DEF TypeOK
  <2> QED
    BY <1>1, <2>1, <2>2, <2>3, <2>4, <2>5 DEF TypeOK, TurnsTyped
<1>3. NoneStarts
  BY CurrentIsRun DEF NoneStarts, TypeOK, Alive
<1>4. Sure'
  BY RunIdParts DEF Sure, TypeOK, Current
<1> QED
  BY <1>1, <1>2, <1>3, <1>4, SettledKeeps

-----------------------------------------------------------------------------
(* The invariant *)

LEMMA InitTurns ==
    ASSUME Init
    PROVE  TurnInv
<1>1. TypeOK
  <2>1. /\ asked \in 0..MaxTurns /\ 0 \in 0..MaxTurns /\ 0 \in 0..MaxTries
        /\ stops \in 0..MaxStops /\ cuts \in 0..MaxCuts /\ crashes \in 0..MaxCrashes
    BY BoundsAssumption DEF Init
  <2>2. waiting \in [Threads -> Seq(1..MaxTurns)]
    BY DEF Init
  <2> QED
    BY <2>1, <2>2 DEF Init, TypeOK, Stages
<1>2. Slots
  <2>1. Callers = {}
    BY DEF Init, Callers, Calling
  <2> QED
    BY <2>1, FS_EmptySet, BoundsAssumption DEF Slots
<1>3. Held /\ NotYet /\ MayTry /\ Once /\ Taken /\ Sure
  BY BoundsAssumption DEF Init, Held, NotYet, MayTry, Once, Taken, Sure, Alive
<1>4. Queued
  BY DEF Init, Queued
<1> QED
  BY <1>1, <1>2, <1>3, <1>4 DEF TurnInv

LEMMA NextTurns ==
    ASSUME TurnInv, [Next]_vars
    PROVE  TurnInv'
<1>1. CASE UNCHANGED vars
  <2>1. UNCHANGED turns /\ UNCHANGED <<gw, inflight, uncertain>>
    BY <1>1 DEF vars, remote, past
  <2>2. Settles /\ NoneStarts
    BY <2>1, UnchangedSettles DEF NoneStarts, Alive
  <2>3. TypeOK'
    BY <1>1 DEF vars, turns, remote, delivery, past, budget, TurnInv, TypeOK
  <2>4. Sure'
    BY <2>1 DEF turns, TurnInv, Sure, Current
  <2> QED
    BY <2>2, <2>3, <2>4, SettledKeeps DEF TurnInv
<1>2. CASE Next
  <2>1. ASSUME NEW t \in Threads
        PROVE  Ask(t) \/ Begin(t) \/ Dispatch(t) \/ Unavailable(t) \/ Wake(t)
                   \/ NoReceipt(t) => TurnInv'
    BY <2>1, AskKeeps, BeginKeeps, DispatchKeeps, UnavailableKeeps, WakeKeeps,
       NoReceiptKeeps
  <2>2. ASSUME NEW t \in Threads
        PROVE  Answer(t) \/ RunFailed(t) \/ RunTimeout(t) \/ Lost(t) \/ Stop(t) => TurnInv'
    BY <2>2, AnswerKeeps, RunFailedKeeps, RunTimeoutKeeps, LostKeeps, StopKeeps
  <2>3. ASSUME NEW run \in RunIds
        PROVE  /\ Accept(run) => TurnInv'
               /\ \A reason \in {"down", "verdict"} : Refuse(run, reason) => TurnInv'
               /\ \A reply \in BOOLEAN : Finish(run, reply) => TurnInv'
    BY <2>3, AcceptKeeps, RefuseKeeps, FinishKeeps
  <2>4. Cut \/ Reconnect \/ Chase \/ Crash => TurnInv'
    BY CutKeeps, ReconnectKeeps, ChaseKeeps, CrashKeeps
  <2> QED
    BY <1>2, <2>1, <2>2, <2>3, <2>4 DEF Next
<1> QED
  BY <1>1, <1>2

LEMMA TurnsAreSound == Spec => []TurnInv
<1> QED
  BY InitTurns, NextTurns, PTL DEF Spec

-----------------------------------------------------------------------------
(* Theorems *)

(* No turn ever runs twice on the gateway, whatever is refused, lost, late  *)
(* or timed out, and never more calls are out than max_concurrency allows   *)
(* (_send_with_gateway_retry, call_agent).                                  *)
THEOREM NoTurnRunsTwice == Spec => []RunsAccounted
<1>1. ASSUME TurnInv
      PROVE  OneRunPerTurn
  <2> SUFFICES ASSUME NEW t \in Threads, NEW n \in 1..MaxTurns
               PROVE  Cardinality({k \in 1..MaxTries :
                          gw[[thread |-> t, turn |-> n, try |-> k]]
                              \in {"running", "done"}}) <= 1
    BY DEF OneRunPerTurn
  <2> DEFINE did == {k \in 1..MaxTries :
                        gw[[thread |-> t, turn |-> n, try |-> k]] \in {"running", "done"}}
  <2>1. \A j, k \in did : j = k
    <3> SUFFICES ASSUME NEW j \in did, NEW k \in did
                 PROVE  j = k
      OBVIOUS
    <3> DEFINE a == [thread |-> t, turn |-> n, try |-> j]
               b == [thread |-> t, turn |-> n, try |-> k]
    <3>1. a \in RunIds /\ b \in RunIds
      BY DEF RunIds
    <3>2. Alive(a) /\ Alive(b)
      BY DEF Alive
    <3>3. a = b
      BY <1>1, <3>1, <3>2 DEF TurnInv, Once
    <3> QED
      BY <3>3
  <2>2. did = {} \/ \E k : did = {k}
    BY <2>1
  <2> HIDE DEF did
  <2>3. Cardinality(did) \in {0, 1}
    BY <2>2, FS_EmptySet, FS_Singleton
  <2> QED
    BY <2>3 DEF did
<1>2. ASSUME TurnInv
      PROVE  RunsAccounted
  BY <1>1, <1>2 DEF RunsAccounted, TurnInv, Slots, Callers, PermitsInUse
<1> QED
  BY <1>2, TurnsAreSound, PTL

(* The stop button ends no run of another thread, and it ends the run its   *)
(* own thread waits on unless an older entry may be named first             *)
(* (_abort_thread_turn).                                                    *)
THEOREM StopIsAimed == Spec => StopEndsItsOwnRun
<1>1. ASSUME TurnInv, NEW t \in Threads, Stop(t)
      PROVE  /\ \A run \in RunIds : run.thread # t => gw'[run] = gw[run]
             /\ stage[t] = "accepted" /\ t \notin uncertain => gw'[Current(t)] = "done"
  <2> DEFINE hit == IF Named(t) # {} THEN First(Named(t))
                    ELSE {run \in RunIds : run.thread = t}
  <2>1. \A run \in RunIds :
           gw'[run] = IF run \in hit /\ gw[run] = "running" THEN "done" ELSE gw[run]
    BY <1>1 DEF Stop
  <2>2. \A run \in hit : run.thread = t
    BY DEF Named, Entries, First
  <2>3. ASSUME NEW run \in RunIds, run.thread # t
        PROVE  gw'[run] = gw[run]
    BY <2>1, <2>2, <2>3
  <2>4. ASSUME stage[t] = "accepted", t \notin uncertain
        PROVE  gw'[Current(t)] = "done"
    <3>1. Current(t) \in RunIds /\ Current(t).thread = t
      BY <1>1, <2>4, CurrentIsRun DEF Current
    <3>2. gw[Current(t)] \in {"running", "done"}
      BY <1>1, <2>4 DEF TurnInv, Taken
    <3>3. \A run \in Named(t) : run = Current(t)
      BY <1>1, <2>4 DEF TurnInv, Sure, Named, Entries
    <3>4. Current(t) \in hit
      BY <3>1, <3>3 DEF First
    <3> QED
      BY <2>1, <3>1, <3>2, <3>4
  <2> QED
    BY <2>3, <2>4
<1>2. ASSUME TurnInv, [Next]_vars
      PROVE  [\A t \in Threads : Stop(t) =>
                /\ \A run \in RunIds : run.thread # t => gw'[run] = gw[run]
                /\ stage[t] = "accepted" /\ t \notin uncertain =>
                       gw'[Current(t)] = "done"]_vars
  BY <1>1, <1>2
<1> QED
  BY <1>2, TurnsAreSound, PTL DEF Spec, StopEndsItsOwnRun

-----------------------------------------------------------------------------
(* The message that asks for a turn (SendAck)                               *)

(* Whatever knows a message as stored has its row behind it; no row is ever *)
(* taken back, and a crash leaves nothing but rows.                         *)
RowsBehind ==
    /\ \A m \in Msgs : rows[m] > 0 => m \in typed
    /\ \A s \in Sockets : hand[s].step = "reack" => seen[MsgOf(s)] # "no"
    /\ \A m \in Msgs : seen[m] # "no" \/ Dispatched(m) > 0 => rows[m] > 0
    /\ \A s \in Sockets :
          hand[s].step \in {"reack", "vouch", "stored", "title", "ack"} => rows[MsgOf(s)] > 0
    /\ \A frame \in wire : frame.status # "rejected" => rows[frame.msg] > 0

(* The handler that stored a message is the only one on its way to start    *)
(* the turn, and until it has, or a resend of a stored entry has, there is  *)
(* none.                                                                    *)
Starts(s) == hand[s].step \in {"stored", "title", "ack"}

OneStarter ==
    /\ \A s, t \in Sockets : Starts(s) /\ Starts(t) /\ MsgOf(s) = MsgOf(t) => s = t
    /\ \A m \in Msgs \ overtaken :
          /\ Dispatched(m) <= 1
          /\ seen[m] = "stored" => Dispatched(m) = 0
          /\ \A s \in Sockets : Starts(s) /\ MsgOf(s) = m => Dispatched(m) = 0

(* What the client may take for an answer.                                  *)
Answered(m) == Dispatched(m) > 0 \/ m \in cut \cup vouched

Answers ==
    /\ \A m \in Msgs : seen[m] = "scheduled" => Answered(m)
    /\ \A frame \in wire : frame.status # "rejected" => Answered(frame.msg)
    /\ \A m \in typed : m \in Pending \/ m \in refused \/ Answered(m)

SendInv ==
    /\ SendTypeOK /\ Kept /\ StoredOnce
    /\ RowsBehind /\ OneStarter /\ Answers

-----------------------------------------------------------------------------
(* Facts that several steps need *)

HandTypes == hand \in [Sockets -> {Free} \cup [step : Steps, msg : typed]]

LEMMA CountsAreNat ==
    ASSUME SendTypeOK, NEW m \in Msgs
    PROVE  toPublish[m] \in Nat /\ toRun[m] \in Nat /\ ran[m] \in Nat
BY DEF SendTypeOK

LEMMA DispatchedIsNat ==
    ASSUME SendTypeOK, NEW m \in Msgs PROVE Dispatched(m) \in Nat
BY DEF SendTypeOK, Dispatched

\* A handler that has a frame has a message.
LEMMA AtHand ==
    ASSUME SendTypeOK, NEW s \in Sockets, hand[s].step # "receive"
    PROVE  /\ hand[s] \in [step : Steps, msg : typed]
           /\ MsgOf(s) \in typed /\ MsgOf(s) \in Msgs
BY DEF SendTypeOK, Free, MsgOf

\* A handler that goes on keeps its message, and leaves the others alone.
LEMMA GoesOn ==
    ASSUME SendTypeOK, NEW s \in Sockets, hand[s].step # "receive", NEW st \in Steps,
       Goes(s, st),
           typed' = typed
    PROVE  /\ HandTypes'
           /\ hand'[s].step = st /\ hand'[s].msg = hand[s].msg
           /\ \A t \in Sockets \ {s} : hand'[t] = hand[t]
BY AtHand DEF SendTypeOK, Goes, HandTypes

LEMMA IsDone ==
    ASSUME SendTypeOK, NEW s \in Sockets, Done(s), typed' = typed
    PROVE  /\ HandTypes'
           /\ hand'[s] = Free /\ hand'[s].step = "receive"
           /\ \A t \in Sockets \ {s} : hand'[t] = hand[t]
BY DEF SendTypeOK, Done, HandTypes, Free

\* A message is in the outbox when it stands at some place of it.
LEMMA WithoutOne ==
    ASSUME NEW S, outbox \in Seq(S), NEW m
    PROVE  /\ OutboxWithout(m) \in Seq(S)
           /\ Pending \ {m} \subseteq {OutboxWithout(m)[i] : i \in 1 .. Len(OutboxWithout(m))}
<1>1. CASE m \notin Pending
  BY <1>1 DEF OutboxWithout, Pending
<1>2. CASE m \in Pending
  <2> DEFINE k == CHOOSE i \in 1 .. Len(outbox) : outbox[i] = m
             front == SubSeq(outbox, 1, k - 1)
             back == SubSeq(outbox, k + 1, Len(outbox))
  <2>1. k \in 1 .. Len(outbox) /\ outbox[k] = m /\ Len(outbox) \in Nat
    BY <1>2 DEF Pending
  <2>2. OutboxWithout(m) = front \o back
    BY <1>2 DEF OutboxWithout
  <2>3. /\ front \in Seq(S) /\ Len(front) = k - 1
        /\ \A i \in 1 .. k - 1 : front[i] = outbox[i]
    BY <2>1, SubSeqProperties
  <2>4. /\ back \in Seq(S) /\ Len(back) = Len(outbox) - k
        /\ \A i \in 1 .. Len(outbox) - k : back[i] = outbox[k + i]
    BY <2>1, SubSeqProperties
  <2> HIDE DEF k, front, back
  <2> DEFINE rest == front \o back
  <2>5. /\ rest \in Seq(S) /\ Len(rest) = Len(front) + Len(back)
        /\ \A i \in 1 .. Len(front) + Len(back) :
              rest[i] = IF i <= Len(front) THEN front[i] ELSE back[i - Len(front)]
    BY <2>3, <2>4, ConcatProperties
  <2> HIDE DEF rest
  <2>6. ASSUME NEW j \in 1 .. Len(outbox), outbox[j] # m
        PROVE  \E i \in 1 .. Len(rest) : rest[i] = outbox[j]
    <3>1. CASE j < k
      <4>1. j \in 1 .. Len(front) + Len(back) /\ j <= Len(front)
        BY <2>1, <2>3, <2>4, <3>1
      <4>2. rest[j] = front[j] /\ front[j] = outbox[j]
        BY <2>1, <2>3, <2>5, <3>1, <4>1
      <4> QED
        BY <2>5, <4>1, <4>2
    <3>2. CASE j > k
      <4> DEFINE i == j - 1
      <4>1. i \in 1 .. Len(front) + Len(back) /\ ~(i <= Len(front))
        BY <2>1, <2>3, <2>4, <3>2
      <4>2. i - Len(front) \in 1 .. Len(outbox) - k /\ k + (i - Len(front)) = j
        BY <2>1, <2>3, <3>2
      <4>3. rest[i] = back[i - Len(front)]
        BY <2>5, <4>1
      <4>4. back[i - Len(front)] = outbox[j]
        BY <2>4, <4>2
      <4> QED
        BY <2>5, <4>1, <4>3, <4>4
    <3> QED
      BY <2>1, <2>6, <3>1, <3>2
  <2>7. OutboxWithout(m) = rest
    BY <2>2 DEF rest
  <2> QED
    BY <2>5, <2>6, <2>7 DEF Pending
<1> QED
  BY <1>1, <1>2

\* What is heard of one message takes no other out of the outbox.
LEMMA PendingWithout ==
    ASSUME SendTypeOK, NEW m,
       outbox' = OutboxWithout(m) PROVE Pending \ {m} \subseteq Pending'
<1>1. outbox \in Seq(typed)
  BY DEF SendTypeOK
<1>2. Pending \ {m} \subseteq {OutboxWithout(m)[i] : i \in 1 .. Len(OutboxWithout(m))}
  BY <1>1, WithoutOne
<1>3. Pending' = {outbox'[i] : i \in 1 .. Len(outbox')}
  BY DEF Pending
<1> QED
  BY <1>2, <1>3
\* A message that is put into the outbox does not push another out.
LEMMA PendingAppend ==
    ASSUME NEW S, outbox \in Seq(S), NEW m, outbox' = Append(outbox, m)
    PROVE  Pending \subseteq Pending' /\ m \in Pending'
<1>1. outbox \in Seq(S \cup {m})
  BY SeqMonotonic
<1>2. /\ Len(outbox') = Len(outbox) + 1 /\ Len(outbox) \in Nat
      /\ \A i \in 1 .. Len(outbox) : outbox'[i] = outbox[i]
      /\ outbox'[Len(outbox) + 1] = m
  BY <1>1, AppendProperties, LenProperties
<1>3. m \in Pending'
  BY <1>2 DEF Pending
<1>4. ASSUME NEW i \in 1 .. Len(outbox) PROVE outbox[i] \in Pending'
  <2>1. i \in 1 .. Len(outbox') /\ outbox'[i] = outbox[i]
    BY <1>2
  <2> QED
    BY <2>1 DEF Pending
<1> QED
  BY <1>3, <1>4 DEF Pending

-----------------------------------------------------------------------------
(* The client                                                               *)

LEMMA TypeKeeps ==
    ASSUME NEW m \in Msgs, SendInv, Type(m) PROVE SendInv'
<1> USE SendBounds DEF SendInv, Type, clientState, taskState, serverState,
   history
<1>1. SendTypeOK'
  <2>1. typed \subseteq typed' /\ typed' \subseteq Msgs /\ m \in typed'
    BY DEF SendTypeOK
  <2>2. \A q \in Seq(typed) : q \in Seq(typed')
    BY <2>1, SeqMonotonic
  <2>3. outbox' \in Seq(typed')
    BY <2>1, <2>2, AppendProperties DEF SendTypeOK
  <2>4. \A s \in Sockets : Append(inbox[s], m) \in Seq(typed')
    BY <2>1, <2>2, AppendProperties DEF SendTypeOK
  <2>5. inbox' \in [Sockets -> Seq(typed')]
    BY <2>2, <2>4 DEF SendTypeOK
  <2>6. /\ hand' \in [Sockets -> {Free} \cup [step : Steps, msg : typed']]
        /\ wire' \subseteq [msg : typed', status : {"ok", "rejected", "message"}]
    BY <2>1 DEF SendTypeOK
  <2> QED
    BY <2>1, <2>3, <2>5, <2>6 DEF SendTypeOK
<1>2. Kept' /\ StoredOnce'
  <2>1. Pending \subseteq Pending' /\ m \in Pending'
    BY PendingAppend DEF SendTypeOK
  <2> QED
    BY <2>1 DEF SendTypeOK, Kept, StoredOnce
<1>3. RowsBehind'
  BY DEF SendTypeOK, RowsBehind, Dispatched, MsgOf, Free, Ok,
     Rejected, Echo
<1>4. OneStarter'
  BY DEF SendTypeOK, OneStarter, Starts, RowsBehind, Dispatched, MsgOf, Free
<1>5. Answers'
  <2>1. Pending \subseteq Pending' /\ m \in Pending'
    BY PendingAppend DEF SendTypeOK
  <2> QED
    BY <2>1 DEF SendTypeOK, Answers, Answered, Dispatched
<1>6. QED
  BY <1>1, <1>2, <1>3, <1>4, <1>5

LEMMA OpenKeeps ==
    ASSUME SendInv, Open PROVE SendInv'
<1> USE SendBounds DEF SendInv, Open, clientState, taskState, serverState,
   history
<1>1. SendTypeOK'
  <2>1. conn' \in Sockets /\ opened' \in 0 .. MaxSockets /\ conn' = opened'
    BY DEF SendTypeOK, Sockets
  <2>2. inbox' \in [Sockets -> Seq(typed)]
    BY <2>1 DEF SendTypeOK, Replay
  <2> QED
    BY <2>1, <2>2 DEF SendTypeOK
<1>2. Kept' /\ StoredOnce'
  BY DEF SendTypeOK, Kept, StoredOnce, Pending, RowsBehind
<1>3. RowsBehind'
  BY DEF SendTypeOK, RowsBehind, Dispatched, MsgOf, Free, Ok,
     Rejected, Echo
<1>4. OneStarter'
  BY DEF SendTypeOK, OneStarter, Starts, RowsBehind, Dispatched, MsgOf, Free
<1>5. Answers'
  BY DEF SendTypeOK, Answers, Answered, RowsBehind, Dispatched, Pending, Ok,
     Rejected, Echo
<1>6. QED
  BY <1>1, <1>2, <1>3, <1>4, <1>5

LEMMA RetryKeeps ==
    ASSUME NEW m \in Msgs, SendInv, Retry(m) PROVE SendInv'
<1> USE SendBounds DEF SendInv, Retry, clientState, taskState, serverState,
   history
<1>1. SendTypeOK'
  <2>1. m \in typed
    <3>1. PICK i \in 1 .. Len(outbox) : outbox[i] = m
      BY DEF Pending
    <3> QED
      BY <3>1, ElementOfSeq DEF SendTypeOK
  <2>2. inbox' \in [Sockets -> Seq(typed)]
    BY <2>1, AppendProperties DEF SendTypeOK
  <2>3. retries' \in 0 .. MaxRetries
    BY DEF SendTypeOK
  <2> QED
    BY <2>2, <2>3 DEF SendTypeOK
<1>2. Kept' /\ StoredOnce'
  BY DEF SendTypeOK, Kept, StoredOnce, Pending, RowsBehind
<1>3. RowsBehind'
  BY DEF SendTypeOK, RowsBehind, Dispatched, MsgOf, Free, Ok,
     Rejected, Echo
<1>4. OneStarter'
  BY DEF SendTypeOK, OneStarter, Starts, RowsBehind, Dispatched, MsgOf, Free
<1>5. Answers'
  BY DEF SendTypeOK, Answers, Answered, RowsBehind, Dispatched, Pending, Ok,
     Rejected, Echo
<1>6. QED
  BY <1>1, <1>2, <1>3, <1>4, <1>5

LEMMA LeaveKeeps ==
    ASSUME SendInv, Leave PROVE SendInv'
<1> USE SendBounds DEF SendInv, Leave, clientState, taskState, serverState,
   history
<1>1. SendTypeOK'
  BY DEF SendTypeOK, Sockets, Steps, Ok, Rejected, Echo, Free
<1>2. Kept' /\ StoredOnce'
  BY DEF SendTypeOK, Kept, StoredOnce, Pending, RowsBehind
<1>3. RowsBehind'
  BY DEF SendTypeOK, RowsBehind, Dispatched, MsgOf, Free, Ok,
     Rejected, Echo
<1>4. OneStarter'
  BY DEF SendTypeOK, OneStarter, Starts, RowsBehind, Dispatched, MsgOf, Free
<1>5. Answers'
  BY DEF SendTypeOK, Answers, Answered, RowsBehind, Dispatched, Pending, Ok,
     Rejected, Echo
<1>6. QED
  BY <1>1, <1>2, <1>3, <1>4, <1>5

\* What is heard as confirmed has its row and its answer.
LEMMA HearKeeps ==
    ASSUME NEW frame \in wire, SendInv, Hear(frame) PROVE SendInv'
<1> USE SendBounds DEF SendInv, Hear, clientState, taskState, serverState,
   history
<1>1. SendTypeOK'
  <2>1. outbox' \in Seq(typed)
    BY WithoutOne DEF SendTypeOK
  <2>2. frame.msg \in typed
    BY DEF SendTypeOK
  <2> QED
    BY <2>1, <2>2 DEF SendTypeOK
<1>2. Kept' /\ StoredOnce'
  <2> PICK m \in typed : m = frame.msg
    BY DEF SendTypeOK
  <2>1. Pending \ {m} \subseteq Pending'
    <3>1. outbox' = OutboxWithout(m)
      OBVIOUS
    <3> QED
      BY <3>1, PendingWithout
  <2>2. m \in Pending => m \in Pending' \/ m \in refused' \/ rows[m] > 0
    BY DEF RowsBehind, SendTypeOK
  <2> QED
    BY <2>1, <2>2 DEF SendTypeOK, Kept, StoredOnce
<1>3. RowsBehind'
  BY DEF SendTypeOK, RowsBehind, Dispatched, MsgOf, Free, Ok,
     Rejected, Echo
<1>4. OneStarter'
  BY DEF SendTypeOK, OneStarter, Starts, RowsBehind, Dispatched, MsgOf, Free
<1>5. Answers'
  <2> PICK m \in typed : m = frame.msg
    BY DEF SendTypeOK
  <2>1. Pending \ {m} \subseteq Pending'
    <3>1. outbox' = OutboxWithout(m)
      OBVIOUS
    <3> QED
      BY <3>1, PendingWithout
  <2>2. m \in Pending => m \in Pending' \/ m \in refused' \/ Answered(m)
    BY DEF Answers, SendTypeOK
  <2> QED
    BY <2>1, <2>2 DEF SendTypeOK, Answers, Answered, Dispatched
<1>6. QED
  BY <1>1, <1>2, <1>3, <1>4, <1>5

-----------------------------------------------------------------------------
(* The receive loop and the handler                                         *)

LEMMA DropKeeps ==
    ASSUME NEW s \in Sockets, SendInv, Drop(s) PROVE SendInv'
<1> USE SendBounds DEF SendInv, Drop, At, MsgOf, Free,
    clientState, taskState, serverState, history
<1>1. SendTypeOK'
  <2>1. inbox' \in [Sockets -> Seq(typed)]
    BY EmptySeq DEF SendTypeOK
  <2> QED
    BY <2>1 DEF SendTypeOK
<1>2. Kept' /\ StoredOnce'
  BY DEF SendTypeOK, Kept, StoredOnce, Pending, RowsBehind
<1>3. RowsBehind'
  BY DEF SendTypeOK, RowsBehind, Dispatched, MsgOf, Free, Ok,
     Rejected, Echo
<1>4. OneStarter'
  BY DEF SendTypeOK, OneStarter, Starts, RowsBehind, Dispatched, MsgOf, Free
<1>5. Answers'
  BY DEF SendTypeOK, Answers, Answered, RowsBehind, Dispatched, Pending, Ok,
     Rejected, Echo
<1>6. QED
  BY <1>1, <1>2, <1>3, <1>4, <1>5

LEMMA TakeKeeps ==
    ASSUME NEW s \in Sockets, SendInv, Take(s) PROVE SendInv'
<1> USE SendBounds DEF SendInv, Take, At, MsgOf, Free,
    clientState, taskState, serverState, history
<1>1. SendTypeOK'
  <2>1. Head(inbox[s]) \in typed /\ Tail(inbox[s]) \in Seq(typed)
    BY HeadTailProperties DEF SendTypeOK
  <2>2. inbox' \in [Sockets -> Seq(typed)]
    BY <2>1 DEF SendTypeOK
  <2>3. HandTypes'
    BY <2>1 DEF SendTypeOK, HandTypes, Steps
  <2> QED
    BY <2>2, <2>3 DEF SendTypeOK, HandTypes
<1>2. Kept' /\ StoredOnce'
  BY DEF SendTypeOK, Kept, StoredOnce, Pending, RowsBehind
<1>3. RowsBehind'
  <2>1. \A t \in Sockets \ {s} : hand'[t] = hand[t]
    BY DEF SendTypeOK
  <2>2. /\ hand'[s].step \in {"ask", "reack"} /\ hand'[s].msg \in Msgs
        /\ hand'[s].step = "reack" => seen[hand'[s].msg] # "no"
    BY HeadTailProperties DEF SendTypeOK
  <2>3. UNCHANGED <<seen, rows, typed, wire, toPublish, toRun, ran>>
    OBVIOUS
  <2>4. \A t \in Sockets :
          hand'[t].step \in {"reack", "vouch", "stored", "title", "ack"} => rows[hand'[t].msg] > 0
    BY <2>1, <2>2 DEF RowsBehind, MsgOf
  <2> QED
    BY ONLY <2>1, <2>2, <2>3, <2>4, RowsBehind DEF RowsBehind, Dispatched, MsgOf
<1>4. OneStarter'
  BY DEF SendTypeOK, OneStarter, Starts, RowsBehind, Dispatched, MsgOf, Free
<1>5. Answers'
  BY DEF SendTypeOK, Answers, Answered, RowsBehind, Dispatched, Pending, Ok,
     Rejected, Echo
<1>6. QED
  BY <1>1, <1>2, <1>3, <1>4, <1>5

\* A resend dispatches the turn of a stored entry only, and once.
LEMMA ReAckKeeps ==
    ASSUME NEW s \in Sockets, SendInv, ReAck(s) PROVE SendInv'
<1> USE SendBounds DEF SendInv
<1>1. hand[s].step = "reack" /\ MsgOf(s) \in typed /\ MsgOf(s) \in Msgs
  BY AtHand DEF ReAck, At
<1> PICK m \in Msgs : m = MsgOf(s) /\ m \in typed
  BY <1>1
<1>2. UNCHANGED <<clientState, inbox, toPublish, ran, rows, faults, cut, vouched>>
  BY DEF ReAck
<1>3. wire' \subseteq wire \cup {Ok(m)}
  BY DEF ReAck, Tell
<1>4. /\ HandTypes' /\ hand'[s] = Free /\ hand'[s].step = "receive"
      /\ \A t \in Sockets \ {s} : hand'[t] = hand[t]
  BY <1>2, IsDone DEF ReAck, clientState
<1>5. /\ \A t \in Sockets \ {s} : (Starts(t)' <=> Starts(t)) /\ MsgOf(t)' = MsgOf(t)
      /\ ~Starts(s)'
  BY <1>4 DEF Starts, MsgOf
<1>6. rows[m] > 0
  BY <1>1 DEF RowsBehind
<1>7. Kept' /\ StoredOnce'
  BY <1>2 DEF Kept, StoredOnce, Pending, clientState
<1>8. wire' \subseteq [msg : typed, status : {"ok", "rejected", "message"}]
  BY <1>3 DEF SendTypeOK, Ok
<1>9. \A t \in Sockets : hand'[t].step \in {"reack", "vouch", "stored", "title", "ack"}
         => rows[hand'[t].msg] > 0
  BY <1>4 DEF RowsBehind, MsgOf
<1>10. \A t \in Sockets : hand'[t].step = "reack" =>
                hand'[t].msg \in Msgs /\ seen[hand'[t].msg] # "no"
  BY <1>4, AtHand DEF RowsBehind, MsgOf
<1>11. \A frame \in wire' : frame.status # "rejected" => rows[frame.msg] > 0
  BY <1>3, <1>6 DEF RowsBehind, Ok
<1>12. CASE seen[m] = "stored"
  <2>1. /\ seen' = [seen EXCEPT ![m] = "scheduled"]
        /\ toRun' = [toRun EXCEPT ![m] = @ + 1]
        /\ overtaken' = IF Underway(m) THEN overtaken \cup {m} ELSE overtaken
    BY <1>12 DEF ReAck, MarkResend
  <2>2. toRun' \in [Msgs -> Nat] /\ toRun'[m] = toRun[m] + 1
        /\ \A n \in Msgs \ {m} : toRun'[n] = toRun[n]
    BY <2>1 DEF SendTypeOK
  <2>3. SendTypeOK'
    BY <1>2, <1>4, <1>8, <2>1, <2>2 DEF SendTypeOK, HandTypes, clientState
  <2>4. Dispatched(m)' = Dispatched(m) + 1 /\ Dispatched(m) \in Nat
        /\ \A n \in Msgs \ {m} : Dispatched(n)' = Dispatched(n)
    <3>1. toPublish[m] \in Nat /\ toRun[m] \in Nat /\ ran[m] \in Nat
      BY DEF SendTypeOK
    <3>2. toPublish' = toPublish /\ ran' = ran
      BY <1>2
    <3> QED
      BY <2>2, <3>1, <3>2 DEF Dispatched
  <2>5. RowsBehind'
    <3>1. \A n \in Msgs \ {m} : seen'[n] = seen[n]
      BY <2>1 DEF SendTypeOK
    <3>2. \A n \in Msgs : rows[n] > 0 => n \in typed
      BY DEF RowsBehind
    <3>3. \A n \in Msgs : seen'[n] # "no" \/ Dispatched(n)' > 0 => rows[n] > 0
      BY <1>6, <2>4, <3>1 DEF RowsBehind
    <3>4. \A t \in Sockets : hand'[t].step = "reack" => seen'[hand'[t].msg] # "no"
      BY <1>10, <2>1 DEF SendTypeOK
    <3> QED
      BY <1>2, <1>9, <1>11, <3>2, <3>3, <3>4 DEF RowsBehind, MsgOf, clientState
  <2>6. OneStarter'
    <3>1. ASSUME NEW n \in Msgs \ overtaken', n = m
          PROVE  /\ Dispatched(n) = 0 /\ seen'[n] # "stored"
                 /\ \A t \in Sockets : Starts(t)' => MsgOf(t)' # n
      <4>1. Dispatched(m) = 0 /\ ~Underway(m)
        BY <1>12, <2>1, <3>1 DEF OneStarter
      <4>2. \A t \in Sockets : Starts(t) => MsgOf(t) # m
        BY <4>1 DEF Starts, Underway, Free
      <4> QED
        BY <1>5, <2>1, <3>1, <4>1, <4>2 DEF SendTypeOK
    <3>2. ASSUME NEW n \in Msgs \ overtaken', n # m
          PROVE  /\ Dispatched(n)' <= 1
                 /\ seen'[n] = "stored" => Dispatched(n)' = 0
                 /\ \A t \in Sockets : Starts(t)' /\ MsgOf(t)' = n => Dispatched(n)' = 0
      <4>1. n \in Msgs \ overtaken /\ seen'[n] = seen[n] /\ Dispatched(n)' = Dispatched(n)
        BY <2>1, <2>4, <3>2 DEF SendTypeOK
      <4>2. /\ Dispatched(n) <= 1 /\ (seen[n] = "stored" => Dispatched(n) = 0)
            /\ \A t \in Sockets : Starts(t) /\ MsgOf(t) = n => Dispatched(n) = 0
        BY <4>1 DEF OneStarter
      <4> QED
        BY <1>5, <4>1, <4>2
    <3>3. ASSUME NEW n \in Msgs \ overtaken'
          PROVE  /\ Dispatched(n)' <= 1
                 /\ seen'[n] = "stored" => Dispatched(n)' = 0
                 /\ \A t \in Sockets : Starts(t)' /\ MsgOf(t)' = n => Dispatched(n)' = 0
      BY <2>4, <3>1, <3>2
    <3> QED
      BY <1>5, <3>3 DEF OneStarter
  <2>7. Answers'
    <3>1. Answered(m)' /\ \A n \in Msgs : Answered(n) => Answered(n)'
      BY <1>2, <2>4 DEF Answered
    <3>2. \A n \in Msgs : seen'[n] = "scheduled" => Answered(n)'
      BY <2>1, <3>1 DEF Answers, SendTypeOK
    <3>3. \A frame \in wire' : frame.status # "rejected" => Answered(frame.msg)'
      <4>1. ASSUME NEW frame \in wire, frame.status # "rejected"
            PROVE  frame.msg \in Msgs /\ Answered(frame.msg)
        BY <4>1 DEF Answers, SendTypeOK
      <4>2. Ok(m).msg = m
        BY DEF Ok
      <4> QED
        BY <1>3, <3>1, <4>1, <4>2
    <3> QED
      BY <1>2, <3>1, <3>2, <3>3 DEF Answers, Pending, SendTypeOK, clientState
  <2> QED
    BY <1>7, <2>3, <2>5, <2>6, <2>7
<1>13. CASE seen[m] # "stored"
  <2>1. UNCHANGED <<seen, toRun, overtaken>>
    BY <1>13 DEF ReAck
  <2>2. SendTypeOK'
    BY <1>2, <1>4, <1>8, <2>1 DEF SendTypeOK, HandTypes, clientState
  <2>3. RowsBehind'
    BY <1>2, <1>9, <1>11, <1>10, <2>1 DEF RowsBehind, Dispatched, MsgOf,
       clientState
  <2>4. OneStarter'
    BY <1>2, <1>5, <2>1 DEF OneStarter, Dispatched
  <2>5. Answers'
    <3>1. seen[m] = "scheduled"
      BY <1>1, <1>13 DEF RowsBehind, SendTypeOK
    <3>2. \A n : Answered(n)' <=> Answered(n)
      BY <1>2, <2>1 DEF Answered, Dispatched
    <3>3. \A frame \in wire' : frame.status # "rejected" => Answered(frame.msg)
      BY <1>3, <3>1 DEF Answers, Ok
    <3> QED
      BY <1>2, <2>1, <3>2, <3>3 DEF Answers, Pending, clientState
  <2> QED
    BY <1>7, <2>2, <2>3, <2>4, <2>5
<1> QED
  BY <1>12, <1>13

LEMMA TypingKeeps ==
    ASSUME NEW s \in Sockets, SendInv, LookUp(s) PROVE SendInv'
<1> USE SendBounds DEF SendInv, LookUp, At, MsgOf, Free, Goes,
    clientState, taskState, serverState, history
<1>1. SendTypeOK'
  <2>1. HandTypes'
    BY AtHand, GoesOn DEF SendTypeOK, Steps
  <2>2. QED
    BY <2>1, AtHand DEF SendTypeOK, HandTypes, Sockets
<1>2. Kept' /\ StoredOnce'
  BY DEF SendTypeOK, Kept, StoredOnce, Pending, RowsBehind
<1>3. RowsBehind'
  BY DEF SendTypeOK, RowsBehind, Dispatched, MsgOf, Free, Ok,
     Rejected, Echo
<1>4. OneStarter'
  BY DEF SendTypeOK, OneStarter, Starts, RowsBehind, Dispatched, MsgOf, Free
<1>5. Answers'
  BY DEF SendTypeOK, Answers, Answered, RowsBehind, Dispatched, Pending, Ok,
     Rejected, Echo
<1>6. QED
  BY <1>1, <1>2, <1>3, <1>4, <1>5

LEMMA VouchKeeps ==
    ASSUME NEW s \in Sockets, SendInv, Vouch(s) PROVE SendInv'
<1> USE SendBounds DEF SendInv, Vouch, At, MsgOf, Free, Tell, Done,
    clientState, taskState, serverState, history
<1>1. SendTypeOK'
  <2>1. HandTypes'
    BY IsDone DEF SendTypeOK
  <2>2. wire' \subseteq [msg : typed, status : {"ok", "rejected", "message"}]
    <3> PICK m \in typed : m = MsgOf(s)
      BY AtHand
    <3>1. wire' \subseteq wire \cup {Ok(m)}
      OBVIOUS
    <3>2. Ok(m) \in [msg : typed, status : {"ok", "rejected", "message"}]
      BY DEF Ok
    <3>3. wire \subseteq [msg : typed, status : {"ok", "rejected", "message"}]
      BY DEF SendTypeOK
    <3> QED
      BY <3>1, <3>2, <3>3
  <2>3. QED
    <3> PICK m \in Msgs : m = MsgOf(s)
      BY AtHand
    <3>1. vouched' \subseteq Msgs
      BY DEF SendTypeOK
    <3> QED
      BY <2>1, <2>2, <3>1 DEF SendTypeOK, HandTypes
<1>2. Kept' /\ StoredOnce'
  BY DEF SendTypeOK, Kept, StoredOnce, Pending, RowsBehind
<1>3. RowsBehind'
  BY DEF SendTypeOK, RowsBehind, Dispatched, MsgOf, Free, Ok,
     Rejected, Echo
<1>4. OneStarter'
  BY DEF SendTypeOK, OneStarter, Starts, RowsBehind, Dispatched, MsgOf, Free
<1>5. Answers'
  <2> PICK m \in Msgs : m = MsgOf(s)
    BY AtHand
  <2>1. /\ Dispatched(m) \in Nat
        /\ UNCHANGED <<toPublish, toRun, ran, seen, cut, typed, outbox, refused>>
    BY DispatchedIsNat
  <2>2. vouched' = IF Dispatched(m) = 0 THEN vouched \cup {m} ELSE vouched
    OBVIOUS
  <2>3. wire' \subseteq wire \cup {Ok(m)}
    OBVIOUS
  <2>4. Answered(m)' /\ \A n \in Msgs : Answered(n) => Answered(n)'
    BY <2>1, <2>2 DEF Answered, Dispatched
  <2>5. \A frame \in wire' : frame.status # "rejected" => Answered(frame.msg)'
    BY <2>3, <2>4 DEF Answers, Ok, SendTypeOK
  <2>6. QED
    BY <2>1, <2>4, <2>5 DEF Answers, Pending, SendTypeOK
<1>6. QED
  BY <1>1, <1>2, <1>3, <1>4, <1>5

LEMMA TakenInKeeps ==
    ASSUME NEW s \in Sockets, SendInv, Admit(s) PROVE SendInv'
<1> USE SendBounds DEF SendInv, Admit, At, MsgOf, Free, Goes,
    clientState, taskState, serverState, history
<1>1. SendTypeOK'
  <2>1. HandTypes'
    BY AtHand, GoesOn DEF SendTypeOK, Steps
  <2>2. QED
    BY <2>1, AtHand DEF SendTypeOK, HandTypes, Sockets
<1>2. Kept' /\ StoredOnce'
  BY DEF SendTypeOK, Kept, StoredOnce, Pending, RowsBehind
<1>3. RowsBehind'
  BY DEF SendTypeOK, RowsBehind, Dispatched, MsgOf, Free, Ok,
     Rejected, Echo
<1>4. OneStarter'
  BY DEF SendTypeOK, OneStarter, Starts, RowsBehind, Dispatched, MsgOf, Free
<1>5. Answers'
  BY DEF SendTypeOK, Answers, Answered, RowsBehind, Dispatched, Pending, Ok,
     Rejected, Echo
<1>6. QED
  BY <1>1, <1>2, <1>3, <1>4, <1>5

LEMMA TurndownKeeps ==
    ASSUME NEW s \in Sockets, SendInv, Turndown(s) PROVE SendInv'
<1> USE SendBounds DEF SendInv, Turndown, At, MsgOf, Free, Goes,
   Fault,
    clientState, taskState, serverState, history
<1>1. SendTypeOK'
  <2>1. HandTypes'
    BY AtHand, GoesOn DEF SendTypeOK, Steps
  <2>2. faults' \in 0 .. MaxFaults
    BY DEF SendTypeOK
  <2>3. QED
    BY <2>1, <2>2 DEF SendTypeOK, HandTypes
<1>2. Kept' /\ StoredOnce'
  BY DEF SendTypeOK, Kept, StoredOnce, Pending, RowsBehind
<1>3. RowsBehind'
  BY DEF SendTypeOK, RowsBehind, Dispatched, MsgOf, Free, Ok,
     Rejected, Echo
<1>4. OneStarter'
  BY DEF SendTypeOK, OneStarter, Starts, RowsBehind, Dispatched, MsgOf, Free
<1>5. Answers'
  BY DEF SendTypeOK, Answers, Answered, RowsBehind, Dispatched, Pending, Ok,
     Rejected, Echo
<1>6. QED
  BY <1>1, <1>2, <1>3, <1>4, <1>5

LEMMA RejectKeeps ==
    ASSUME NEW s \in Sockets, SendInv, Reject(s) PROVE SendInv'
<1> USE SendBounds DEF SendInv, Reject, At, MsgOf, Free, Tell,
   Done,
    clientState, taskState, serverState, history
<1>1. SendTypeOK'
  <2>1. HandTypes'
    BY IsDone DEF SendTypeOK
  <2>2. wire' \subseteq [msg : typed, status : {"ok", "rejected", "message"}]
    <3>1. wire' \subseteq wire \cup {[msg |-> MsgOf(s), status |-> "rejected"]}
      BY DEF Rejected
    <3> QED
      BY <3>1, AtHand DEF SendTypeOK
  <2> QED
    BY <2>1, <2>2 DEF SendTypeOK, HandTypes
<1>2. Kept' /\ StoredOnce'
  BY DEF SendTypeOK, Kept, StoredOnce, Pending, RowsBehind
<1>3. RowsBehind'
  BY DEF SendTypeOK, RowsBehind, Dispatched, MsgOf, Free, Ok,
     Rejected, Echo
<1>4. OneStarter'
  BY DEF SendTypeOK, OneStarter, Starts, RowsBehind, Dispatched, MsgOf, Free
<1>5. Answers'
  BY DEF SendTypeOK, Answers, Answered, RowsBehind, Dispatched, Pending, Ok,
     Rejected, Echo
<1>6. QED
  BY <1>1, <1>2, <1>3, <1>4, <1>5

\* The row is new, so no other handler is on its way with this message.
LEMMA StoreKeeps ==
    ASSUME NEW s \in Sockets, SendInv, Store(s) PROVE SendInv'
<1> DEFINE m == MsgOf(s)
<1> USE SendBounds DEF SendInv
<1>1. hand[s].step = "store" /\ m \in typed /\ m \in Msgs
  BY AtHand DEF Store, At
<1>2. UNCHANGED <<clientState, wire, inbox, seen, taskState, faults, history>>
  BY DEF Store
<1>3. CASE Clash(m)
  <2>1. Goes(s, "vouch") /\ rows' = rows /\ rows[m] > 0
    BY <1>3 DEF Store, Clash
  <2>2. HandTypes' /\ hand'[s].step = "vouch" /\ hand'[s].msg = m
    BY <1>1, <1>2, <2>1, GoesOn DEF Steps, clientState, MsgOf
  <2>3. \A t \in Sockets \ {s} : hand'[t] = hand[t]
    BY <1>1, <1>2, <2>1, GoesOn DEF Steps, clientState
  <2>4. SendTypeOK'
    BY <1>2, <2>1, <2>2 DEF SendTypeOK, HandTypes, clientState, serverState,
       taskState, history
  <2>5. Kept' /\ StoredOnce' /\ Answers'
    BY <1>2, <2>1 DEF Kept, StoredOnce, Answers, Answered, Dispatched,
       Pending,
       clientState, taskState, history
  <2>6. RowsBehind'
    BY <1>2, <2>1, <2>2, <2>3 DEF RowsBehind, Dispatched, MsgOf, clientState,
       taskState
  <2>7. OneStarter'
    BY <1>2, <2>2, <2>3 DEF OneStarter, Starts, Dispatched, MsgOf, taskState,
       history
  <2> QED
    BY <2>4, <2>5, <2>6, <2>7
<1>4. CASE ~Clash(m)
  <2>1. Goes(s, "stored") /\ rows' = [rows EXCEPT ![m] = @ + 1] /\ rows[m] = 0
    BY <1>1, <1>4 DEF Store, Clash, SendTypeOK
  <2>2. HandTypes' /\ hand'[s].step = "stored" /\ hand'[s].msg = m
    BY <1>1, <1>2, <2>1, GoesOn DEF Steps, clientState, MsgOf
  <2>3. \A t \in Sockets \ {s} : hand'[t] = hand[t]
    BY <1>1, <1>2, <2>1, GoesOn DEF Steps, clientState
  <2>4. /\ rows' \in [Msgs -> Nat] /\ rows'[m] = 1
        /\ \A n \in Msgs \ {m} : rows'[n] = rows[n]
    BY <1>1, <2>1 DEF SendTypeOK
  <2>5. Dispatched(m) = 0
    BY <1>1, <2>1, DispatchedIsNat DEF RowsBehind
  <2>6. SendTypeOK'
    BY <1>2, <2>2, <2>4 DEF SendTypeOK, HandTypes, clientState, taskState, history
  <2>7. Kept' /\ StoredOnce' /\ Answers'
    <3>1. StoredOnce'
      BY <2>4 DEF StoredOnce
    <3>2. Kept'
      <4>1. typed' = typed /\ outbox' = outbox /\ refused' = refused
        BY <1>2 DEF clientState
      <4>2. \A n \in Msgs : rows[n] > 0 => rows'[n] > 0
        BY <2>1, <2>4
      <4> QED
        BY <4>1, <4>2 DEF Kept, Pending, SendTypeOK
    <3>3. Answers'
      BY <1>2 DEF Answers, Answered, Dispatched, Pending, clientState,
         taskState, history
    <3> QED
      BY <3>1, <3>2, <3>3
  <2>8. RowsBehind'
    <3>1. \A n \in Msgs : rows[n] > 0 => rows'[n] > 0
      BY <2>1, <2>4
    <3>2. \A n \in Msgs : rows'[n] > 0 => n \in typed
      BY <1>1, <2>4 DEF RowsBehind
    <3>3. \A t \in Sockets :
            hand'[t].step \in {"reack", "vouch", "stored", "title", "ack"}
               => rows'[hand'[t].msg] > 0
      <4>1. ASSUME NEW t \in Sockets \ {s},
                   hand[t].step \in {"reack", "vouch", "stored", "title", "ack"}
            PROVE  rows'[hand[t].msg] > 0
        BY <3>1, <4>1, AtHand DEF RowsBehind, MsgOf
      <4> QED
        BY <2>2, <2>3, <2>4, <4>1
    <3>5. \A t \in Sockets : hand'[t].step = "reack" => seen[hand'[t].msg] # "no"
      BY <2>2, <2>3 DEF RowsBehind, MsgOf
    <3>4. \A frame \in wire : frame.status # "rejected" => rows'[frame.msg] > 0
      <4>1. \A frame \in wire : frame.msg \in Msgs
        BY DEF SendTypeOK
      <4> QED
        BY <3>1, <4>1 DEF RowsBehind
    <3> QED
      BY <1>2, <3>1, <3>2, <3>3, <3>4, <3>5 DEF RowsBehind, Dispatched, MsgOf,
         clientState, taskState
  <2>9. OneStarter'
    <3>1. \A t \in Sockets : Starts(t) => MsgOf(t) # m
      BY <2>1 DEF RowsBehind, Starts
    <3>2. \A t \in Sockets \ {s} : (Starts(t)' <=> Starts(t)) /\ MsgOf(t)' = MsgOf(t)
      BY <2>3 DEF Starts, MsgOf
    <3>3. MsgOf(s)' = m
      BY <2>2 DEF MsgOf
    <3> HIDE DEF m
    <3> QED
      BY <1>2, <2>5, <3>1, <3>2, <3>3 DEF OneStarter, Dispatched, taskState,
         history
  <2> QED
    BY <2>6, <2>7, <2>8, <2>9
<1> QED
  BY <1>3, <1>4

LEMMA MarkKeeps ==
    ASSUME NEW s \in Sockets, SendInv, Mark(s) PROVE SendInv'
<1> USE SendBounds DEF SendInv, Mark, At, MsgOf, Free, Goes,
   MarkStored,
    clientState, taskState, serverState, history
<1>1. SendTypeOK'
  <2>1. HandTypes'
    BY AtHand, GoesOn DEF SendTypeOK, Steps
  <2>2. QED
    BY <2>1, AtHand DEF SendTypeOK, HandTypes, Sockets
<1>2. Kept' /\ StoredOnce'
  BY DEF SendTypeOK, Kept, StoredOnce, Pending, RowsBehind
<1>3. RowsBehind'
  BY DEF SendTypeOK, RowsBehind, Dispatched, MsgOf, Free, Ok,
     Rejected, Echo
<1>4. OneStarter'
  <2>1. hand[s].step = "stored" /\ hand'[s].step = "title" /\ hand'[s].msg = hand[s].msg
    BY AtHand, GoesOn DEF SendTypeOK, Steps
  <2>2. \A t \in Sockets \ {s} : hand'[t] = hand[t]
    BY AtHand, GoesOn DEF SendTypeOK, Steps
  <2>3. \A t \in Sockets : (Starts(t)' <=> Starts(t)) /\ MsgOf(t)' = MsgOf(t)
    BY <2>1, <2>2 DEF Starts, MsgOf
  <2>4. ASSUME NEW m \in Msgs \ overtaken, seen'[m] = "stored" PROVE Dispatched(m) = 0
    <3>1. seen[m] = "stored" \/ m = MsgOf(s)
      BY <2>4 DEF SendTypeOK
    <3>2. QED
      BY <3>1, <2>1 DEF OneStarter, Starts
  <2>5. QED
    BY <2>3, <2>4 DEF OneStarter, Dispatched
<1>5. Answers'
  BY DEF SendTypeOK, Answers, Answered, RowsBehind, Dispatched, Pending, Ok,
     Rejected, Echo
<1>6. QED
  BY <1>1, <1>2, <1>3, <1>4, <1>5

LEMMA TitleKeeps ==
    ASSUME NEW s \in Sockets, SendInv, Title(s) PROVE SendInv'
<1> USE SendBounds DEF SendInv, Title, At, MsgOf, Free, Goes,
    clientState, taskState, serverState, history
<1>1. SendTypeOK'
  <2>1. HandTypes'
    BY AtHand, GoesOn DEF SendTypeOK, Steps
  <2>2. QED
    BY <2>1, AtHand DEF SendTypeOK, HandTypes, Sockets
<1>2. Kept' /\ StoredOnce'
  BY DEF SendTypeOK, Kept, StoredOnce, Pending, RowsBehind
<1>3. RowsBehind'
  <2>1. /\ hand[s].step = "title" /\ hand'[s].step = "ack" /\ hand'[s].msg = hand[s].msg
        /\ \A t \in Sockets \ {s} : hand'[t] = hand[t]
    BY AtHand, GoesOn DEF SendTypeOK, Steps
  <2>2. UNCHANGED <<seen, rows, typed, wire, toPublish, toRun, ran>>
    OBVIOUS
  <2> QED
    BY ONLY <2>1, <2>2, RowsBehind DEF RowsBehind, Dispatched, MsgOf
<1>4. OneStarter'
  <2>1. hand[s].step = "title" /\ hand'[s].step = "ack" /\ hand'[s].msg = hand[s].msg
    BY AtHand, GoesOn DEF SendTypeOK, Steps
  <2>2. \A t \in Sockets \ {s} : hand'[t] = hand[t]
    BY AtHand, GoesOn DEF SendTypeOK, Steps
  <2>3. \A t \in Sockets : (Starts(t)' <=> Starts(t)) /\ MsgOf(t)' = MsgOf(t)
    BY <2>1, <2>2 DEF Starts, MsgOf
  <2>4. QED
    BY <2>3 DEF OneStarter, Dispatched
<1>5. Answers'
  BY DEF SendTypeOK, Answers, Answered, RowsBehind, Dispatched, Pending, Ok,
     Rejected, Echo
<1>6. QED
  BY <1>1, <1>2, <1>3, <1>4, <1>5

LEMMA TitleFailsKeeps ==
    ASSUME NEW s \in Sockets, SendInv, TitleFails(s) PROVE SendInv'
<1> USE SendBounds DEF SendInv, TitleFails, At, MsgOf, Free, Done,
   Fault,
    clientState, taskState, serverState, history
<1>1. SendTypeOK'
  BY DEF SendTypeOK, Sockets, Steps, Ok, Rejected, Echo, Free
<1>2. Kept' /\ StoredOnce'
  BY DEF SendTypeOK, Kept, StoredOnce, Pending, RowsBehind
<1>3. RowsBehind'
  BY DEF SendTypeOK, RowsBehind, Dispatched, MsgOf, Free, Ok,
     Rejected, Echo
<1>4. OneStarter'
  BY DEF SendTypeOK, OneStarter, Starts, RowsBehind, Dispatched, MsgOf, Free
<1>5. Answers'
  BY DEF SendTypeOK, Answers, Answered, RowsBehind, Dispatched, Pending, Ok,
     Rejected, Echo
<1>6. QED
  BY <1>1, <1>2, <1>3, <1>4, <1>5

\* The handler dispatches what nobody has dispatched, or was overtaken.
LEMMA AckKeeps ==
    ASSUME NEW s \in Sockets, SendInv, Ack(s) PROVE SendInv'
<1> USE SendBounds DEF SendInv, Ack, At, MsgOf, Free, Tell, Done,
    clientState, taskState, serverState, history
<1>1. SendTypeOK'
  <2>1. HandTypes'
    BY IsDone DEF SendTypeOK
  <2>2. wire' \subseteq [msg : typed, status : {"ok", "rejected", "message"}]
    <3> PICK m \in typed : m = MsgOf(s)
      BY AtHand
    <3>1. wire' \subseteq wire \cup {Ok(m)}
      OBVIOUS
    <3> QED
      BY <3>1 DEF SendTypeOK, Ok
  <2>3. QED
    <3> PICK m \in Msgs : m = MsgOf(s)
      BY AtHand
    <3>1. toPublish' \in [Msgs -> Nat] /\ seen' \in [Msgs -> {"no", "stored", "scheduled"}]
      BY DEF SendTypeOK
    <3> QED
      BY <2>1, <2>2, <3>1 DEF SendTypeOK, HandTypes
<1>2. Kept' /\ StoredOnce'
  BY DEF SendTypeOK, Kept, StoredOnce, Pending, RowsBehind
<1>3. RowsBehind'
  BY DEF SendTypeOK, RowsBehind, Dispatched, MsgOf, Free, Ok,
     Rejected, Echo
<1>4. OneStarter'
  <2> PICK m \in Msgs : m = MsgOf(s)
    BY AtHand
  <2>1. \A r, t \in Sockets :
            (Starts(r) /\ Starts(t) /\ MsgOf(r) = MsgOf(t))' => r = t
    BY IsDone DEF OneStarter, Starts
  <2>2. /\ toPublish' = [toPublish EXCEPT ![m] = @ + 1] /\ seen' = [seen EXCEPT ![m] = "scheduled"]
        /\ UNCHANGED <<toRun, ran, overtaken>>
    OBVIOUS
  <2>3. toPublish[m] \in Nat /\ toRun[m] \in Nat /\ ran[m] \in Nat
    BY CountsAreNat
  <2>4. m \notin overtaken => toPublish[m] + toRun[m] + ran[m] = 0
    BY DEF OneStarter, Starts, Dispatched
  <2>5. m \notin overtaken => Dispatched(m)' = 1 /\ seen'[m] = "scheduled"
    BY <2>2, <2>3, <2>4 DEF SendTypeOK, Dispatched
  <2>6. \A n \in Msgs \ {m} : Dispatched(n)' = Dispatched(n) /\ seen'[n] = seen[n]
    BY <2>2 DEF SendTypeOK, Dispatched
  <2>7. \A r \in Sockets :
            Starts(r)' => Starts(r) /\ MsgOf(r)' = MsgOf(r) /\ MsgOf(r) # m
    BY IsDone DEF OneStarter, Starts
  <2>8. ASSUME NEW n \in Msgs \ overtaken'
        PROVE  /\ Dispatched(n)' <= 1
               /\ seen'[n] = "stored" => Dispatched(n)' = 0
               /\ \A r \in Sockets :
                     (Starts(r) /\ MsgOf(r) = n)' => Dispatched(n)' = 0
    <3>1. CASE n = m
      <4>1. Dispatched(n)' = 1 /\ seen'[n] = "scheduled"
        BY <2>2, <2>5, <3>1
      <4>2. \A r \in Sockets : ~(Starts(r) /\ MsgOf(r) = n)'
        BY <2>7, <3>1
      <4> QED
        BY <4>1, <4>2
    <3>2. CASE n # m
      <4>1. n \in Msgs \ overtaken /\ Dispatched(n)' = Dispatched(n) /\ seen'[n] = seen[n]
        BY <2>2, <2>6, <3>2
      <4> QED
        BY <2>7, <4>1 DEF OneStarter
    <3> QED
      BY <3>1, <3>2
  <2> QED
    BY <2>1, <2>8 DEF OneStarter
<1>5. Answers'
  <2> PICK m \in Msgs : m = MsgOf(s)
    BY AtHand
  <2>1. toPublish' = [toPublish EXCEPT ![m] = @ + 1] /\ seen' = [seen EXCEPT ![m] = "scheduled"]
    OBVIOUS
  <2>2. Dispatched(m) \in Nat /\ Dispatched(m)' = Dispatched(m) + 1
    <3>1. toPublish[m] \in Nat /\ toRun[m] \in Nat /\ ran[m] \in Nat
      BY CountsAreNat
    <3>2. toPublish'[m] = toPublish[m] + 1
      BY <2>1 DEF SendTypeOK
    <3>3. UNCHANGED <<toRun, ran>>
      OBVIOUS
    <3> QED
      BY <3>1, <3>2, <3>3 DEF Dispatched
  <2>3. \A n \in Msgs \ {m} : Dispatched(n)' = Dispatched(n) /\ seen'[n] = seen[n]
    BY <2>1 DEF Dispatched, SendTypeOK
  <2>4. Answered(m)' /\ \A n \in Msgs : Answered(n) => Answered(n)'
    BY <2>2, <2>3 DEF Answered
  <2>5. wire' \subseteq wire \cup {[msg |-> m, status |-> "ok"]}
    BY DEF Ok
  <2>6. \A frame \in wire' : frame.status # "rejected" => Answered(frame.msg)'
    <3>1. ASSUME NEW frame \in wire, frame.status # "rejected"
          PROVE  frame.msg \in Msgs /\ Answered(frame.msg)
      BY <3>1 DEF Answers, SendTypeOK
    <3> QED
      BY <2>4, <2>5, <3>1
  <2>7. \A n \in Msgs : seen'[n] = "scheduled" => Answered(n)'
    BY <2>3, <2>4 DEF Answers
  <2>8. /\ UNCHANGED <<typed, outbox, refused>>
        /\ \A n \in typed : n \in Pending \/ n \in refused \/ Answered(n)'
    BY <2>4 DEF Answers, SendTypeOK
  <2> QED
    BY <2>6, <2>7, <2>8 DEF Answers, Pending
<1>6. QED
  BY <1>1, <1>2, <1>3, <1>4, <1>5

-----------------------------------------------------------------------------
(* The turn's task, and a crash                                             *)

LEMMA PublishKeeps ==
    ASSUME NEW m \in Msgs, SendInv, Publish(m) PROVE SendInv'
<1> USE SendBounds DEF SendInv, Publish, RunsThen, Fault,
    clientState, taskState, serverState, history
<1>1. /\ Dispatched(m) > 0 /\ rows[m] > 0
      /\ \A n \in Msgs : Dispatched(n)' = Dispatched(n)
  <2>1. \A n \in Msgs : toPublish[n] \in Nat /\ toRun[n] \in Nat /\ ran[n] \in Nat
    BY DEF SendTypeOK
  <2>2. Dispatched(m) > 0
    BY <2>1 DEF Dispatched
  <2>3. /\ toPublish'[m] = toPublish[m] - 1 /\ toRun'[m] = toRun[m] + 1 /\ ran' = ran
        /\ \A n \in Msgs \ {m} : toPublish'[n] = toPublish[n] /\ toRun'[n] = toRun[n]
    BY DEF SendTypeOK
  <2> QED
    BY <2>1, <2>2, <2>3 DEF Dispatched, RowsBehind
<1>2. wire' \subseteq wire \cup {Echo(m)}
  OBVIOUS
<1>3. SendTypeOK'
  <2>1. wire' \subseteq [msg : typed, status : {"ok", "rejected", "message"}]
    <3>1. m \in typed
      BY <1>1 DEF RowsBehind
    <3> QED
      BY <3>1 DEF SendTypeOK, Echo
  <2>2. QED
    <3>1. toPublish' \in [Msgs -> Nat]
      <4>1. toPublish[m] \in Nat /\ toPublish[m] > 0 /\ toPublish[m] - 1 \in Nat
        BY DEF SendTypeOK
      <4> QED
        BY <4>1 DEF SendTypeOK
    <3>3. toRun' \in [Msgs -> Nat]
      <4>1. toRun' = [toRun EXCEPT ![m] = toRun[m] + 1]
        OBVIOUS
      <4>2. toRun[m] + 1 \in Nat /\ toRun \in [Msgs -> Nat]
        BY DEF SendTypeOK
      <4> QED
        BY ONLY <4>1, <4>2
    <3>2. faults' \in 0 .. MaxFaults
      BY DEF SendTypeOK
    <3> QED
      BY <2>1, <3>1, <3>2, <3>3 DEF SendTypeOK
<1>4. Kept' /\ StoredOnce'
  BY DEF SendTypeOK, Kept, StoredOnce, Pending, RowsBehind
<1>5. RowsBehind'
  <2>1. \A frame \in wire' : frame.status # "rejected" => rows[frame.msg] > 0
    BY <1>1, <1>2 DEF RowsBehind, Echo
  <2> QED
    BY <1>1, <2>1 DEF RowsBehind, MsgOf
<1>6. OneStarter'
  BY <1>1 DEF OneStarter, Starts, MsgOf
<1>7. Answers'
  <2>1. \A n \in Msgs : Answered(n)' <=> Answered(n)
    BY <1>1 DEF Answered
  <2>2. ASSUME NEW frame \in wire', frame.status # "rejected" PROVE Answered(frame.msg)'
    <3>1. CASE frame \in wire
      <4>1. frame.msg \in Msgs /\ Answered(frame.msg)
        BY <2>2, <3>1 DEF Answers, SendTypeOK
      <4> QED
        BY <2>1, <4>1
    <3>2. CASE frame = Echo(m)
      BY <1>1, <2>1, <3>2 DEF Echo, Answered
    <3> QED
      BY <1>2, <3>1, <3>2
  <2> QED
    BY <2>1, <2>2 DEF Answers, Pending, SendTypeOK
<1>8. QED
  BY <1>3, <1>4, <1>5, <1>6, <1>7

LEMMA RunKeeps ==
    ASSUME NEW m \in Msgs, SendInv, Run(m) PROVE SendInv'
<1> USE SendBounds DEF SendInv, Run, clientState, taskState, serverState,
   history
<1>1. toRun' \in [Msgs -> Nat] /\ ran' \in [Msgs -> Nat]
  <2>1. toRun[m] \in Nat /\ toRun[m] - 1 \in Nat /\ ran[m] + 1 \in Nat
    BY DEF SendTypeOK
  <2> QED
    BY <2>1 DEF SendTypeOK
<1>2. SendTypeOK'
  BY <1>1 DEF SendTypeOK
<1>3. \A n \in Msgs : Dispatched(n)' = Dispatched(n)
  <2>1. \A n \in Msgs : toPublish[n] \in Nat /\ toRun[n] \in Nat /\ ran[n] \in Nat
    BY DEF SendTypeOK
  <2>2. /\ toRun'[m] = toRun[m] - 1 /\ ran'[m] = ran[m] + 1 /\ toPublish' = toPublish
        /\ \A n \in Msgs \ {m} : toRun'[n] = toRun[n] /\ ran'[n] = ran[n]
    BY DEF SendTypeOK
  <2> QED
    BY <2>1, <2>2 DEF Dispatched
<1>4. Kept' /\ StoredOnce'
  BY DEF Kept, StoredOnce, Pending
<1>5. RowsBehind'
  BY <1>3 DEF RowsBehind, MsgOf
<1>6. OneStarter'
  BY <1>3 DEF OneStarter, Starts, MsgOf
<1>7. Answers'
  <2>1. \A n \in Msgs : Answered(n)' <=> Answered(n)
    BY <1>3 DEF Answered
  <2>2. \A frame \in wire : frame.msg \in Msgs
    BY DEF SendTypeOK
  <2> QED
    BY <2>1, <2>2 DEF Answers, Pending, SendTypeOK
<1>8. QED
  BY <1>2, <1>4, <1>5, <1>6, <1>7

\* A crash leaves the rows, and the turns that ran.
LEMMA ServerCrashKeeps ==
    ASSUME SendInv, ServerDies PROVE SendInv'
<1> USE SendBounds DEF SendInv, ServerDies, Fault,
    clientState, taskState, serverState, history
<1>1. SendTypeOK'
  <2>1. /\ inbox' \in [Sockets -> Seq(typed)] /\ hand' \in [Sockets -> {Free}]
        /\ seen' \in [Msgs -> {"no", "stored", "scheduled"}]
        /\ toPublish' \in [Msgs -> Nat] /\ toRun' \in [Msgs -> Nat]
    BY EmptySeq
  <2>2. conn' = 0 /\ wire' = {} /\ faults' \in 0 .. MaxFaults /\ cut' \subseteq Msgs
    BY DEF SendTypeOK
  <2> QED
    BY <2>1, <2>2 DEF SendTypeOK
<1>2. Kept' /\ StoredOnce'
  BY DEF SendTypeOK, Kept, StoredOnce, Pending, RowsBehind
<1>3. RowsBehind'
  BY DEF SendTypeOK, RowsBehind, Dispatched, MsgOf, Free, Ok,
     Rejected, Echo
<1>4. OneStarter'
  BY DEF SendTypeOK, OneStarter, Starts, RowsBehind, Dispatched, MsgOf, Free
<1>5. Answers'
  BY DEF SendTypeOK, Answers, Answered, RowsBehind, Dispatched, Pending, Ok,
     Rejected, Echo
<1>6. QED
  BY <1>1, <1>2, <1>3, <1>4, <1>5

-----------------------------------------------------------------------------
(* Of the message                                                            *)

LEMMA InitSends == SendInit => SendInv
<1> SUFFICES ASSUME SendInit PROVE SendInv
  OBVIOUS
<1> USE SendBounds DEF SendInit
<1>1. Pending = {}
  BY DEF Pending
<1>2. hand \in [Sockets -> {Free} \cup [step : Steps, msg : typed]]
  BY DEF Free
<1>3. inbox \in [Sockets -> Seq(typed)] /\ outbox \in Seq(typed)
  BY EmptySeq
<1>4. SendTypeOK
  BY <1>2, <1>3 DEF SendTypeOK
<1>5. Kept /\ StoredOnce
  BY DEF Kept, StoredOnce
<1>6. \A m \in Msgs : Dispatched(m) = 0
  BY DEF Dispatched
<1>7. \A s \in Sockets : hand[s].step = "receive"
  BY DEF Free
<1>8. RowsBehind /\ OneStarter /\ Answers
  BY <1>1, <1>6, <1>7 DEF RowsBehind, OneStarter, Starts, Answers
<1> QED
  BY <1>4, <1>5, <1>8 DEF SendInv

LEMMA NextSends == SendInv /\ [SendNext]_sendVars => SendInv'
<1>1. ASSUME SendInv, SendNext PROVE SendInv'
  <2>1. CASE Client
    BY <1>1, <2>1, TypeKeeps, RetryKeeps, OpenKeeps, LeaveKeeps, HearKeeps
       DEF Client, Hears
  <2>2. ASSUME NEW s \in Sockets, Handles(s) PROVE SendInv'
    BY <1>1, <2>2, TakeKeeps, ReAckKeeps, TypingKeeps, VouchKeeps, TakenInKeeps, RejectKeeps,
       StoreKeeps, MarkKeeps, TitleKeeps, AckKeeps
       DEF Handles
  <2>3. CASE Server
    BY <1>1, <2>2, <2>3, DropKeeps, TurndownKeeps, TitleFailsKeeps, PublishKeeps, RunKeeps
       DEF Server
  <2> QED
    BY <1>1, <2>1, <2>3, ServerCrashKeeps DEF SendNext
<1>2. ASSUME SendInv, UNCHANGED sendVars PROVE SendInv'
  <2> USE <1>2 DEF sendVars, clientState, serverState, taskState, history,
     SendInv
  <2>1. SendTypeOK'
    BY DEF SendTypeOK
  <2>2. Kept' /\ StoredOnce' /\ RowsBehind'
    BY DEF Kept, StoredOnce, RowsBehind, Dispatched, Pending, MsgOf
  <2>3. OneStarter' /\ Answers'
    BY DEF OneStarter, Starts, Answers, Answered, Dispatched, Pending, MsgOf
  <2> QED
    BY <2>1, <2>2, <2>3
<1> QED
  BY <1>1, <1>2

\* Whatever socket, statement or process fails, what the person sent is in
\* the outbox, refused to the person's face, or in the thread, and there once.
THEOREM NothingLost == Sends => []MessagesAccounted
<1>1. SendInv => MessagesAccounted
  BY DEF SendInv, MessagesAccounted
<1> QED
  BY InitSends, NextSends, <1>1, PTL DEF Sends

\* A message starts one turn unless a resend overtook the handler that stored
\* it, and one that left the outbox as sent has its turn, but for what a
\* crash cut off and what was confirmed for its row alone.
THEOREM OneAnswer == Sends => []AnsweredOnce
<1>1. SendInv => AnsweredOnce
  BY DEF SendInv, AnsweredOnce, OneTurnEach, ConfirmedIsAnswered, OneStarter,
     Answers, Answered, SendTypeOK
<1> QED
  BY InitSends, NextSends, <1>1, PTL DEF Sends
=============================================================================

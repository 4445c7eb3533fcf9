---------------------------- MODULE GatewayTurn ----------------------------
(***************************************************************************)
(* A turn over the gateway socket (main.py _run_agent_turn,                *)
(* _send_with_gateway_retry, _dispatch_turn; gateway_ws.py call_agent;     *)
(* openclaw.py send_via_gateway).  A turn holds its thread's lock and, for *)
(* each attempt, one permit of the process.  Each attempt is a run with an *)
(* id of its own, kept in _inflight_runs so that a reconnect can chase it  *)
(* and the stop button can name it.  What an attempt's failure means       *)
(* decides whether another may follow: a refusal at the door may, anything *)
(* after the gateway took the run may not, for it would run twice.         *)
(*                                                                         *)
(* The gateway is modelled from how the code uses it: it takes, refuses or *)
(* ignores a request, and a run it took goes on when the socket is lost.   *)
(***************************************************************************)
EXTENDS Naturals, Sequences, FiniteSets

CONSTANTS
    Threads,
    MaxTurns,     \* messages asked in all
    MaxTries,     \* attempts of one turn (six in the code)
    Permits,      \* max_concurrency
    MaxCuts,      \* losses of the socket
    MaxCrashes,   \* restarts of the process
    MaxStops      \* presses of the stop button

ASSUME BoundsAssumption ==
    /\ MaxTurns \in Nat \ {0} /\ MaxTries \in Nat \ {0} /\ Permits \in Nat \ {0}
    /\ MaxCuts \in Nat /\ MaxCrashes \in Nat /\ MaxStops \in Nat

RunIds == [thread : Threads, turn : 1..MaxTurns, try : 1..MaxTries]

VARIABLES
    asked,      \* turns asked so far, numbered over all threads
    waiting,    \* waiting[t]: turns of t behind its lock
    holder,     \* holder[t]: the turn that holds the lock of t, 0 for none
    stage,      \* stage[t]: where that turn is
    tries,      \* tries[t]: attempts it has sent
    status,     \* threads.status in the database
    inflight,   \* _inflight_runs: a thread's entries are as old as their attempts
    gw,         \* gw[run]: the run on the gateway
    wrote,      \* runs whose reply is in the gateway's history
    landed,     \* runs whose reply is in the thread
    known,      \* threads whose session has a cursor
    up,         \* the socket
    chase,      \* runs a reconnect has yet to ask about
    dropped,    \* runs nobody follows: taken after they were given up, or forgotten
    uncertain,  \* threads with an entry kept for a run that may be over
    stops, cuts, crashes

turns == <<asked, waiting, holder, stage, tries, status>>
remote == <<gw, wrote>>
delivery == <<landed, known>>
past == <<dropped, uncertain>>
budget == <<stops, cuts, crashes>>
vars == <<turns, inflight, remote, delivery, up, chase, past, budget>>

----------------------------------------------------------------------------
Stages == {"none", "wanting", "sent", "accepted", "resting", "lost"}

(* The run of the attempt a thread's turn is waiting on.                    *)
Current(t) == [thread |-> t, turn |-> holder[t], try |-> tries[t]]
Calling(t) == stage[t] \in {"sent", "accepted"}
Called(run) == Calling(run.thread) /\ Current(run.thread) = run

PermitsInUse == Cardinality({t \in Threads : Calling(t)})

Entries(t) == {run \in inflight : run.thread = t}

(* An entry is struck out when its run is known to be over.                 *)
Without(run) == inflight \ {run}

(* What the gateway's history of a thread's session holds.                  *)
History(t) == {run \in wrote : run.thread = t}

Init ==
    /\ asked = 0
    /\ waiting = [t \in Threads |-> <<>>]
    /\ holder = [t \in Threads |-> 0]
    /\ stage = [t \in Threads |-> "none"]
    /\ tries = [t \in Threads |-> 0]
    /\ status = [t \in Threads |-> "idle"]
    /\ inflight = {}
    /\ gw = [run \in RunIds |-> "unasked"]
    /\ wrote = {}
    /\ landed = {}
    /\ known = {}
    /\ up = TRUE
    /\ chase = {}
    /\ dropped = {}
    /\ uncertain = {}
    /\ stops = 0 /\ cuts = 0 /\ crashes = 0

----------------------------------------------------------------------------
(* Turns.                                                                  *)

(* A message is sent: its turn waits behind the thread's lock.              *)
Ask(t) ==
    /\ asked < MaxTurns
    /\ asked' = asked + 1
    /\ waiting' = [waiting EXCEPT ![t] = Append(@, asked + 1)]
    /\ UNCHANGED <<holder, stage, tries, status, inflight, remote, delivery, up,
                   chase, past, budget>>

(* _run_agent_turn under the lock.                                          *)
Begin(t) ==
    /\ holder[t] = 0
    /\ waiting[t] # <<>>
    /\ holder' = [holder EXCEPT ![t] = Head(waiting[t])]
    /\ waiting' = [waiting EXCEPT ![t] = Tail(@)]
    /\ stage' = [stage EXCEPT ![t] = "wanting"]
    /\ tries' = [tries EXCEPT ![t] = 0]
    /\ status' = [status EXCEPT ![t] = "thinking"]
    /\ UNCHANGED <<asked, inflight, remote, delivery, up, chase, past, budget>>

(* The turn is over and its lock free.                                      *)
OverButHeld(t, verdict) ==
    /\ stage' = [stage EXCEPT ![t] = "none"]
    /\ status' = [status EXCEPT ![t] = verdict]
    /\ IF verdict = "error" THEN UNCHANGED <<holder, tries>>
       ELSE holder' = [holder EXCEPT ![t] = 0] /\ tries' = [tries EXCEPT ![t] = 0]
    /\ UNCHANGED <<asked, waiting>>

Over(t, verdict) ==
    /\ holder' = [holder EXCEPT ![t] = 0]
    /\ stage' = [stage EXCEPT ![t] = "none"]
    /\ tries' = [tries EXCEPT ![t] = 0]
    /\ status' = [status EXCEPT ![t] = verdict]
    /\ UNCHANGED <<asked, waiting>>

(* A turn that failed reports an error, unless its transcript holds a reply *)
(* that is not in the thread yet; the file may be late.                     *)
Fails(t, run) ==
    \/ Over(t, "error") /\ UNCHANGED delivery
    \/ /\ run \in wrote \ landed
       /\ Over(t, "idle")
       /\ landed' = landed \cup {run}
       /\ UNCHANGED known

(* What may be tried again, and what may not.                               *)
RetriesTimeouts(reason) == reason \in {"down", "no receipt"}
Retries(reason) == reason = "down"

OneLeft(made) == made < MaxTries

(* The refusal reaches the retry loop: it sleeps without a permit, unless   *)
(* this was the last attempt.                                               *)
Refused(t, reason) ==
    IF Retries(reason) /\ OneLeft(tries[t])
    THEN /\ stage' = [stage EXCEPT ![t] = "resting"]
         /\ UNCHANGED <<asked, waiting, holder, tries, status, delivery>>
    ELSE Over(t, "error") /\ UNCHANGED delivery

(* _dispatch_turn with a permit in hand and the socket up: the run is named *)
(* and registered before it is sent.                                        *)
Dispatch(t) ==
    /\ stage[t] = "wanting"
    /\ PermitsInUse < Permits
    /\ up
    /\ tries' = [tries EXCEPT ![t] = @ + 1]
    /\ stage' = [stage EXCEPT ![t] = "sent"]
    /\ LET run == [thread |-> t, turn |-> holder[t], try |-> tries[t] + 1]
       IN  /\ inflight' = inflight \cup {run}
           /\ gw' = [gw EXCEPT ![run] = "asked"]
    /\ UNCHANGED <<asked, waiting, holder, status, wrote, delivery, up, chase, past,
                   budget>>

(* No socket: the turn is unavailable, and that may be tried again.         *)
Unavailable(t) ==
    /\ stage[t] = "wanting"
    /\ PermitsInUse < Permits
    /\ ~up
    /\ IF OneLeft(tries[t] + 1)
       THEN /\ tries' = [tries EXCEPT ![t] = @ + 1]
            /\ stage' = [stage EXCEPT ![t] = "resting"]
            /\ UNCHANGED <<asked, waiting, holder, status>>
       ELSE Over(t, "error")
    /\ UNCHANGED <<inflight, remote, delivery, up, chase, past, budget>>

(* The delay is over.                                                       *)
Wake(t) ==
    /\ stage[t] = "resting"
    /\ stage' = [stage EXCEPT ![t] = "wanting"]
    /\ UNCHANGED <<asked, waiting, holder, tries, status, inflight, remote, delivery,
                   up, chase, past, budget>>

----------------------------------------------------------------------------
(* The gateway and the answers to a call.                                  *)

(* It takes the run; the receipt finds the call, or nobody.                 *)
Accept(run) ==
    /\ gw[run] = "asked"
    /\ gw' = [gw EXCEPT ![run] = "running"]
    /\ stage' = IF up /\ Called(run) THEN [stage EXCEPT ![run.thread] = "accepted"]
                ELSE stage
    /\ dropped' = IF run \in inflight THEN dropped ELSE dropped \cup {run}
    /\ UNCHANGED <<asked, waiting, holder, tries, status, inflight, wrote, delivery,
                   up, chase, uncertain, budget>>

(* It refuses it at the door: come back later, or a verdict.                *)
Refuse(run, reason) ==
    /\ gw[run] = "asked"
    /\ gw' = [gw EXCEPT ![run] = "refused"]
    /\ IF up /\ Called(run)
       THEN /\ inflight' = Without(run)
            /\ Refused(run.thread, reason)
       ELSE UNCHANGED <<turns, inflight, delivery>>
    /\ UNCHANGED <<wrote, up, chase, past, budget>>

(* No receipt within AGENT_ACCEPT_TIMEOUT_S.  The call gives up with a      *)
(* refusal that is no "down", and the entry goes with it.                   *)
NoReceipt(t) ==
    /\ stage[t] = "sent"
    /\ inflight' = Without(Current(t))
    /\ Refused(t, "no receipt")
    /\ UNCHANGED <<remote, up, chase, past, budget>>

(* The run ends, with a reply or without; a reply is written down and, on a *)
(* live socket, delivered over the session subscription.                    *)
Finish(run, reply) ==
    /\ gw[run] = "running"
    /\ gw' = [gw EXCEPT ![run] = "done"]
    /\ IF reply
       THEN /\ wrote' = wrote \cup {run}
            /\ IF up THEN /\ landed' = landed \cup {run}
                          /\ known' = known \cup {run.thread}
                     ELSE UNCHANGED delivery
       ELSE UNCHANGED <<wrote, delivery>>
    /\ UNCHANGED <<turns, inflight, up, chase, past, budget>>

(* The result of the call: the reply, or the agent's choice to say nothing. *)
Answer(t) ==
    /\ stage[t] = "accepted"
    /\ gw[Current(t)] = "done"
    /\ inflight' = Without(Current(t))
    /\ landed' = landed \cup ({Current(t)} \cap wrote)
    /\ Over(t, "idle")
    /\ UNCHANGED <<remote, known, up, chase, past, budget>>

(* Or the run's failure, which leaves its entry.                            *)
RunFailed(t) ==
    /\ stage[t] = "accepted"
    /\ gw[Current(t)] = "done"
    /\ Current(t) \notin wrote
    /\ uncertain' = uncertain \cup {t}
    /\ Fails(t, Current(t))
    /\ UNCHANGED <<inflight, remote, up, chase, dropped, budget>>

(* The run did not finish in time.  The entry stays: it may yet.            *)
RunTimeout(t) ==
    /\ stage[t] = "accepted"
    /\ gw[Current(t)] = "running"
    /\ uncertain' = uncertain \cup {t}
    /\ Fails(t, Current(t))
    /\ UNCHANGED <<inflight, remote, up, chase, dropped, budget>>

----------------------------------------------------------------------------
(* The socket and the process.                                             *)

(* The socket is lost: _fail_pending fails every call that is out.          *)
Cut ==
    /\ up
    /\ cuts < MaxCuts
    /\ cuts' = cuts + 1
    /\ up' = FALSE
    /\ stage' = [t \in Threads |-> IF Calling(t) THEN "lost" ELSE stage[t]]
    /\ UNCHANGED <<asked, waiting, holder, tries, status, inflight, remote, delivery,
                   chase, past, stops, crashes>>

(* The turn under a lost call: an error, never a retry; the entry stays.    *)
Lost(t) ==
    /\ stage[t] = "lost"
    /\ uncertain' = uncertain \cup {t}
    /\ Fails(t, Current(t))
    /\ UNCHANGED <<inflight, remote, up, chase, dropped, budget>>

(* What catch_up brings of a set of threads.                                *)
CaughtUpKnown(ts) ==
    /\ landed' = landed \cup UNION {History(t) : t \in ts \cap known}
    /\ UNCHANGED known

CaughtUp(ts) ==
    /\ landed' = landed \cup UNION {History(t) : t \in ts}
    /\ known' = known \cup {t \in ts : History(t) # {}}

(* _on_connect: the sessions with a cursor are resynced, and every run in   *)
(* flight is to be asked about.                                             *)
Reconnect ==
    /\ ~up
    /\ up' = TRUE
    /\ CaughtUp(known)
    /\ chase' = inflight
    /\ UNCHANGED <<turns, inflight, remote, past, budget>>

(* _recover_inflight_runs: agent.wait answers or gives up after 30 s, then  *)
(* the session is caught up whatever it said.  The entry stays.  In which   *)
(* order the runs are asked about is left open.                             *)
Chase ==
    /\ \E run \in chase :
          /\ chase' = chase \ {run}
          /\ IF up THEN CaughtUp({run.thread}) ELSE UNCHANGED delivery
    /\ UNCHANGED <<turns, inflight, remote, up, past, budget>>

(* The process dies and comes back: nothing in memory is left, and          *)
(* _startup_recovery clears the statuses and reads the transcripts of the   *)
(* threads that were thinking.                                              *)
Crash ==
    /\ crashes < MaxCrashes
    /\ crashes' = crashes + 1
    /\ waiting' = [t \in Threads |-> <<>>]
    /\ holder' = [t \in Threads |-> 0]
    /\ stage' = [t \in Threads |-> "none"]
    /\ tries' = [t \in Threads |-> 0]
    /\ status' = [t \in Threads |-> "idle"]
    /\ inflight' = {}
    /\ chase' = {}
    /\ up' = FALSE
    /\ landed' = landed \cup UNION {History(t) : t \in {u \in Threads : status[u] = "thinking"}}
    /\ known' = {}
    /\ uncertain' = {}
    /\ dropped' = {run \in RunIds : gw[run] # "unasked"} \ landed'
    /\ UNCHANGED <<asked, remote, stops, cuts>>

----------------------------------------------------------------------------
(* The stop button.                                                        *)

(* Which entries may name the run to stop: the thread's.                    *)
NamedAnywhere(t) == inflight
Named(t) == Entries(t)

(* The dictionary keeps its order, and a thread's turns and attempts follow *)
(* one another, so its first entry is that of the earliest attempt.         *)
Earlier(a, b) == a.turn < b.turn \/ (a.turn = b.turn /\ a.try < b.try)

First(runs) == {run \in runs : \A other \in runs : run = other \/ Earlier(run, other)}

(* _abort_thread_turn: the gateway ends the run it is told, or, told none,  *)
(* the session's own.                                                       *)
Stop(t) ==
    /\ stops < MaxStops
    /\ up
    /\ stops' = stops + 1
    /\ LET hit == IF Named(t) # {} THEN First(Named(t))
                  ELSE {run \in RunIds : run.thread = t}
       IN  gw' = [run \in RunIds |-> IF run \in hit /\ gw[run] = "running" THEN "done"
                                     ELSE gw[run]]
    /\ UNCHANGED <<turns, inflight, wrote, delivery, up, chase, past, cuts, crashes>>

----------------------------------------------------------------------------
Next ==
    \/ \E t \in Threads : Ask(t)
    \/ \E t \in Threads : Begin(t)
    \/ \E t \in Threads : Dispatch(t)
    \/ \E t \in Threads : Unavailable(t)
    \/ \E t \in Threads : Wake(t)
    \/ \E run \in RunIds : Accept(run)
    \/ \E run \in RunIds, reason \in {"down", "verdict"} : Refuse(run, reason)
    \/ \E t \in Threads : NoReceipt(t)
    \/ \E run \in RunIds, reply \in BOOLEAN : Finish(run, reply)
    \/ \E t \in Threads : Answer(t)
    \/ \E t \in Threads : RunFailed(t)
    \/ \E t \in Threads : RunTimeout(t)
    \/ Cut
    \/ \E t \in Threads : Lost(t)
    \/ Reconnect
    \/ Chase
    \/ Crash
    \/ \E t \in Threads : Stop(t)

Spec == Init /\ [][Next]_vars

(* The process runs its turns and its timers, and comes back to the gateway; *)
(* the gateway owes nothing.                                                *)
Fairness ==
    /\ \A t \in Threads : /\ WF_vars(Begin(t)) /\ WF_vars(Dispatch(t))
                          /\ WF_vars(Unavailable(t)) /\ WF_vars(Wake(t))
                          /\ WF_vars(NoReceipt(t)) /\ WF_vars(RunTimeout(t))
                          /\ WF_vars(Answer(t)) /\ WF_vars(Lost(t))
    /\ WF_vars(Reconnect) /\ WF_vars(Chase)

FairSpec == Spec /\ Fairness

----------------------------------------------------------------------------
TypeOK ==
    /\ asked \in 0..MaxTurns
    /\ waiting \in [Threads -> Seq(1..MaxTurns)]
    /\ holder \in [Threads -> 0..MaxTurns]
    /\ stage \in [Threads -> Stages]
    /\ tries \in [Threads -> 0..MaxTries]
    /\ status \in [Threads -> {"idle", "thinking", "error"}]
    /\ inflight \subseteq RunIds /\ chase \subseteq RunIds
    /\ gw \in [RunIds -> {"unasked", "asked", "refused", "running", "done"}]
    /\ wrote \subseteq RunIds /\ landed \subseteq wrote /\ dropped \subseteq RunIds
    /\ known \subseteq Threads /\ uncertain \subseteq Threads
    /\ up \in BOOLEAN
    /\ stops \in 0..MaxStops /\ cuts \in 0..MaxCuts /\ crashes \in 0..MaxCrashes

(* Whatever is refused, lost, late or timed out, the gateway runs a turn at *)
(* most once: only a refusal is tried again (call_agent, send_via_gateway). *)
OneRunPerTurn ==
    \A t \in Threads, n \in 1..MaxTurns :
        Cardinality({k \in 1..MaxTries :
            gw[[thread |-> t, turn |-> n, try |-> k]] \in {"running", "done"}}) <= 1

(* No turn runs twice, and no more calls are out than there are permits.    *)
RunsAccounted ==
    TypeOK /\ OneRunPerTurn /\ PermitsInUse <= Permits

(* The stop button ends no other thread's run, and it ends the run its own  *)
(* thread waits on, unless an earlier run of the thread was lost or failed  *)
(* and its entry is still there to be named first (_abort_thread_turn).     *)
StopEndsItsOwnRun ==
    [][\A t \in Threads : Stop(t) =>
          /\ \A run \in RunIds : run.thread # t => gw'[run] = gw[run]
          /\ stage[t] = "accepted" /\ t \notin uncertain => gw'[Current(t)] = "done"]_vars

(* The same without the exception: the comment on _dispatch_turn strikes    *)
(* refused entries out so that the button cannot pick a dead run.           *)
StopReachesTheRun ==
    [][\A t \in Threads : Stop(t) =>
          (stage[t] = "accepted" => gw'[Current(t)] = "done")]_vars

(* Nothing ran, so there is nothing to chase: a run whose entry was struck  *)
(* out without an answer never runs (_dispatch_turn's comment).  It may: a  *)
(* run without a receipt in time can be accepted late.                      *)
GivenUpNeverRan == crashes = 0 => dropped = {}

(* A failed turn is not an error when its reply is in the thread already    *)
(* (_run_agent_turn: a real answer is not buried behind a toast).           *)
NoErrorOverAnAnswer ==
    [][\A t \in Threads :
          status[t] = "thinking" /\ status'[t] = "error" => Current(t) \notin landed]_vars

(* Every turn that was asked is taken up and ends: a lost socket, a silent  *)
(* gateway or a full set of permits holds no thread's lock for good.        *)
EveryTurnEnds ==
    \A t \in Threads : (waiting[t] # <<>> \/ holder[t] # 0)
                           ~> (waiting[t] = <<>> /\ holder[t] = 0)

(* Replies that reached the gateway's history reach their threads, on the   *)
(* socket alone, unless a run was given up or forgotten in a restart.       *)
RepliesLand == []<>(wrote \subseteq landed \cup dropped)
=============================================================================

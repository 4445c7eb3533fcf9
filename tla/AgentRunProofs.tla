--------------------------- MODULE AgentRunProofs ---------------------------
(***************************************************************************)
(* Proofs about AgentRun, for every number of runs, callers and tools.     *)
(***************************************************************************)
EXTENDS AgentRun, TLAPS

-----------------------------------------------------------------------------
(* How runs end *)

\* The types of what an ending changes.
EndingTypes ==
    /\ clock' \in BOOLEAN /\ active' \in BOOLEAN /\ resumable' \in BOOLEAN
    /\ watchdog' \in {"off", "armed", "interrupting"}
    /\ state' \in TaskState
    /\ ask' \in [Runs -> {"none", "open", "allow", "deny"}]
    /\ log' \in Seq(Event)

LEMMA FailedType ==
    ASSUME TypeOK, NEW mayResume \in BOOLEAN,
           session' \in BOOLEAN, closed' \in BOOLEAN, FinishFailed(mayResume)
    PROVE  EndingTypes
<1> DEFINE err == [type |-> "error"]
           res == [type |-> "result", state |-> "failed", reason |-> "none",
                   resumable |-> resumable']
<1>1. resumable' \in BOOLEAN
  BY DEF FinishFailed, Finish
<1>2. err \in Event /\ res \in Event
  BY <1>1 DEF Event, Stream!ErrorEvent, Stream!ResultEvent
<1>3. log' = Append(log \o <<err>>, res)
  BY DEF FinishFailed, Finish
<1> HIDE DEF err, res
<1>4. log' \in Seq(Event)
  BY <1>2, <1>3 DEF TypeOK
<1> QED
  BY <1>1, <1>4 DEF EndingTypes, FinishFailed, Finish, DenyAll, TypeOK, TaskState

LEMMA SucceededType ==
    ASSUME TypeOK, session' \in BOOLEAN, closed' \in BOOLEAN, FinishSucceeded
    PROVE  EndingTypes
<1> DEFINE res == [type |-> "result", state |-> "succeeded", reason |-> "none",
                   resumable |-> resumable']
<1>1. resumable' \in BOOLEAN
  BY DEF FinishSucceeded, Finish
<1>2. res \in Event
  BY <1>1 DEF Event, Stream!ErrorEvent, Stream!ResultEvent
<1>3. log' = Append(log \o << >>, res)
  BY DEF FinishSucceeded, Finish
<1> HIDE DEF res
<1>4. log' \in Seq(Event)
  BY <1>2, <1>3 DEF TypeOK
<1> QED
  BY <1>1, <1>4 DEF EndingTypes, FinishSucceeded, Finish, DenyAll, TypeOK, TaskState

LEMMA CancelledType ==
    ASSUME TypeOK, NEW reason \in {"interrupted", "cancelled"},
           NEW mayResume \in BOOLEAN,
           session' \in BOOLEAN, closed' \in BOOLEAN,
           FinishCancelled(reason, mayResume)
    PROVE  EndingTypes
<1> DEFINE res == [type |-> "result", state |-> "cancelled", reason |-> reason,
                   resumable |-> resumable']
<1>1. resumable' \in BOOLEAN
  BY DEF FinishCancelled, Finish
<1>2. res \in Event
  BY <1>1 DEF Event, Stream!ErrorEvent, Stream!ResultEvent, Stream!Reasons
<1>3. log' = Append(log \o << >>, res)
  BY DEF FinishCancelled, Finish
<1> HIDE DEF res
<1>4. log' \in Seq(Event)
  BY <1>2, <1>3 DEF TypeOK
<1> QED
  BY <1>1, <1>4 DEF EndingTypes, FinishCancelled, Finish, DenyAll, TypeOK, TaskState

LEMMA InterruptedType ==
    ASSUME TypeOK, session' \in BOOLEAN, closed' \in BOOLEAN, FinishInterrupted
    PROVE  EndingTypes
<1>1. CASE FinishBudget
  BY <1>1, FailedType DEF FinishBudget
<1>2. CASE FinishCancelled("cancelled", FALSE)
  BY <1>2, CancelledType
<1>3. CASE FinishCancelled("interrupted", TRUE)
  BY <1>3, CancelledType
<1> QED
  BY <1>1, <1>2, <1>3 DEF FinishInterrupted

LEMMA WrapperType ==
    ASSUME TypeOK, NEW r \in Runs, session' \in BOOLEAN, closed' \in BOOLEAN,
           WrapperFails(r)
    PROVE  EndingTypes
<1>1. CASE Mine(r) /\ FinishFailed(FALSE)
  BY <1>1, FailedType
<1>2. CASE ~Mine(r) /\ UNCHANGED <<clock, ask, state, resumable, stream>>
  BY <1>2 DEF WrapperFails, EndingTypes, TypeOK, stream
<1> QED
  BY <1>1, <1>2 DEF WrapperFails

LEMMA StoppedType ==
    ASSUME TypeOK, NEW r, session' \in BOOLEAN, closed' \in BOOLEAN, Stopped(r)
    PROVE  EndingTypes
<1>1. CASE FinishInterrupted
  BY <1>1, InterruptedType
<1>2. CASE ~FinishInterrupted
  BY <1>2 DEF Stopped, EndingTypes, TypeOK, stream
<1> QED
  BY <1>1, <1>2

-----------------------------------------------------------------------------
(* Type correctness *)

\* Every value of the state stays in its type: no step mixes up the kinds of
\* endings, leaves a call half counted, or points at a run that cannot exist.
LEMMA InitType == Init => TypeOK
<1> SUFFICES ASSUME Init PROVE TypeOK
  OBVIOUS
<1>1. log \in Seq(Event)
  BY DEF Init, InitRest
<1>2. (CHOOSE t \in Tools : TRUE) \in Tools
  BY ToolsAssumption
<1>3. tool \in [Runs -> Tools]
  BY <1>2 DEF Init, InitRest
<1>4. /\ pc \in [Runs -> RunPc]
      /\ ask \in [Runs -> {"none", "open", "allow", "deny"}]
      /\ proc \in [Runs -> {"none", "alive", "dead"}]
  BY DEF Init, InitRest, StartedTask, RestoredTask, RunPc
<1>8. reader \in [Runs -> 0 .. MaxRuns]
  BY BoundsAssumption DEF Init, InitRest
<1>5. /\ state \in TaskState /\ session \in BOOLEAN /\ active \in BOOLEAN
      /\ runNo \in 0 .. MaxRuns
  <2>1. CASE StartedTask
    <3>1. state \in TaskState /\ session \in BOOLEAN /\ active \in BOOLEAN
      BY <2>1 DEF StartedTask, TaskState
    <3>2. runNo \in 0 .. MaxRuns
      BY <2>1, BoundsAssumption DEF StartedTask
    <3> QED
      BY <3>1, <3>2
  <2>2. CASE RestoredTask
    <3>1. state \in TaskState
      BY <2>2 DEF RestoredTask, TaskState
    <3>2. session \in BOOLEAN /\ active \in BOOLEAN
      BY <2>2 DEF RestoredTask
    <3>3. runNo \in 0 .. MaxRuns
      BY <2>2, BoundsAssumption DEF RestoredTask
    <3> QED
      BY <3>1, <3>2, <3>3
  <2> QED
    BY <2>1, <2>2 DEF Init
<1>6. /\ resumable \in BOOLEAN /\ closed \in BOOLEAN /\ clock \in BOOLEAN
      /\ interruptRequested \in BOOLEAN /\ budgetStop \in BOOLEAN
  BY <1>5 DEF Init, InitRest
<1>7. /\ watchdog = "off" /\ consume = 0 /\ transport = 0 /\ grants = {}
      /\ interrupting = 0 /\ forces = {} /\ settling = 0 /\ canceller = "none"
  BY DEF Init, InitRest
<1> QED
  BY <1>1, <1>3, <1>4, <1>5, <1>6, <1>7, <1>8, BoundsAssumption
     DEF TypeOK, CancelPc

LEMMA RunStepType ==
    ASSUME TypeOK, NEW r \in Runs, RunStep(r)
    PROVE  TypeOK'
<1> USE BoundsAssumption DEF Runs
<1>1. CASE PrepareFails(r)
  <2>1. EndingTypes
    BY <1>1, WrapperType DEF PrepareFails, TypeOK
  <2> QED
    BY <1>1, <2>1 DEF PrepareFails, WrapperFails, TypeOK, EndingTypes, Goto,
                      RunPc, flags, workers, calls
<1>2. CASE FindsBudgetSpent(r)
  <2>1. EndingTypes
    BY <1>2, FailedType DEF FindsBudgetSpent, FinishBudget, TypeOK
  <2> QED
    BY <1>2, <2>1 DEF FindsBudgetSpent, TypeOK, EndingTypes, Goto,
                      RunPc, flags, workers, calls
<1>3. CASE ReusesWorker(r)
  BY <1>3 DEF ReusesWorker, BeginRunning, TypeOK, TaskState, Goto, RunPc,
              flags, stream, calls
<1>4. CASE SpawnsWorker(r)
  BY <1>4 DEF SpawnsWorker, NoFinish, TypeOK, Goto, RunPc, flags, stream, calls
<1>5. CASE WorkerReady(r)
  BY <1>5 DEF WorkerReady, BeginRunning, TypeOK, TaskState, Goto, RunPc,
              flags, stream, calls
<1>6. CASE WorkerNotReady(r)
  <2>1. EndingTypes
    BY <1>6, WrapperType DEF WorkerNotReady, TypeOK
  <2> QED
    BY <1>6, <2>1 DEF WorkerNotReady, WrapperFails, TypeOK, EndingTypes, Goto,
                      RunPc, flags, calls
<1>7. CASE QuerySent(r)
  BY <1>7 DEF QuerySent, NoFinish, TypeOK, Goto, RunPc, flags, stream, workers,
              calls
<1>8. CASE QueryFails(r)
  <2>1. EndingTypes
    BY <1>8, WrapperType DEF QueryFails, TypeOK
  <2> QED
    BY <1>8, <2>1 DEF QueryFails, WrapperFails, TypeOK, EndingTypes, Goto,
                      RunPc, flags, workers, calls
<1>9. CASE Unwind(r) \/ Raised(r)
  <2>1. EndingTypes
    BY <1>9, WrapperType DEF Unwind, Raised, TypeOK
  <2> QED
    BY <1>9, <2>1 DEF Unwind, Raised, WrapperFails, TypeOK, EndingTypes, Goto,
                      RunPc, flags, workers, calls
<1>10. CASE WorkerClosed(r)
  BY <1>10 DEF WorkerClosed, NoFinish, TypeOK, Goto, RunPc, flags, stream,
               workers, calls
<1>11. CASE EndOfOutput(r)
  <2>1. EndingTypes
    <3>1. CASE FinishInterrupted
      BY <1>11, <3>1, InterruptedType DEF EndOfOutput, TypeOK
    <3>2. CASE NoFinish
      BY <3>2 DEF NoFinish, TypeOK, EndingTypes, stream
    <3> QED
      BY <1>11, <3>1, <3>2 DEF EndOfOutput
  <2>2. pc' \in [Runs -> RunPc]
    BY <1>11 DEF EndOfOutput, TypeOK, Goto, RunPc
  <2> QED
    BY <1>11, <2>1, <2>2 DEF EndOfOutput, TypeOK, EndingTypes, flags, calls
<1>12. CASE AskAnswered(r)
  BY <1>12 DEF AskAnswered, AskContinues, NextMessage, TypeOK, TaskState, Goto,
               RunPc, Consuming, flags, stream, workers, calls
<1> QED
  BY <1>1, <1>2, <1>3, <1>4, <1>5, <1>6, <1>7, <1>8, <1>9, <1>10, <1>11, <1>12
     DEF RunStep

LEMMA WorkerSaysType ==
    ASSUME TypeOK, NEW r \in Runs, WorkerSays(r)
    PROVE  TypeOK'
<1> USE BoundsAssumption DEF Runs
<1>1. CASE OtherMessage(r)
  BY <1>1 DEF OtherMessage, NoFinish, NextMessage, TypeOK, Goto, RunPc,
              Consuming, flags, stream, workers, calls
<1>2. CASE ErrorMessage(r)
  <2>1. /\ proc' \in [Runs -> {"none", "alive", "dead"}]
        /\ transport' \in 0 .. MaxRuns
    BY <1>2 DEF ErrorMessage, CloseTransport, TypeOK
  <2>2. pc' \in [Runs -> RunPc]
    BY <1>2 DEF ErrorMessage, Goto, TypeOK, RunPc
  <2>3. session' \in BOOLEAN
    BY <1>2 DEF ErrorMessage, TypeOK
  <2> QED
    BY <1>2, <2>1, <2>2, <2>3 DEF ErrorMessage, NoFinish, TypeOK, flags,
                                  stream, calls
<1>3. CASE ResultMessage(r)
  <2>1. session' \in BOOLEAN /\ closed' \in BOOLEAN
    BY <1>3 DEF ResultMessage, TypeOK
  <2>2. EndingTypes
    <3>1. CASE FinishInterrupted
      BY <2>1, <3>1, InterruptedType
    <3>2. CASE FinishBudget \/ \E mayResume \in BOOLEAN : FinishFailed(mayResume)
      BY <2>1, <3>2, FailedType DEF FinishBudget
    <3>3. CASE FinishSucceeded
      BY <2>1, <3>3, SucceededType
    <3> QED
      BY <1>3, <3>1, <3>2, <3>3 DEF ResultMessage
  <2> QED
    BY <1>3, <2>1, <2>2 DEF ResultMessage, TypeOK, EndingTypes, Goto, RunPc,
                            flags, workers, calls
<1>4. CASE PermissionRequest(r)
  BY <1>4 DEF PermissionRequest, TypeOK, TaskState, Goto, RunPc, Consuming,
              flags, stream, workers, calls
<1> QED
  BY <1>1, <1>2, <1>3, <1>4 DEF WorkerSays

LEMMA OtherRunStepType ==
    ASSUME TypeOK, NEW r \in Runs, AskTimesOut(r) \/ ForceFires(r) \/ Respond(r)
    PROVE  TypeOK'
<1> USE BoundsAssumption DEF Runs
<1>1. CASE AskTimesOut(r)
  BY <1>1 DEF AskTimesOut, AskContinues, NextMessage, TypeOK, TaskState, Goto,
              RunPc, Consuming, flags, stream, workers, calls
<1>2. CASE ForceFires(r)
  <2>1. EndingTypes
    <3>1. CASE Stopped(r)
      BY <1>2, <3>1, StoppedType DEF ForceFires, TypeOK
    <3>2. CASE NoFinish
      BY <3>2 DEF NoFinish, TypeOK, EndingTypes, stream
    <3> QED
      BY <1>2, <3>1, <3>2 DEF ForceFires
  <2>2. /\ transport' \in 0 .. MaxRuns
        /\ proc' \in [Runs -> {"none", "alive", "dead"}]
    BY <1>2 DEF ForceFires, CloseTransport, TypeOK
  <2>3. pc' \in [Runs -> RunPc]
    BY <1>2 DEF ForceFires, Stopped, TypeOK, Goto, RunPc
  <2> QED
    BY <1>2, <2>1, <2>2, <2>3 DEF ForceFires, TypeOK, EndingTypes, flags
<1>3. CASE Respond(r)
  BY <1>3 DEF Respond, TypeOK, flags, stream, workers, calls
<1> QED
  BY <1>1, <1>2, <1>3

LEMMA LaunchType ==
    ASSUME TypeOK, Launch, runNo < MaxRuns
    PROVE  /\ pc' \in [Runs -> RunPc] /\ runNo' \in 0 .. MaxRuns
           /\ interruptRequested' \in BOOLEAN /\ budgetStop' \in BOOLEAN
           /\ active' \in BOOLEAN
<1>1. pc' \in [Runs -> RunPc]
  BY DEF Launch, TypeOK, Goto, RunPc
<1>2. runNo' \in 0 .. MaxRuns
  BY BoundsAssumption DEF Launch, TypeOK
<1>3. /\ interruptRequested' \in BOOLEAN /\ budgetStop' \in BOOLEAN
      /\ active' \in BOOLEAN
  BY DEF Launch
<1> QED
  BY <1>1, <1>2, <1>3

LEMMA CallerType ==
    ASSUME TypeOK,
           \/ WorkerExits \/ ResumeNow \/ ResumeWaits \/ ResumeSettled
           \/ Interrupt \/ InterruptWritten \/ StopForBudget
           \/ WatchdogExpires \/ WatchdogInterrupted
    PROVE  TypeOK'
<1> USE BoundsAssumption DEF Runs
<1>1. CASE WorkerExits
  BY <1>1 DEF WorkerExits, NoFinish, TypeOK, flags, stream, calls
<1>2. CASE ResumeNow
  BY <1>2, LaunchType DEF ResumeNow, TypeOK, workers, calls
<1>7. CASE ResumeSettled
  <2>1. settling' \in 0 .. ResumeCallers
    BY <1>7 DEF ResumeSettled, TypeOK
  <2> QED
    BY <1>7, <2>1, LaunchType DEF ResumeSettled, TypeOK, workers
<1>3. CASE ResumeWaits
  BY <1>3 DEF ResumeWaits, NoFinish, TypeOK, flags, stream, workers
<1>4. CASE Interrupt
  <2>1. interrupting' \in 0 .. InterruptCallers
    BY <1>4 DEF Interrupt, DoInterrupt, TypeOK
  <2>3. forces' \subseteq Runs
    BY <1>4 DEF Interrupt, DoInterrupt, ArmForce, TypeOK
  <2>2. ask' \in [Runs -> {"none", "open", "allow", "deny"}]
    BY <1>4 DEF Interrupt, DenyAll, TypeOK
  <2> QED
    BY <1>4, <2>1, <2>2, <2>3 DEF Interrupt, TypeOK, stream, workers
<1>8. CASE StopForBudget
  <2>1. interrupting' \in 0 .. InterruptCallers
    BY <1>8 DEF StopForBudget, TypeOK
  <2>2. ask' \in [Runs -> {"none", "open", "allow", "deny"}]
    BY <1>8 DEF StopForBudget, DenyAll, TypeOK
  <2> QED
    BY <1>8, <2>1, <2>2 DEF StopForBudget, TypeOK, stream, workers
<1>5. CASE InterruptWritten
  <2>1. interrupting' \in 0 .. InterruptCallers
    BY <1>5 DEF InterruptWritten, TypeOK
  <2>2. forces' \subseteq Runs
    BY <1>5 DEF InterruptWritten, ArmForce, TypeOK
  <2> QED
    BY <1>5, <2>1, <2>2 DEF InterruptWritten, NoFinish, TypeOK, flags, stream,
                            workers
<1>6. CASE WatchdogExpires
  <2>1. /\ watchdog' \in {"off", "armed", "interrupting"}
        /\ forces' \subseteq Runs
    BY <1>6 DEF WatchdogExpires, ArmForce, TypeOK
  <2>2. ask' \in [Runs -> {"none", "open", "allow", "deny"}]
    BY <1>6 DEF WatchdogExpires, DenyAll, TypeOK
  <2> QED
    BY <1>6, <2>1, <2>2 DEF WatchdogExpires, TypeOK, stream, workers
<1>9. CASE WatchdogInterrupted
  BY <1>9 DEF WatchdogInterrupted, ArmForce, TypeOK, flags, stream, workers
<1> QED
  BY <1>1, <1>2, <1>3, <1>4, <1>5, <1>6, <1>7, <1>8, <1>9

LEMMA CancelType ==
    ASSUME TypeOK, CancelRunning \/ CancelIdle \/ Canceller
    PROVE  TypeOK'
<1> USE BoundsAssumption DEF Runs
<1>1. CASE CancelRunning
  BY <1>1 DEF CancelRunning, DenyAll, ArmForce, TypeOK, CancelPc, stream, workers
<1>2. CASE CancelIdle
  <2>1. EndingTypes
    BY <1>2, CancelledType DEF CancelIdle, TypeOK
  <2> QED
    BY <1>2, <2>1 DEF CancelIdle, TypeOK, EndingTypes, CancelPc, flags, workers
<1>3. CASE CancelInterrupted \/ CancelWaited
  BY <1>3 DEF CancelInterrupted, CancelWaited, ArmForce, NoFinish, TypeOK,
              CancelPc, flags, stream, workers
<1>4. CASE CancelKills
  <2>1. EndingTypes
    BY <1>4, StoppedType DEF CancelKills, TypeOK
  <2> QED
    BY <1>4, <2>1 DEF CancelKills, Stopped, TypeOK, EndingTypes, Goto, RunPc,
                      CancelPc, flags, workers
<1>5. CASE CancelReleases
  BY <1>5 DEF CancelReleases, CloseTransport, DenyAll, TypeOK, CancelPc, flags,
              stream
<1> QED
  BY <1>1, <1>2, <1>3, <1>4, <1>5 DEF Canceller

LEMMA NextType == TypeOK /\ [Next]_vars => TypeOK'
<1> SUFFICES ASSUME TypeOK, [Next]_vars PROVE TypeOK'
  OBVIOUS
<1>1. CASE UNCHANGED vars
  BY <1>1 DEF vars, TypeOK, flags, stream, workers, calls
<1>2. CASE Next
  BY <1>2, RunStepType, WorkerSaysType, OtherRunStepType, CallerType, CancelType
     DEF Next
<1> QED
  BY <1>1, <1>2

THEOREM TypeCorrect == Spec => []TypeOK
<1> QED
  BY InitType, NextType, PTL DEF Spec

-----------------------------------------------------------------------------
(* Stops are honoured *)

\* A budget stop is also an interrupt: both flags are set together, and only
\* together reset.
StopFlags == budgetStop => interruptRequested

LEMMA StopFlagsInv == Spec => []StopFlags
<1>1. Init => StopFlags
  BY DEF Init, InitRest, StopFlags
<1>2. StopFlags /\ [Next]_vars => StopFlags'
  <2> SUFFICES ASSUME StopFlags, [Next]_vars PROVE StopFlags'
    OBVIOUS
  <2>1. ASSUME UNCHANGED flags PROVE StopFlags'
    BY <2>1 DEF StopFlags, flags
  <2>2. CASE UNCHANGED vars
    BY <2>1, <2>2 DEF vars
  <2>3. CASE \E r \in Runs : RunStep(r)
    BY <2>1, <2>3 DEF RunStep, PrepareFails, FindsBudgetSpent, ReusesWorker,
       SpawnsWorker, WorkerReady, WorkerNotReady, QuerySent, QueryFails, Unwind,
       Raised, WorkerClosed, EndOfOutput, AskAnswered, AskContinues
  <2>4. CASE \E r \in Runs : \/ WorkerSays(r) \/ AskTimesOut(r) \/ ForceFires(r)
                             \/ Respond(r)
    BY <2>1, <2>4 DEF WorkerSays, OtherMessage, ErrorMessage, ResultMessage,
       PermissionRequest, AskTimesOut, AskContinues, ForceFires, Respond
  <2>5. CASE ResumeNow \/ ResumeSettled
    BY <2>5 DEF ResumeNow, ResumeSettled, Launch, StopFlags
  <2>6. CASE Interrupt \/ StopForBudget \/ WatchdogExpires \/ CancelRunning
    BY <2>6 DEF Interrupt, StopForBudget, WatchdogExpires, CancelRunning,
       StopFlags
  <2>7. CASE \/ WorkerExits \/ ResumeWaits \/ InterruptWritten
             \/ WatchdogInterrupted \/ CancelIdle \/ Canceller
    BY <2>1, <2>7 DEF WorkerExits, ResumeWaits, InterruptWritten,
       WatchdogInterrupted, CancelIdle, Canceller, CancelInterrupted,
       CancelWaited, CancelKills, CancelReleases
  <2> QED
    BY <2>2, <2>3, <2>4, <2>5, <2>6, <2>7 DEF Next
<1> QED
  BY <1>1, <1>2, PTL DEF Spec

\* What an ending puts last in the log.
LEMMA LastOfFinish ==
    ASSUME TypeOK, NEW events \in Seq(Event), NEW st, NEW reason,
           NEW mayResume, Finish(events, st, reason, mayResume)
    PROVE  LastResult = [type |-> "result", state |-> st, reason |-> reason,
                         resumable |-> resumable']
<1> DEFINE res == [type |-> "result", state |-> st, reason |-> reason,
                   resumable |-> resumable']
<1>1. log' = Append(log \o events, res)
  BY DEF Finish
<1>2. log \o events \in Seq(Event)
  BY DEF TypeOK
<1> HIDE DEF res
<1>3. Append(log \o events, res)[Len(Append(log \o events, res))] = res
  BY <1>2
<1> QED
  BY <1>1, <1>3 DEF LastResult, res

LEMMA FailedHonours ==
    ASSUME TypeOK, StopFlags, NEW mayResume \in BOOLEAN,
           session' \in BOOLEAN, closed' \in BOOLEAN,
           FinishFailed(mayResume), budgetStop => ~mayResume
    PROVE  HonoursStop
<1>1. [type |-> "error"] \in Event
  BY DEF Event, Stream!ErrorEvent
<1>2. << [type |-> "error"] >> \in Seq(Event)
  BY <1>1
<1>3. LastResult = [type |-> "result", state |-> "failed", reason |-> "none",
                    resumable |-> resumable']
  BY <1>2, LastOfFinish DEF FinishFailed
<1>4. resumable' = (mayResume /\ session' /\ ~closed')
  BY DEF FinishFailed, Finish
<1> QED
  BY <1>3, <1>4 DEF HonoursStop

LEMMA CancelledForGoodHonours ==
    ASSUME TypeOK, FinishCancelled("cancelled", FALSE)
    PROVE  HonoursStop
<1>1. << >> \in Seq(Event)
  OBVIOUS
<1>2. LastResult = [type |-> "result", state |-> "cancelled",
                    reason |-> "cancelled", resumable |-> resumable']
  BY <1>1, LastOfFinish DEF FinishCancelled
<1>3. resumable' = (FALSE /\ session' /\ ~closed')
  BY DEF FinishCancelled, Finish
<1> QED
  BY <1>2, <1>3 DEF HonoursStop

LEMMA PausedHonours ==
    ASSUME TypeOK, ~budgetStop, session' \in BOOLEAN, closed' \in BOOLEAN,
           FinishCancelled("interrupted", TRUE)
    PROVE  HonoursStop
<1>1. << >> \in Seq(Event)
  OBVIOUS
<1>2. LastResult = [type |-> "result", state |-> "cancelled",
                    reason |-> "interrupted", resumable |-> resumable']
  BY <1>1, LastOfFinish DEF FinishCancelled
<1>3. resumable' = (TRUE /\ session' /\ ~closed')
  BY DEF FinishCancelled, Finish
<1> QED
  BY <1>2, <1>3 DEF HonoursStop

LEMMA SucceededHonours ==
    ASSUME TypeOK, StopFlags, ~interruptRequested,
           session' \in BOOLEAN, closed' \in BOOLEAN, FinishSucceeded
    PROVE  HonoursStop
<1>1. << >> \in Seq(Event)
  OBVIOUS
<1>2. LastResult = [type |-> "result", state |-> "succeeded",
                    reason |-> "none", resumable |-> resumable']
  BY <1>1, LastOfFinish DEF FinishSucceeded
<1>3. resumable' = (TRUE /\ session' /\ ~closed')
  BY DEF FinishSucceeded, Finish
<1> QED
  BY <1>2, <1>3 DEF HonoursStop, StopFlags

LEMMA InterruptedHonours ==
    ASSUME TypeOK, StopFlags, session' \in BOOLEAN, closed' \in BOOLEAN,
           FinishInterrupted
    PROVE  HonoursStop
<1>1. CASE FinishBudget
  BY <1>1, FailedHonours DEF FinishBudget
<1>2. CASE FinishCancelled("cancelled", FALSE)
  BY <1>2, CancelledForGoodHonours
<1>3. CASE ~budgetStop /\ FinishCancelled("interrupted", TRUE)
  BY <1>3, PausedHonours
<1> QED
  BY <1>1, <1>2, <1>3 DEF FinishInterrupted

LEMMA QuietHonours == log' = log => HonoursStop
BY DEF HonoursStop, NewResult

LEMMA NextHonours ==
    ASSUME TypeOK, StopFlags, TypeOK', Next
    PROVE  HonoursStop
<1> session' \in BOOLEAN /\ closed' \in BOOLEAN
  BY DEF TypeOK
<1>1. ASSUME NEW r \in Runs, WrapperFails(r) PROVE HonoursStop
  <2>1. CASE FinishFailed(FALSE)
    BY <2>1, FailedHonours
  <2>2. CASE ~FinishFailed(FALSE)
    BY <1>1, <2>2, QuietHonours DEF WrapperFails, stream
  <2> QED
    BY <2>1, <2>2
<1>2. ASSUME NEW r, Stopped(r) PROVE HonoursStop
  <2>1. CASE FinishInterrupted
    BY <2>1, InterruptedHonours
  <2>2. CASE ~FinishInterrupted
    BY <1>2, <2>2, QuietHonours DEF Stopped, stream
  <2> QED
    BY <2>1, <2>2
<1>3. ASSUME NoFinish \/ UNCHANGED stream PROVE HonoursStop
  BY <1>3, QuietHonours DEF NoFinish, stream
<1>4. ASSUME NEW r \in Runs, RunStep(r) PROVE HonoursStop
  <2>1. CASE \/ PrepareFails(r) \/ WorkerNotReady(r) \/ QueryFails(r)
             \/ Unwind(r) \/ Raised(r)
    BY <1>1, <2>1 DEF PrepareFails, WorkerNotReady, QueryFails, Unwind, Raised
  <2>2. CASE FindsBudgetSpent(r)
    BY <2>2, FailedHonours DEF FindsBudgetSpent, FinishBudget
  <2>3. CASE EndOfOutput(r)
    BY <1>3, <2>3, InterruptedHonours DEF EndOfOutput
  <2>4. CASE \/ ReusesWorker(r) \/ SpawnsWorker(r) \/ WorkerReady(r)
             \/ QuerySent(r) \/ WorkerClosed(r) \/ AskAnswered(r)
    BY <1>3, <2>4 DEF ReusesWorker, SpawnsWorker, WorkerReady, QuerySent,
       WorkerClosed, AskAnswered, AskContinues
  <2> QED
    BY <1>4, <2>1, <2>2, <2>3, <2>4 DEF RunStep
<1>5. ASSUME NEW r \in Runs, ResultMessage(r) PROVE HonoursStop
  <2>1. CASE FinishInterrupted
    BY <2>1, InterruptedHonours
  <2>2. CASE ~interruptRequested /\ \E m \in BOOLEAN : FinishFailed(m)
    BY <2>2, FailedHonours DEF StopFlags
  <2>3. CASE ~interruptRequested /\ FinishSucceeded
    BY <2>3, SucceededHonours
  <2> QED
    BY <1>5, <2>1, <2>2, <2>3 DEF ResultMessage, FinishBudget
<1>6. ASSUME NEW r \in Runs,
             \/ OtherMessage(r) \/ ErrorMessage(r) \/ PermissionRequest(r)
             \/ AskTimesOut(r) \/ Respond(r)
      PROVE HonoursStop
  BY <1>3, <1>6 DEF OtherMessage, ErrorMessage, PermissionRequest, AskTimesOut,
     AskContinues, Respond
<1>7. ASSUME NEW r \in Runs, ForceFires(r) PROVE HonoursStop
  BY <1>2, <1>3, <1>7 DEF ForceFires
<1>8. ASSUME \/ WorkerExits \/ ResumeNow \/ ResumeWaits \/ ResumeSettled
             \/ Interrupt \/ InterruptWritten \/ StopForBudget
             \/ WatchdogExpires \/ WatchdogInterrupted \/ CancelRunning
             \/ CancelInterrupted \/ CancelWaited \/ CancelReleases
      PROVE HonoursStop
  BY <1>3, <1>8, QuietHonours DEF WorkerExits, ResumeNow, ResumeWaits,
     ResumeSettled, Interrupt, InterruptWritten, StopForBudget, WatchdogExpires,
     WatchdogInterrupted, CancelRunning, CancelInterrupted, CancelWaited,
     CancelReleases
<1>9. ASSUME CancelIdle \/ CancelKills PROVE HonoursStop
  BY <1>2, <1>9, CancelledForGoodHonours DEF CancelIdle, CancelKills
<1> QED
  BY <1>4, <1>5, <1>6, <1>7, <1>8, <1>9 DEF Next, WorkerSays, Canceller

\* Whoever stops a run, and in whatever order the worker's own answer, a
\* budget stop, an interrupt and a cancel meet, no stopped run ends as a
\* success, no budget stop and no cancelled task is resumable.
THEOREM StopHonoured == Spec => StopIsHonoured
<1>1. TypeOK /\ TypeOK' /\ StopFlags /\ [Next]_vars => [HonoursStop]_vars
  BY NextHonours
<1> QED
  BY <1>1, TypeCorrect, StopFlagsInv, PTL DEF Spec, StopIsHonoured

-----------------------------------------------------------------------------
(* What holds of a run as long as one resume() of a task is in flight at a  *)
(* time: the inductive invariant, and that AgentRun then implements         *)
(* AgentStream.                                                             *)

\* A run task that still owns its run is the newest and its task is active;
\* a waiting resume() means nothing runs; a card is open only while its run
\* waits for it; watchdog and clock belong to a run.
SafeInv ==
    /\ OneRunAtATime
    /\ settling > 0 => ~active
    /\ \A r \in Runs : ask[r] = "open" => pc[r] = "ask"
    /\ ~active => watchdog = "off"
    /\ clock => active /\ Open = {}

LEMMA SafeInit == Init => SafeInv
BY DEF Init, InitRest, StartedTask, RestoredTask, SafeInv, OneRunAtATime, Live,
       Consuming, Open

\* A run owned by r ends: whatever the ending, the task is quiet afterwards.
LEMMA EndingIsSafe ==
    ASSUME TypeOK, SafeInv, NEW r, r \in Runs \/ r = runNo, NEW w \in {"unwind", "done"},
           settling' = settling, runNo' = runNo, Goto(r, w),
           pc[r] \in Live \/ Mine(r),
           NEW events, NEW st, NEW reason, NEW mayResume,
           Finish(events, st, reason, mayResume)
    PROVE  SafeInv'
<1>1. ~active' /\ watchdog' = "off" /\ ~clock'
  BY DEF Finish
<1>2. \A s \in Runs : ask'[s] # "open"
  BY DEF Finish, DenyAll, Open
<1>3. \A s \in Runs : pc'[s] \notin Live
  BY DEF Goto, TypeOK, SafeInv, OneRunAtATime, Live, Consuming, Mine
<1> QED
  BY <1>1, <1>2, <1>3 DEF SafeInv, OneRunAtATime

\* An ending of any kind.
Ending ==
    \/ FinishInterrupted \/ FinishSucceeded
    \/ \E m \in BOOLEAN : FinishFailed(m)

LEMMA AnyEndingIsSafe ==
    ASSUME TypeOK, SafeInv, NEW r, r \in Runs \/ r = runNo, NEW w \in {"unwind", "done"},
           settling' = settling, runNo' = runNo, Goto(r, w),
           pc[r] \in Live \/ Mine(r), Ending
    PROVE  SafeInv'
BY EndingIsSafe DEF Ending, FinishInterrupted, FinishSucceeded, FinishFailed,
   FinishBudget, FinishCancelled

\* A run task that lost its run finishes beside the newer one.
LEMMA LateFinalizerIsSafe ==
    ASSUME TypeOK, SafeInv, NEW r, r \in Runs \/ r = runNo, NEW w \in {"unwind", "done"},
           settling' = settling, runNo' = runNo, Goto(r, w), ~Mine(r),
           UNCHANGED <<clock, ask, stream>>,
           watchdog' = "off" \/ watchdog' = watchdog
    PROVE  SafeInv'
BY DEF Goto, TypeOK, SafeInv, OneRunAtATime, Live, Consuming, Mine, stream, Open

LEMMA WrapperIsSafe ==
    ASSUME TypeOK, SafeInv, NEW r \in Runs, WrapperFails(r),
           settling' = settling, runNo' = runNo
    PROVE  SafeInv'
<1>1. CASE Mine(r) /\ FinishFailed(FALSE)
  BY <1>1, AnyEndingIsSafe DEF WrapperFails, Ending
<1>2. CASE ~Mine(r)
  BY <1>2, LateFinalizerIsSafe DEF WrapperFails
<1> QED
  BY <1>1, <1>2 DEF WrapperFails

LEMMA StoppedIsSafe ==
    ASSUME TypeOK, SafeInv, NEW r, r \in Runs \/ r = runNo, Stopped(r),
           settling' = settling, runNo' = runNo
    PROVE  SafeInv'
<1>1. CASE /\ Mine(r) \/ (pc[r] \in Consuming /\ interruptRequested /\ active)
           /\ FinishInterrupted
  BY <1>1, AnyEndingIsSafe DEF Stopped, Ending, Live
<1>2. CASE ~Mine(r)
           /\ ~(pc[r] \in Consuming /\ interruptRequested /\ active)
  BY <1>2, LateFinalizerIsSafe DEF Stopped
<1> QED
  BY <1>1, <1>2 DEF Stopped

\* A run goes on from one of its own states to another, nothing else moves.
LEMMA MoveIsSafe ==
    ASSUME TypeOK, SafeInv, NEW r \in Runs, NEW w \in RunPc,
           pc[r] \in Live \ {"ask"}, Goto(r, w), settling' = settling,
           runNo' = runNo, NoFinish
    PROVE  SafeInv'
BY DEF Goto, TypeOK, SafeInv, OneRunAtATime, Live, Consuming, NoFinish, stream,
       Open, RunPc

LEMMA BeginsRunningIsSafe ==
    ASSUME TypeOK, SafeInv, NEW r \in Runs, pc[r] \in {"prepare", "start"},
           Goto(r, "query"), BeginRunning, settling' = settling,
           runNo' = runNo, UNCHANGED <<stream, ask>>
    PROVE  SafeInv'
BY DEF Goto, TypeOK, SafeInv, OneRunAtATime, Live, Consuming, BeginRunning,
       stream, Open

\* An answered approval lets its run go on, if there is one.
LEMMA AskEndsIsSafe ==
    ASSUME TypeOK, SafeInv, NEW r \in Runs, pc[r] = "ask", AskContinues(r),
           ask'[r] = "none", \A s \in Runs : ask'[s] = "open" => ask[s] = "open"
    PROVE  SafeInv'
<1>1. r = runNo /\ active /\ active' /\ runNo' = runNo /\ settling' = settling
  BY DEF SafeInv, OneRunAtATime, Live, Consuming, AskContinues, stream, calls
<1>2. Goto(r, "consume")
  BY <1>1 DEF AskContinues, NextMessage
<1>3. \A s \in Runs : ask'[s] # "open"
  BY <1>1 DEF TypeOK, SafeInv, OneRunAtATime, Live, Consuming
<1>4. \A s \in Runs : pc'[s] \in Live => s = runNo'
  BY <1>1, <1>2 DEF Goto, TypeOK, SafeInv, OneRunAtATime
<1> QED
  BY <1>1, <1>3, <1>4 DEF SafeInv, OneRunAtATime, Open

LEMMA RunStepIsSafe ==
    ASSUME TypeOK, SafeInv, NEW r \in Runs, RunStep(r)
    PROVE  SafeInv'
<1>1. CASE PrepareFails(r) \/ Unwind(r) \/ Raised(r)
  BY <1>1, WrapperIsSafe DEF PrepareFails, Unwind, Raised, calls
<1>2. CASE FindsBudgetSpent(r)
  BY <1>2, AnyEndingIsSafe DEF FindsBudgetSpent, FinishBudget, Ending, calls, Live
<1>3. CASE ReusesWorker(r)
  BY <1>3, BeginsRunningIsSafe DEF ReusesWorker, calls
<1>4. CASE SpawnsWorker(r)
  BY <1>4, MoveIsSafe DEF SpawnsWorker, calls, Live, RunPc
<1>5. CASE WorkerReady(r)
  BY <1>5, BeginsRunningIsSafe DEF WorkerReady, calls
<1>6. CASE WorkerNotReady(r)
  BY <1>6, WrapperIsSafe DEF WorkerNotReady, calls
<1>7. CASE QuerySent(r)
  BY <1>7, MoveIsSafe DEF QuerySent, calls, Live, RunPc
<1>8. CASE QueryFails(r)
  BY <1>8, WrapperIsSafe DEF QueryFails, calls
<1>9. CASE WorkerClosed(r)
  BY <1>9, MoveIsSafe DEF WorkerClosed, calls, Live, Consuming, RunPc
<1>10. CASE EndOfOutput(r)
  <2>1. CASE NoFinish /\ Goto(r, "raised")
    BY <1>10, <2>1, MoveIsSafe DEF EndOfOutput, calls, Live, Consuming, RunPc
  <2>2. CASE interruptRequested /\ FinishInterrupted /\ Goto(r, "unwind")
    BY <1>10, <2>2, AnyEndingIsSafe DEF EndOfOutput, Ending, calls, Live, Consuming
  <2> QED
    BY <1>10, <2>1, <2>2 DEF EndOfOutput
<1>11. CASE AskAnswered(r)
  <2>1. ask'[r] = "none" /\ \A s \in Runs : ask'[s] = "open" => ask[s] = "open"
    BY <1>11 DEF AskAnswered, TypeOK
  <2> QED
    BY <1>11, <2>1, AskEndsIsSafe DEF AskAnswered
<1> QED
  BY <1>1, <1>2, <1>3, <1>4, <1>5, <1>6, <1>7, <1>8, <1>9, <1>10, <1>11
     DEF RunStep
LEMMA WorkerSaysIsSafe ==
    ASSUME TypeOK, SafeInv, NEW r \in Runs, WorkerSays(r)
    PROVE  SafeInv'
<1>1. CASE OtherMessage(r)
  BY <1>1, MoveIsSafe
     DEF OtherMessage, NextMessage, calls, Live, Consuming, RunPc
<1>2. CASE ErrorMessage(r)
  BY <1>2, MoveIsSafe DEF ErrorMessage, calls, Live, Consuming, RunPc
<1>3. CASE ResultMessage(r)
  <2>1. Ending
    BY <1>3 DEF ResultMessage, Ending, FinishBudget
  <2> QED
    BY <1>3, <2>1, AnyEndingIsSafe DEF ResultMessage, calls, Live, Consuming
<1>4. CASE PermissionRequest(r)
  BY <1>4 DEF PermissionRequest, Goto, TypeOK, SafeInv, OneRunAtATime, Live,
     Consuming, stream, calls, Open
<1> QED
  BY <1>1, <1>2, <1>3, <1>4 DEF WorkerSays

LEMMA AskTimesOutIsSafe ==
    ASSUME TypeOK, SafeInv, NEW r \in Runs, AskTimesOut(r)
    PROVE  SafeInv'
<1>1. ask'[r] = "none" /\ \A s \in Runs : ask'[s] = "open" => ask[s] = "open"
  BY DEF AskTimesOut, TypeOK
<1> QED
  BY <1>1, AskEndsIsSafe DEF AskTimesOut

\* Only calls in flight, cards and workers change: no run moves or begins.
LEMMA RunsUntouchedIsSafe ==
    ASSUME TypeOK, SafeInv, UNCHANGED <<pc, runNo, clock, stream>>,
           settling' = settling,
           watchdog' = watchdog \/ watchdog' = "off" \/ active,
           \A s \in Runs : ask'[s] = "open" => ask[s] = "open"
    PROVE  SafeInv'
BY DEF SafeInv, OneRunAtATime, Live, Consuming, stream, Open

LEMMA ForceFiresIsSafe ==
    ASSUME TypeOK, SafeInv, NEW r \in Runs, ForceFires(r)
    PROVE  SafeInv'
<1>1. CASE Stopped(r)
  BY <1>1, StoppedIsSafe DEF ForceFires
<1>2. CASE NoFinish /\ UNCHANGED pc
  BY <1>2, RunsUntouchedIsSafe DEF ForceFires, NoFinish
<1> QED
  BY <1>1, <1>2 DEF ForceFires

\* A launch is safe when no run is active and nobody else waits to launch.
LEMMA LaunchIsSafe ==
    ASSUME TypeOK, SafeInv, Launch, ~active, settling' = 0, runNo < MaxRuns,
           UNCHANGED <<ask, watchdog, clock>>
    PROVE  SafeInv'
<1>1. runNo' = runNo + 1 /\ runNo + 1 \in Runs /\ active'
  BY BoundsAssumption DEF Launch, TypeOK, Runs
<1>2. \A s \in Runs : pc[s] \notin Live
  BY DEF SafeInv, OneRunAtATime
<1>3. \A s \in Runs : pc'[s] \in Live => s = runNo'
  BY <1>1, <1>2 DEF Launch, Goto, TypeOK
<1>4. \A s \in Runs : ask'[s] # "open"
  BY <1>2 DEF SafeInv, Live, Consuming
<1> QED
  BY <1>1, <1>3, <1>4 DEF SafeInv, OneRunAtATime, Open

LEMMA CallerIsSafe ==
    ASSUME ResumeCallers = 1, TypeOK, SafeInv,
           \/ WorkerExits \/ ResumeNow \/ ResumeWaits \/ ResumeSettled
           \/ Interrupt \/ InterruptWritten \/ StopForBudget
           \/ WatchdogExpires \/ WatchdogInterrupted
           \/ \E r \in Runs : Respond(r)
    PROVE  SafeInv'
<1>1. CASE WorkerExits
  BY <1>1, RunsUntouchedIsSafe DEF WorkerExits, NoFinish, calls
<1>2. CASE ResumeNow
  <2>1. ~active /\ settling' = 0
    BY <1>2 DEF ResumeNow, MayResume, TypeOK, calls
  <2> QED
    BY <1>2, <2>1, LaunchIsSafe DEF ResumeNow
<1>3. CASE ResumeWaits
  BY <1>3 DEF ResumeWaits, MayResume, NoFinish, stream, SafeInv, OneRunAtATime,
     Open
<1>4. CASE ResumeSettled
  <2>1. ~active /\ settling' = 0
    BY <1>4 DEF ResumeSettled, SafeInv, TypeOK
  <2> QED
    BY <1>4, <2>1, LaunchIsSafe DEF ResumeSettled
<1>5. CASE Interrupt \/ StopForBudget
  BY <1>5, RunsUntouchedIsSafe DEF Interrupt, StopForBudget, DenyAll, TypeOK
<1>6. CASE InterruptWritten
  BY <1>6, RunsUntouchedIsSafe DEF InterruptWritten, NoFinish
<1>7. CASE WatchdogExpires
  BY <1>7, RunsUntouchedIsSafe DEF WatchdogExpires, DenyAll, TypeOK
<1>8. CASE WatchdogInterrupted
  BY <1>8, RunsUntouchedIsSafe DEF WatchdogInterrupted
<1>9. CASE \E r \in Runs : Respond(r)
  BY <1>9, RunsUntouchedIsSafe DEF Respond, calls, TypeOK
<1> QED
  BY <1>1, <1>2, <1>3, <1>4, <1>5, <1>6, <1>7, <1>8, <1>9

LEMMA CancelIsSafe ==
    ASSUME TypeOK, SafeInv, CancelRunning \/ CancelIdle \/ Canceller
    PROVE  SafeInv'
<1>1. CASE CancelRunning
  BY <1>1, RunsUntouchedIsSafe DEF CancelRunning, DenyAll, TypeOK
<1>2. CASE CancelIdle
  BY <1>2 DEF CancelIdle, FinishCancelled, Finish, DenyAll, SafeInv,
     OneRunAtATime, Open, TypeOK
<1>3. CASE CancelInterrupted \/ CancelWaited
  BY <1>3, RunsUntouchedIsSafe DEF CancelInterrupted, CancelWaited, NoFinish
<1>4. CASE CancelKills
  BY <1>4, StoppedIsSafe DEF CancelKills
<1>5. CASE CancelReleases
  BY <1>5, RunsUntouchedIsSafe DEF CancelReleases, DenyAll, TypeOK
<1> QED
  BY <1>1, <1>2, <1>3, <1>4, <1>5 DEF Canceller

LEMMA NextIsSafe ==
    ASSUME ResumeCallers = 1, TypeOK, SafeInv, [Next]_vars
    PROVE  SafeInv'
<1>1. CASE UNCHANGED vars
  BY <1>1 DEF vars, calls, stream, SafeInv, OneRunAtATime, Live, Consuming, Open
<1>2. CASE Next
  BY <1>2, RunStepIsSafe, WorkerSaysIsSafe, AskTimesOutIsSafe, ForceFiresIsSafe,
     CallerIsSafe, CancelIsSafe DEF Next
<1> QED
  BY <1>1, <1>2

LEMMA SafeAlways == ASSUME ResumeCallers = 1 PROVE Spec => []SafeInv
<1>1. TypeOK /\ SafeInv /\ [Next]_vars => SafeInv'
  BY NextIsSafe
<1> QED
  BY SafeInit, TypeCorrect, <1>1, PTL DEF Spec

\* Of the run tasks of a task only the newest can still own its run, an idle
\* task has no open card and no watchdog, and the clock runs only while the
\* agent itself works - provided that no two resume() calls are in flight.
THEOREM RunsAreSafe ==
    ASSUME ResumeCallers = 1
    PROVE  Spec => []RunsInOrder
<1>1. SafeInv => RunsInOrder
  BY DEF SafeInv, RunsInOrder, OneRunAtATime, IdleIsQuiet, ClockIsAgentsTime, Open, Live,
     Consuming
<1> QED
  BY SafeAlways, <1>1, PTL

-----------------------------------------------------------------------------
(* Workers *)

Started == {"query"} \cup Consuming               \* has a worker to read from

\* A worker is spawned only when the transport is none or dead, and a run with
\* a worker reads from the transport, if there is still one; the transport was
\* started by a run that has got beyond starting it.
WorkerInv ==
    /\ WorkerAccounted
    /\ canceller # "none" => closed
    /\ transport <= runNo
    /\ \A r \in Runs :
          /\ pc[r] \in {"prepare", "start"} => transport # r
          /\ pc[r] = "start" => ~Alive(transport) \/ closed
          /\ pc[r] \in Started => transport \in {0, reader[r]}

LEMMA WorkerInit == Init => WorkerInv
BY BoundsAssumption DEF Init, InitRest, StartedTask, RestoredTask, WorkerInv,
   WorkerAccounted, Started, Consuming, Alive, Runs

\* Run r stays where it is, goes on with its worker, or ends; one whose worker
\* is still being started is ended only with the task.
GetsOn(r) ==
    \/ pc'[r] = pc[r]
    \/ pc[r] \in Started /\ pc'[r] \in Started
    \/ /\ pc'[r] \notin {"prepare", "start"} \cup Started
       /\ pc[r] # "start" \/ closed

SameWorkers ==
    /\ closed' = closed /\ runNo' = runNo /\ reader' = reader
    /\ canceller' # "none" => closed

LEMMA WorkersKept ==
    ASSUME TypeOK, WorkerInv, SameWorkers, transport' = transport, proc' = proc,
           \A r \in Runs : GetsOn(r)
    PROVE  WorkerInv'
BY DEF WorkerInv, WorkerAccounted, Alive, Started, Consuming, SameWorkers, GetsOn

LEMMA WorkersClosed ==
    ASSUME TypeOK, WorkerInv, SameWorkers, CloseTransport,
           \A r \in Runs : GetsOn(r)
    PROVE  WorkerInv'
BY DEF WorkerInv, WorkerAccounted, Alive, CloseTransport, TypeOK, Started, Consuming,
   Runs, SameWorkers, GetsOn

\* A step of one run.
LEMMA OneGetsOn ==
    ASSUME TypeOK, NEW r \in Runs, NEW where, Goto(r, where),
           \/ where = pc[r]
           \/ pc[r] \in Started /\ where \in Started
           \/ /\ where \notin {"prepare", "start"} \cup Started
              /\ pc[r] # "start" \/ closed
    PROVE  \A s \in Runs : GetsOn(s)
BY DEF Goto, GetsOn, TypeOK

LEMMA RunStepWorkers ==
    ASSUME TypeOK, SafeInv, WorkerInv, NEW r \in Runs, RunStep(r)
    PROVE  WorkerInv'
<1>1. CASE PrepareFails(r) \/ FindsBudgetSpent(r) \/ QueryFails(r) \/ Unwind(r)
           \/ Raised(r) \/ QuerySent(r) \/ WorkerClosed(r) \/ AskAnswered(r)
  <2>1. SameWorkers /\ transport' = transport /\ proc' = proc
    BY <1>1 DEF PrepareFails, FindsBudgetSpent, QueryFails, Unwind, Raised, QuerySent,
       WorkerClosed, AskAnswered, AskContinues, workers, calls, SameWorkers, WorkerInv
  <2>2. \A s \in Runs : GetsOn(s)
    <3>1. pc[r] \notin {"start", "none"}
      BY <1>1 DEF PrepareFails, FindsBudgetSpent, QueryFails, Unwind, Raised,
         QuerySent, WorkerClosed, AskAnswered
    <3>2. CASE Goto(r, "done") \/ Goto(r, "raised")
      BY <3>1, <3>2, OneGetsOn DEF Started, Consuming
    <3>3. CASE QuerySent(r)
      BY <3>3, OneGetsOn DEF QuerySent, Started, Consuming
    <3>4. CASE AskAnswered(r)
      BY <3>1, <3>4, OneGetsOn
         DEF AskAnswered, AskContinues, NextMessage, Started, Consuming
    <3> QED
      BY <1>1, <3>2, <3>3, <3>4 DEF PrepareFails, FindsBudgetSpent, QueryFails,
         Unwind, Raised, WorkerClosed, WrapperFails
  <2> QED
    BY <2>1, <2>2, WorkersKept
<1>2. CASE ReusesWorker(r)
  BY <1>2 DEF ReusesWorker, Goto, workers, calls, WorkerInv, WorkerAccounted, Alive,
     Started, Consuming, TypeOK
<1>3. CASE SpawnsWorker(r)
  BY <1>3 DEF SpawnsWorker, Goto, calls, WorkerInv, WorkerAccounted, Alive, Started,
     Consuming, TypeOK
<1>4. CASE WorkerReady(r)
  <2>1. r = runNo /\ \A s \in Runs \ {r} : pc[s] \notin Live
    BY <1>4 DEF WorkerReady, SafeInv, OneRunAtATime, Live
  <2>2. /\ closed' = closed /\ proc' = proc /\ runNo' = runNo /\ transport' = r
        /\ canceller' = canceller
        /\ pc' = [pc EXCEPT ![r] = "query"] /\ reader' = [reader EXCEPT ![r] = r]
    BY <1>4 DEF WorkerReady, Goto, calls
  <2>3. \A s \in Runs \ {r} : pc'[s] \notin Live
    BY <2>1, <2>2 DEF TypeOK
  <2>4. WorkerAccounted'
    BY <1>4, <2>1, <2>2 DEF WorkerInv, WorkerAccounted, WorkerReady, Alive, Live, Runs
  <2>5. \A s \in Runs : pc'[s] \in Started => transport' \in {0, reader'[s]}
    BY <2>1, <2>2, <2>3 DEF Live, Started, Consuming, TypeOK
  <2>6. \A s \in Runs : pc'[s] \notin {"prepare", "start"}
    BY <2>1, <2>2, <2>3 DEF Live, TypeOK
  <2>7. (canceller # "none" => closed)' /\ (transport <= runNo)'
    BY <2>1, <2>2 DEF WorkerInv, TypeOK, Runs
  <2> QED
    BY <2>4, <2>5, <2>6, <2>7 DEF WorkerInv
<1>5. CASE WorkerNotReady(r)
  BY <1>5 DEF WorkerNotReady, WrapperFails, Goto, calls, WorkerInv, WorkerAccounted,
     Alive, Started, Consuming, TypeOK
<1>6. CASE EndOfOutput(r)
  <2>1. \A p \in Runs : proc[p] = "alive" => p # transport
    BY <1>6 DEF EndOfOutput, WorkerInv, Alive, Started, Consuming, Runs
  <2>2. SameWorkers /\ transport' = 0 /\ proc' = proc
    BY <1>6 DEF EndOfOutput, calls, SameWorkers, WorkerInv
  <2>3. \A s \in Runs : GetsOn(s)
    BY <1>6, OneGetsOn DEF EndOfOutput, Started, Consuming
  <2> QED
    BY <2>1, <2>2, <2>3 DEF WorkerInv, WorkerAccounted, SameWorkers, GetsOn, Alive,
       TypeOK, Started, Consuming, Runs
<1> QED
  BY <1>1, <1>2, <1>3, <1>4, <1>5, <1>6 DEF RunStep

LEMMA WorkerSaysWorkers ==
    ASSUME TypeOK, WorkerInv, NEW r \in Runs,
           WorkerSays(r) \/ AskTimesOut(r) \/ Respond(r)
    PROVE  WorkerInv'
<1>1. SameWorkers
  BY DEF WorkerSays, ErrorMessage, OtherMessage, ResultMessage, PermissionRequest,
     AskTimesOut, AskContinues, Respond, workers, calls, SameWorkers, WorkerInv
<1>2. \A s \in Runs : GetsOn(s)
  <2>1. CASE Respond(r)
    BY <2>1 DEF Respond, GetsOn
  <2>2. CASE WorkerSays(r) \/ AskTimesOut(r)
    <3>1. pc[r] \in Started
      BY <2>2 DEF WorkerSays, ErrorMessage, OtherMessage, ResultMessage,
         PermissionRequest, AskTimesOut, Started, Consuming
    <3>2. PICK where \in {"consume", "ask", "closing", "unwind"} : Goto(r, where)
      BY <2>2 DEF WorkerSays, ErrorMessage, OtherMessage, ResultMessage,
         PermissionRequest, AskTimesOut, AskContinues, NextMessage
    <3> QED
      BY <3>1, <3>2, OneGetsOn DEF Started, Consuming
  <2> QED
    BY <2>1, <2>2
<1>3. CASE ErrorMessage(r)
  BY <1>1, <1>2, <1>3, WorkersClosed DEF ErrorMessage
<1>4. CASE OtherMessage(r) \/ ResultMessage(r) \/ PermissionRequest(r)
           \/ AskTimesOut(r) \/ Respond(r)
  <2>1. transport' = transport /\ proc' = proc
    BY <1>4 DEF OtherMessage, ResultMessage, PermissionRequest, AskTimesOut,
       AskContinues, Respond, workers
  <2> QED
    BY <1>1, <1>2, <2>1, WorkersKept
<1> QED
  BY <1>3, <1>4 DEF WorkerSays

LEMMA CallersWorkers ==
    ASSUME ResumeCallers = 1, TypeOK, SafeInv, WorkerInv,
           \/ WorkerExits \/ ResumeNow \/ ResumeWaits \/ ResumeSettled
           \/ Interrupt \/ InterruptWritten \/ StopForBudget
           \/ WatchdogExpires \/ WatchdogInterrupted
           \/ CancelRunning \/ CancelIdle \/ Canceller
           \/ \E r \in Runs : ForceFires(r)
    PROVE  WorkerInv'
<1>1. CASE ResumeNow \/ ResumeSettled
  <2>1. /\ closed' = closed /\ transport' = transport /\ proc' = proc
        /\ reader' = reader /\ canceller' = canceller
        /\ runNo' = runNo + 1 /\ pc' = [pc EXCEPT ![runNo + 1] = "prepare"]
    BY <1>1 DEF ResumeNow, ResumeSettled, Launch, Goto, workers, calls
  <2>2. \A r \in Runs : pc[r] \notin Live
    BY <1>1 DEF ResumeNow, ResumeSettled, MayResume, SafeInv, OneRunAtATime
  <2>3. \A r \in Runs : pc'[r] # "start" /\ pc'[r] \notin Started
                         /\ (pc'[r] = "prepare" => r = runNo + 1)
    BY <2>1, <2>2 DEF Live, Started, Consuming, TypeOK
  <2>4. transport <= runNo /\ transport \in Nat /\ runNo \in Nat
    BY BoundsAssumption DEF WorkerInv, TypeOK
  <2>5. WorkerAccounted'
    BY <2>1, <2>2 DEF WorkerInv, WorkerAccounted, Live
  <2> QED
    BY <2>1, <2>3, <2>4, <2>5 DEF WorkerInv
<1>2. CASE ResumeWaits \/ Interrupt \/ InterruptWritten \/ StopForBudget
           \/ WatchdogExpires \/ WatchdogInterrupted \/ CancelInterrupted
           \/ CancelWaited
  <2>1. SameWorkers /\ transport' = transport /\ proc' = proc /\ pc' = pc
    BY <1>2 DEF ResumeWaits, Interrupt, InterruptWritten, StopForBudget,
       WatchdogExpires, WatchdogInterrupted, CancelInterrupted, CancelWaited,
       workers, WorkerInv, SameWorkers
  <2> QED
    BY <2>1, WorkersKept DEF GetsOn
<1>3. CASE CancelRunning \/ CancelIdle
  BY <1>3 DEF CancelRunning, CancelIdle, workers, WorkerInv, WorkerAccounted, Alive
<1>4. CASE WorkerExits
  BY <1>4 DEF WorkerExits, WorkerInv, WorkerAccounted, Alive, calls, TypeOK
<1>5. CASE CancelReleases
  <2>1. SameWorkers /\ CloseTransport /\ pc' = pc
    BY <1>5 DEF CancelReleases, WorkerInv, SameWorkers
  <2> QED
    BY <2>1, WorkersClosed DEF GetsOn
<1>6. CASE CancelKills
  <2>1. closed /\ SameWorkers /\ transport' = transport /\ proc' = proc
    BY <1>6 DEF CancelKills, WorkerInv, SameWorkers, workers
  <2>2. \A s \in Runs : GetsOn(s)
    BY <1>6, <2>1 DEF CancelKills, Stopped, Goto, TypeOK, GetsOn, Started, Consuming
  <2> QED
    BY <2>1, <2>2, WorkersKept
<1>7. ASSUME NEW r \in Runs, ForceFires(r) PROVE WorkerInv'
  <2>1. SameWorkers
    BY <1>7 DEF ForceFires, WorkerInv, SameWorkers
  <2>2. CASE pc[r] \in Consuming /\ active
    <3>1. CloseTransport /\ Goto(r, "done")
      BY <1>7, <2>2 DEF ForceFires, Stopped
    <3>2. \A s \in Runs : GetsOn(s)
      BY <2>2, <3>1, OneGetsOn DEF Started, Consuming
    <3> QED
      BY <2>1, <3>1, <3>2, WorkersClosed
  <2>3. CASE ~(pc[r] \in Consuming /\ active)
    <3>1. transport' = transport /\ proc' = proc /\ pc' = pc
      BY <1>7, <2>3 DEF ForceFires
    <3> QED
      BY <2>1, <3>1, WorkersKept DEF GetsOn
  <2> QED
    BY <2>2, <2>3
<1> QED
  BY <1>1, <1>2, <1>3, <1>4, <1>5, <1>6, <1>7 DEF Canceller

\* Until a task is cancelled, each live worker process is its transport, which
\* somebody closes, or is still being started: none leaks, whatever fails and
\* whoever stops or resumes.
THEOREM NoWorkerLeaks ==
    ASSUME ResumeCallers = 1
    PROVE  Spec => []WorkersAccounted
<1>1. TypeOK /\ SafeInv /\ WorkerInv /\ [Next]_vars => WorkerInv'
  <2> SUFFICES ASSUME TypeOK, SafeInv, WorkerInv, [Next]_vars PROVE WorkerInv'
    OBVIOUS
  <2>1. CASE UNCHANGED vars
    <3>1. SameWorkers /\ transport' = transport /\ proc' = proc /\ pc' = pc
      BY <2>1 DEF vars, workers, calls, WorkerInv, SameWorkers
    <3> QED
      BY <3>1, WorkersKept DEF GetsOn
  <2>2. CASE Next
    BY <2>2, RunStepWorkers, WorkerSaysWorkers, CallersWorkers DEF Next
  <2> QED
    BY <2>1, <2>2
<1>2. TypeOK /\ WorkerInv => WorkersAccounted
  BY DEF WorkerInv, WorkersAccounted
<1> QED
  BY TypeCorrect, SafeAlways, WorkerInit, <1>1, <1>2, PTL DEF Spec

-----------------------------------------------------------------------------
(* Grants *)

\* A destructive tool never gets a grant for the whole task, whoever answers
\* its cards and however: each of its calls asks a person.
THEOREM GrantsStayOrdinary == Spec => []DestructiveAlwaysAsk
<1>1. Init => DestructiveAlwaysAsk
  BY DEF Init, InitRest, DestructiveAlwaysAsk
<1>2. DestructiveAlwaysAsk /\ [Next]_vars => DestructiveAlwaysAsk'
  <2> SUFFICES ASSUME DestructiveAlwaysAsk, [Next]_vars
               PROVE  DestructiveAlwaysAsk'
    OBVIOUS
  <2>1. ASSUME grants' \in {grants, {}} PROVE DestructiveAlwaysAsk'
    BY <2>1 DEF DestructiveAlwaysAsk
  <2>2. CASE \E r \in Runs : Respond(r)
    BY <2>2 DEF Respond, DestructiveAlwaysAsk
  <2>3. CASE CancelReleases \/ UNCHANGED vars
    BY <2>1, <2>3 DEF CancelReleases, vars
  <2>4. CASE \E r \in Runs : RunStep(r)
    BY <2>1, <2>4 DEF RunStep, PrepareFails, FindsBudgetSpent, ReusesWorker,
       SpawnsWorker, WorkerReady, WorkerNotReady, QuerySent, QueryFails, Unwind,
       Raised, WorkerClosed, EndOfOutput, AskAnswered, AskContinues
  <2>5. CASE \E r \in Runs : WorkerSays(r) \/ AskTimesOut(r) \/ ForceFires(r)
    BY <2>1, <2>5 DEF WorkerSays, OtherMessage, ErrorMessage, ResultMessage,
       PermissionRequest, AskTimesOut, AskContinues, ForceFires
  <2>6. CASE \/ WorkerExits \/ ResumeNow \/ ResumeWaits \/ ResumeSettled
             \/ Interrupt \/ InterruptWritten \/ StopForBudget
             \/ WatchdogExpires \/ WatchdogInterrupted
             \/ CancelRunning \/ CancelIdle
             \/ CancelInterrupted \/ CancelWaited \/ CancelKills
    BY <2>1, <2>6 DEF WorkerExits, ResumeNow, ResumeWaits, ResumeSettled, Interrupt,
       InterruptWritten, StopForBudget, WatchdogExpires, WatchdogInterrupted,
       CancelRunning, CancelIdle, CancelInterrupted, CancelWaited, CancelKills
  <2> QED
    BY <2>2, <2>3, <2>4, <2>5, <2>6 DEF Next, Canceller
<1> QED
  BY <1>1, <1>2, PTL DEF Spec

-----------------------------------------------------------------------------
(* AgentRun implements AgentStream *)

StreamStep == Stream!StreamNext \/ UNCHANGED <<active, log>>

LEMMA FailedStreams ==
    ASSUME TypeOK, active, NEW mayResume \in BOOLEAN, FinishFailed(mayResume)
    PROVE  Stream!Fail
<1>1. resumable' \in BOOLEAN
  BY DEF FinishFailed, Finish
<1>2. /\ ~active'
      /\ log' = Append(log \o << [type |-> "error"] >>,
                       [type |-> "result", state |-> "failed",
                        reason |-> "none", resumable |-> resumable'])
  BY DEF FinishFailed, Finish
<1> QED
  BY <1>1, <1>2 DEF Stream!Fail, FinishFailed, Finish

\* An ending without an error is an honest result at the end of the log.
LEMMA EndedStreams ==
    ASSUME TypeOK, active,
           NEW st \in {"succeeded", "cancelled"}, NEW reason, NEW mayResume,
           resumable' \in BOOLEAN,
           [type |-> "result", state |-> st, reason |-> reason,
            resumable |-> resumable'] \in Stream!ResultEvent,
           reason = "cancelled" => ~mayResume,
           Finish(<< >>, st, reason, mayResume)
    PROVE  Stream!End
<1> DEFINE res == [type |-> "result", state |-> st, reason |-> reason,
                   resumable |-> resumable']
<1>1. Stream!Honest(res) /\ res.state # "failed"
  BY DEF Stream!Honest, Finish
<1>2. log' = Append(log, res) /\ active' = FALSE
  <2>1. log \o << >> = log
    BY DEF TypeOK
  <2> QED
    BY <2>1 DEF Finish
<1>3. res \in Stream!ResultEvent
  OBVIOUS
<1> HIDE DEF res
<1> QED
  BY <1>1, <1>2, <1>3 DEF Stream!End

LEMMA SucceededStreams ==
    ASSUME TypeOK, active, FinishSucceeded
    PROVE  Stream!End
<1>1. resumable' \in BOOLEAN
  BY DEF FinishSucceeded, Finish
<1>2. [type |-> "result", state |-> "succeeded", reason |-> "none",
       resumable |-> resumable'] \in Stream!ResultEvent
  BY <1>1 DEF Stream!ResultEvent
<1> QED
  BY <1>1, <1>2, EndedStreams DEF FinishSucceeded

LEMMA CancelledStreams ==
    ASSUME TypeOK, active, NEW reason \in {"interrupted", "cancelled"},
           NEW mayResume \in BOOLEAN, reason = "cancelled" => ~mayResume,
           FinishCancelled(reason, mayResume)
    PROVE  Stream!End
<1>1. resumable' \in BOOLEAN
  BY DEF FinishCancelled, Finish
<1>2. [type |-> "result", state |-> "cancelled", reason |-> reason,
       resumable |-> resumable'] \in Stream!ResultEvent
  BY <1>1 DEF Stream!ResultEvent, Stream!Reasons
<1> QED
  BY <1>1, <1>2, EndedStreams DEF FinishCancelled

LEMMA EndingStreams ==
    ASSUME TypeOK, active, Ending
    PROVE  StreamStep
<1>1. CASE FinishSucceeded
  BY <1>1, SucceededStreams DEF StreamStep, Stream!StreamNext
<1>2. CASE \E m \in BOOLEAN : FinishFailed(m)
  BY <1>2, FailedStreams DEF StreamStep, Stream!StreamNext
<1>3. CASE FinishInterrupted
  <2>1. CASE FinishBudget
    BY <2>1, FailedStreams DEF FinishBudget, StreamStep, Stream!StreamNext
  <2>2. CASE FinishCancelled("cancelled", FALSE)
    BY <2>2, CancelledStreams DEF StreamStep, Stream!StreamNext
  <2>3. CASE FinishCancelled("interrupted", TRUE)
    BY <2>3, CancelledStreams DEF StreamStep, Stream!StreamNext
  <2> QED
    BY <1>3, <2>1, <2>2, <2>3 DEF FinishInterrupted
<1> QED
  BY <1>1, <1>2, <1>3 DEF Ending

LEMMA WrapperStreams ==
    ASSUME TypeOK, NEW r, WrapperFails(r)
    PROVE  StreamStep
<1>1. CASE Mine(r) /\ FinishFailed(FALSE)
  BY <1>1, EndingStreams DEF Mine, Ending
<1>2. CASE UNCHANGED stream
  BY <1>2 DEF StreamStep, stream
<1> QED
  BY <1>1, <1>2 DEF WrapperFails

LEMMA StoppedStreams ==
    ASSUME TypeOK, NEW r, Stopped(r)
    PROVE  StreamStep
<1>1. CASE active /\ FinishInterrupted
  BY <1>1, EndingStreams DEF Ending
<1>2. CASE UNCHANGED stream
  BY <1>2 DEF StreamStep, stream
<1> QED
  BY <1>1, <1>2 DEF Stopped, Mine

LEMMA RunStreams ==
    ASSUME TypeOK, SafeInv, NEW r \in Runs,
           RunStep(r) \/ WorkerSays(r) \/ AskTimesOut(r) \/ ForceFires(r)
    PROVE  StreamStep
<1>1. pc[r] \in Live => active
  BY DEF SafeInv, OneRunAtATime
<1>2. CASE PrepareFails(r) \/ Unwind(r) \/ Raised(r) \/ WorkerNotReady(r)
           \/ QueryFails(r)
  BY <1>2, WrapperStreams
     DEF PrepareFails, Unwind, Raised, WorkerNotReady, QueryFails
<1>3. CASE FindsBudgetSpent(r)
  BY <1>1, <1>3, EndingStreams DEF FindsBudgetSpent, FinishBudget, Ending, Live
<1>4. CASE ReusesWorker(r) \/ WorkerReady(r) \/ PermissionRequest(r)
           \/ AskAnswered(r) \/ AskTimesOut(r)
  BY <1>4 DEF ReusesWorker, WorkerReady, PermissionRequest, AskAnswered,
     AskTimesOut, AskContinues, StreamStep, stream
<1>5. CASE SpawnsWorker(r) \/ QuerySent(r) \/ WorkerClosed(r)
           \/ OtherMessage(r) \/ ErrorMessage(r)
  BY <1>5 DEF SpawnsWorker, QuerySent, WorkerClosed, OtherMessage, ErrorMessage,
     NoFinish, StreamStep, stream
<1>6. CASE EndOfOutput(r)
  <2>1. CASE FinishInterrupted
    BY <1>1, <1>6, <2>1, EndingStreams DEF EndOfOutput, Ending, Live, Consuming
  <2>2. CASE NoFinish
    BY <2>2 DEF NoFinish, StreamStep, stream
  <2> QED
    BY <1>6, <2>1, <2>2 DEF EndOfOutput
<1>7. CASE ResultMessage(r)
  <2>1. Ending /\ active
    BY <1>1, <1>7 DEF ResultMessage, Ending, FinishBudget, Live, Consuming
  <2> QED
    BY <2>1, EndingStreams
<1>8. CASE ForceFires(r)
  <2>1. CASE Stopped(r)
    BY <2>1, StoppedStreams
  <2>2. CASE NoFinish
    BY <2>2 DEF NoFinish, StreamStep, stream
  <2> QED
    BY <1>8, <2>1, <2>2 DEF ForceFires
<1> QED
  BY <1>2, <1>3, <1>4, <1>5, <1>6, <1>7, <1>8 DEF RunStep, WorkerSays

LEMMA CallersStream ==
    ASSUME ResumeCallers = 1, TypeOK, SafeInv,
           \/ WorkerExits \/ ResumeNow \/ ResumeWaits \/ ResumeSettled
           \/ Interrupt \/ InterruptWritten \/ StopForBudget
           \/ WatchdogExpires \/ WatchdogInterrupted
           \/ CancelRunning \/ CancelIdle \/ Canceller
           \/ \E r \in Runs : Respond(r)
    PROVE  StreamStep
<1>1. CASE ResumeNow \/ ResumeSettled
  <2>1. ~active /\ active' = TRUE /\ log' = log
    BY <1>1 DEF ResumeNow, ResumeSettled, MayResume, Launch, SafeInv
  <2> QED
    BY <2>1 DEF StreamStep, Stream!StreamNext, Stream!Begin
<1>2. CASE WorkerExits \/ ResumeWaits \/ InterruptWritten \/ CancelInterrupted
           \/ CancelWaited
  BY <1>2 DEF WorkerExits, ResumeWaits, InterruptWritten, CancelInterrupted,
     CancelWaited, NoFinish, StreamStep, stream
<1>3. CASE Interrupt \/ StopForBudget \/ WatchdogExpires \/ WatchdogInterrupted
           \/ CancelRunning \/ CancelReleases \/ \E r \in Runs : Respond(r)
  BY <1>3 DEF Interrupt, StopForBudget, WatchdogExpires, WatchdogInterrupted,
     CancelRunning, CancelReleases, Respond, StreamStep, stream
<1>4. CASE CancelKills
  BY <1>4, StoppedStreams DEF CancelKills
<1>5. CASE CancelIdle
  <2>1. ~active /\ active' = active /\ ~resumable'
    BY <1>5 DEF CancelIdle, FinishCancelled, Finish, TypeOK
  <2>2. log \o << >> = log
    BY DEF TypeOK
  <2>3. resumable' = FALSE
    BY <1>5 DEF CancelIdle, FinishCancelled, Finish
  <2>4. Stream!CancelIdle
    BY <1>5, <2>1, <2>2, <2>3 DEF CancelIdle, FinishCancelled, Finish,
       Stream!CancelIdle
  <2> QED
    BY <2>4 DEF StreamStep, Stream!StreamNext
<1> QED
  BY <1>1, <1>2, <1>3, <1>4, <1>5 DEF Canceller

\* The error and result events a task emits are those of AgentStream: one
\* result per run, an error before each failed one, none outside a run, and
\* no cancelled task that promises to be resumable - provided that no two
\* resume() calls are in flight.
THEOREM RunImplementsStream ==
    ASSUME ResumeCallers = 1
    PROVE  Spec => ImplementsStream
<1>1. Init => Stream!StreamInit
  BY DEF Init, InitRest, StartedTask, RestoredTask, Stream!StreamInit
<1>2. TypeOK /\ SafeInv /\ [Next]_vars => [Stream!StreamNext]_(Stream!streamVars)
  <2>1. ASSUME TypeOK, SafeInv, Next PROVE StreamStep
    BY <2>1, RunStreams, CallersStream DEF Next
  <2>2. ASSUME UNCHANGED vars PROVE StreamStep
    BY <2>2 DEF vars, stream, StreamStep
  <2> QED
    BY <2>1, <2>2 DEF StreamStep, Stream!streamVars
<1> QED
  BY TypeCorrect, SafeAlways, <1>1, <1>2, PTL
     DEF Spec, ImplementsStream, Stream!StreamSpec
=============================================================================

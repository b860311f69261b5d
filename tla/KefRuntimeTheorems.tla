-------------------------- MODULE KefRuntimeTheorems --------------------------
(***************************************************************************)
(* Theorems about KefRuntime that rest on the inductive invariant: what a  *)
(* step may never do, what the worker never misses, what the published     *)
(* health means, who waits for the future of a call, and from that the     *)
(* promise to callers: the runtime implements KefCalls.                    *)
(***************************************************************************)
EXTENDS KefRuntimeProofs, SequenceTheorems

-----------------------------------------------------------------------------
(* Starting exchanges *)

\* A step that starts an exchange of a control is one of three.
LEMMA StartOfControl ==
    ASSUME Next, pc' \in {"resolve", "write"}, pc' # pc
    PROVE  BeginResolve \/ BeginWrite \/ Retry
BY DEF Next, Caller, Worker, Choose, Finish, Environment, Closer, Poll, Coalesce, Accept,
       Refuse, Call, GiveUpWaiting, Wake, Exit, WorkerGoesTo, TakeAbandoned, TakeExpired,
       TakeExpiring, BeginVerify, BeginPoll, BeginMaintenance, Park, StateReadOk,
       StateReadFails, MaintenanceOk, MaintenanceFails, ResolveOk, ResolveFails, Fails,
       Release, WriteOk, WriteRejected, WriteFails, GiveUp, StopRetrying, DeadlinePasses,
       VerificationElapses, AnswersAge, VolumeAges, SetSpeakerByHand, BeginClose,
       ForceWorker, EndClose

\* So is a step that starts any other exchange.
LEMMA StartOfRead ==
    ASSUME Next, pc' \in {"poll", "verify", "volume"}, pc' # pc
    PROVE  BeginVerify \/ BeginPoll \/ BeginMaintenance
BY DEF Next, Caller, Worker, Choose, Finish, Environment, Closer, Poll, Coalesce, Accept,
       Refuse, Call, GiveUpWaiting, Wake, Exit, WorkerGoesTo, TakeAbandoned, TakeExpired,
       TakeExpiring, BeginResolve, BeginWrite, Retry, Park, StateReadOk,
       StateReadFails, MaintenanceOk, MaintenanceFails, ResolveOk, ResolveFails, Fails,
       Release, WriteOk, WriteRejected, WriteFails, GiveUp, StopRetrying, DeadlinePasses,
       VerificationElapses, AnswersAge, VolumeAges, SetSpeakerByHand, BeginClose,
       ForceWorker, EndClose

\* A control whose deadline has passed is neither tried, nor tried again, nor
\* has its volume read (the looks at the clock in _async_control).
THEOREM TimelyStarts == Spec => StartsInTime
<1>1. ASSUME Next, pc' \in {"resolve", "write"}, pc' # pc
      PROVE  active' \notin late'
  <2>1. BeginResolve \/ BeginWrite \/ Retry
    BY <1>1, StartOfControl
  <2> QED
    BY <2>1 DEF BeginResolve, BeginWrite, Retry, NoTimeLeft, Timely
<1>2. [Next]_vars => [pc' \in {"resolve", "write"} /\ pc' # pc => active' \notin late']_vars
  BY <1>1
<1> QED
  BY <1>2, PTL DEF Spec, StartsInTime

\* Once shutdown has begun the worker starts no exchange: it looks at the flag
\* whenever it has the choice (_async_worker, _async_control).
THEOREM QuietClosing == Spec => NothingStartsAfterClosing
<1>1. ASSUME Next, closing, pc' \in Exchanges PROVE pc' = pc
  <2>1. CASE pc' \in {"resolve", "write"} /\ pc' # pc
    BY <1>1, <2>1, StartOfControl
       DEF BeginResolve, BeginWrite, Retry, NoTimeLeft, Taking
  <2>2. CASE pc' \in {"poll", "verify", "volume"} /\ pc' # pc
    BY <1>1, <2>2, StartOfRead DEF BeginVerify, BeginPoll, BeginMaintenance, NoControls
  <2> QED
    BY <1>1, <2>1, <2>2 DEF Exchanges
<1>2. [Next]_vars => [closing /\ pc' \in Exchanges => pc' = pc]_vars
  BY <1>1
<1> QED
  BY <1>2, PTL DEF Spec, NothingStartsAfterClosing

-----------------------------------------------------------------------------
(* Shutdown is final *)

\* Shutdown ends after the worker, and only once it has begun.
ClosedMeansDone == closed => closing /\ pc = "done"

\* Shutdown waits for the worker before it ends (_async_close_impl).
LEMMA ClosedMeansDoneStep == ClosedMeansDone /\ [Next]_vars => ClosedMeansDone'
BY DEF ClosedMeansDone, Next, vars, callerVars, queueVars, attemptVars, pendingVars,
       snapshotVars, closeVars, Caller, Worker, Choose, Finish, Environment, Closer, Poll,
       Coalesce, Accept, Refuse, Call, GiveUpWaiting, Wake, Exit, WorkerGoesTo, TakeAbandoned,
       TakeExpired, TakeExpiring, BeginResolve, BeginWrite, BeginVerify, BeginPoll, Taking,
       NoControls, BeginMaintenance, Park, StateReadOk, StateReadFails, MaintenanceOk,
       MaintenanceFails, ResolveOk, ResolveFails, Fails, Release, WriteOk, WriteRejected,
       WriteFails, GiveUp, Retry, StopRetrying, DeadlinePasses, VerificationElapses,
       AnswersAge, VolumeAges, SetSpeakerByHand, BeginClose, ForceWorker, EndClose

\* After shutdown nothing is published and the worker does not come back: callers
\* that still try are refused, and every step of the worker starts elsewhere than
\* where the worker ended (_ensure_open, _async_close_impl).
THEOREM FinalClosing == Spec => ClosedIsFinal
<1>1. Init => ClosedMeansDone
  BY DEF Init, ClosedMeansDone
<1>2. ASSUME ClosedMeansDone, Next, closed PROVE UNCHANGED <<snapshotVars, pc>>
  <2>1. closing /\ pc = "done"
    BY <1>2 DEF ClosedMeansDone
  <2>2. CASE Caller
    BY <2>1, <2>2 DEF Caller, Poll, Coalesce, Accept, Refuse, Call, GiveUpWaiting,
                      snapshotVars
  <2>3. ~Worker
    BY <2>1 DEF Worker, Choose, Finish, Wake, Exit, TakeAbandoned, TakeExpired,
         TakeExpiring, BeginResolve, BeginWrite, BeginVerify, BeginPoll, Taking, NoControls,
         BeginMaintenance, Park, StateReadOk, StateReadFails, MaintenanceOk,
         MaintenanceFails, ResolveOk, ResolveFails, WriteOk, WriteRejected, WriteFails,
         Retry, StopRetrying
  <2>4. CASE Environment
    BY <2>4 DEF Environment, DeadlinePasses, VerificationElapses, AnswersAge, VolumeAges,
                SetSpeakerByHand, snapshotVars
  <2>5. CASE Closer
    BY <2>1, <2>5 DEF Closer, BeginClose, ForceWorker, EndClose, snapshotVars, Exchanges
  <2> QED
    BY <1>2, <2>2, <2>3, <2>4, <2>5 DEF Next
<1>3. ClosedMeansDone /\ [Next]_vars => [closed => UNCHANGED <<snapshotVars, pc>>]_vars
  BY <1>2
<1> QED
  BY <1>1, <1>3, ClosedMeansDoneStep, PTL DEF Spec, ClosedIsFinal

-----------------------------------------------------------------------------
(* Futures *)

\* The calls that were not made yet wait for nothing.
LaterCallsFresh == \A c \in Calls : c > made => fut[c] = "none"

\* A step that is not a call settles pending futures and no other.
OnlyPendingSettled ==
    \A c \in Calls : fut'[c] # fut[c] => fut[c] = "pending" /\ fut'[c] # "none"

\* Settling touches pending futures only (the "if not waiter.done()").
LEMMA SettleOnlyPending ==
    ASSUME NEW waiters, NEW outcome, outcome # "none", Settle(waiters, outcome)
    PROVE  OnlyPendingSettled
BY DEF Settle, OnlyPendingSettled

\* So does every step that is not a call of a control method.
LEMMA SettlingStep ==
    ASSUME CallerTypes, Next, ~(Coalesce \/ Accept \/ Refuse)
    PROVE  OnlyPendingSettled /\ made' = made
<1>1. CASE UNCHANGED <<made, fut>>
  BY <1>1 DEF OnlyPendingSettled
<1>2. CASE GiveUpWaiting
  BY <1>2 DEF GiveUpWaiting, OnlyPendingSettled, CallerTypes
<1>3. CASE TakeExpired \/ TakeExpiring
  BY <1>3, SettleOnlyPending DEF TakeExpired, TakeExpiring
<1>4. ASSUME NEW written, Fails(written) PROVE OnlyPendingSettled /\ made' = made
  BY <1>4, SettleOnlyPending DEF Fails
<1>5. CASE ResolveFails \/ StopRetrying \/ WriteFails
  BY <1>1, <1>4, <1>5 DEF ResolveFails, StopRetrying, WriteFails, GiveUp, callerVars
<1>6. CASE WriteOk \/ WriteRejected
  BY <1>6, SettleOnlyPending DEF WriteOk, WriteRejected
<1>7. CASE BeginClose \/ EndClose
  BY <1>7, SettleOnlyPending DEF BeginClose, EndClose
<1>8. CASE Poll \/ Environment \/ ForceWorker
  BY <1>1, <1>8 DEF Poll, Environment, DeadlinePasses, VerificationElapses, AnswersAge,
       VolumeAges, SetSpeakerByHand, ForceWorker, callerVars
<1>9. CASE Wake \/ Exit \/ TakeAbandoned \/ BeginResolve \/ BeginWrite \/ BeginVerify
           \/ BeginPoll \/ BeginMaintenance \/ Park
  BY <1>1, <1>9 DEF Wake, Exit, WorkerGoesTo, TakeAbandoned, BeginResolve, BeginWrite,
       BeginVerify, BeginPoll, BeginMaintenance, Park, callerVars
<1>10. CASE StateReadOk \/ StateReadFails \/ MaintenanceOk \/ MaintenanceFails \/ ResolveOk
            \/ Retry
  BY <1>1, <1>10 DEF StateReadOk, StateReadFails, MaintenanceOk, MaintenanceFails,
       ResolveOk, Retry, callerVars
<1> QED
  BY <1>2, <1>3, <1>5, <1>6, <1>7, <1>8, <1>9, <1>10
     DEF Next, Caller, Worker, Choose, Finish, Closer

\* A call touches the future of its own number, which waited for nothing.
LEMMA CallingStep ==
    ASSUME CallerTypes, LaterCallsFresh, Coalesce \/ Accept \/ Refuse
    PROVE  /\ made' = made + 1 /\ made + 1 \in Calls /\ fut[made + 1] = "none"
           /\ \A c \in Calls : c # made + 1 => fut'[c] = fut[c]
<1>1. PICK outcome : Call(outcome)
  BY DEF Coalesce, Accept, Refuse
<1> QED
  BY <1>1, RuntimeAssumption DEF Call, CallerTypes, LaterCallsFresh, Calls

\* Futures are created in the order of the calls (_submit).
LEMMA LaterCallsFreshStep ==
    CallerTypes /\ LaterCallsFresh /\ [Next]_vars => LaterCallsFresh'
<1> SUFFICES ASSUME CallerTypes, LaterCallsFresh, [Next]_vars PROVE LaterCallsFresh'
  OBVIOUS
<1>1. CASE UNCHANGED vars
  BY <1>1 DEF vars, callerVars, LaterCallsFresh
<1>2. CASE Coalesce \/ Accept \/ Refuse
  BY <1>2, CallingStep, RuntimeAssumption DEF LaterCallsFresh, Calls, CallerTypes
<1>3. CASE Next /\ ~(Coalesce \/ Accept \/ Refuse)
  BY <1>3, SettlingStep DEF LaterCallsFresh, OnlyPendingSettled
<1> QED
  BY <1>1, <1>2, <1>3

\* A future is settled once, whoever comes first: the worker, a caller that gave up
\* or shutdown (the "if not waiter.done()" of runtime.py).
THEOREM SettledForGood == Spec => SettledOnce
<1>1. Init => LaterCallsFresh
  BY DEF Init, LaterCallsFresh
<1>2. ASSUME CallerTypes, LaterCallsFresh, Next,
             NEW c \in Calls, fut[c] \notin {"none", "pending"}
      PROVE  fut'[c] = fut[c]
  <2>1. CASE Coalesce \/ Accept \/ Refuse
    BY <1>2, <2>1, CallingStep
  <2>2. CASE ~(Coalesce \/ Accept \/ Refuse)
    BY <1>2, <2>2, SettlingStep DEF OnlyPendingSettled
  <2> QED
    BY <2>1, <2>2
<1>3. CallerTypes /\ LaterCallsFresh /\ [Next]_vars =>
      [\A c \in Calls : fut[c] \notin {"none", "pending"} => fut'[c] = fut[c]]_vars
  BY <1>2
<1>4. TypeOK => CallerTypes
  BY DEF TypeOK
<1> QED
  BY <1>1, <1>3, <1>4, TypeCorrect, LaterCallsFreshStep, PTL DEF Spec, SettledOnce

-----------------------------------------------------------------------------
(* Health *)

\* After an answer the speaker is available.
LEMMA HeardAvailable ==
    ASSUME SnapshotTypes, NEW carriesState \in BOOLEAN, Hears(carriesState)
    PROVE  health'.available = TRUE
BY AnswerHealth DEF Hears, SnapshotTypes

\* A read of the state leaves the speaker available, whatever it says of the
\* verification.
LEMMA StateReadAvailable ==
    ASSUME SnapshotTypes, StateReadOk
    PROVE  health'.available = TRUE
<1>1. /\ RecordSuccess(health, ages') \in Health
      /\ RecordSuccess(health, ages').available = TRUE
  BY AnswerHealth DEF StateReadOk, SnapshotTypes
<1>2. \/ health' = RecordSuccess(health, ages')
      \/ health' = [RecordSuccess(health, ages') EXCEPT !.degraded = TRUE]
  BY DEF StateReadOk
<1> QED
  BY <1>1, <1>2 DEF Health

\* What a failure leaves behind is justified by the failures and the silence.
LEMMA FailedJustified ==
    ASSUME NEW h \in Health, NEW a \in Ages
    PROVE  /\ ~RecordPrimaryFailure(h, a).available =>
                  /\ RecordPrimaryFailure(h, a).failures = FailureThreshold /\ a.channel
           /\ ~RecordOptionalFailure(h, a).available =>
                  /\ RecordOptionalFailure(h, a).failures = FailureThreshold /\ a.channel
<1>1. \A g \in Health : Unavailable(g, a) => g.failures = FailureThreshold /\ a.channel
  BY ThresholdAssumption DEF Unavailable, Health
<1> QED
  BY <1>1, FailureHealth

\* Every step keeps the hysteresis: an answer restores the availability, a failure
\* judges it anew, and silence only grows in between.
LEMMA HysteresisStep == SnapshotTypes /\ Hysteresis /\ [Next]_vars => Hysteresis'
<1> SUFFICES ASSUME SnapshotTypes, Hysteresis, [Next]_vars PROVE Hysteresis'
  OBVIOUS
<1>1. CASE health' = health /\ (ages.channel => ages'.channel)
  BY <1>1 DEF Hysteresis
<1>2. CASE health'.available = TRUE
  BY <1>2 DEF Hysteresis
<1>3. CASE /\ ages' = ages
           /\ \/ health' = RecordPrimaryFailure(health, ages)
              \/ health' = RecordOptionalFailure(health, ages)
  BY <1>3, FailedJustified DEF Hysteresis, SnapshotTypes
<1>4. CASE UNCHANGED vars \/ Caller \/ (Choose /\ ~TakeExpiring) \/ Closer
  BY <1>1, <1>4 DEF vars, snapshotVars, Caller, Choose, Closer, Poll, Coalesce, Accept,
       Refuse, Call, GiveUpWaiting, Wake, Exit, WorkerGoesTo, TakeAbandoned, TakeExpired,
       BeginResolve, BeginWrite, BeginVerify, BeginPoll, BeginMaintenance, Park,
       BeginClose, ForceWorker, EndClose
<1>5. CASE Environment
  <2>1. CASE AnswersAge
    BY <1>1, <2>1 DEF AnswersAge, snapshotVars
  <2>2. CASE ~AnswersAge
    BY <1>1, <1>5, <2>2 DEF Environment, DeadlinePasses, VerificationElapses, VolumeAges,
         SetSpeakerByHand, snapshotVars
  <2> QED
    BY <2>1, <2>2
<1>6. CASE StateReadOk
  BY <1>2, <1>6, StateReadAvailable
<1>7. CASE MaintenanceOk \/ ResolveOk \/ WriteOk \/ WriteRejected
  BY <1>2, <1>7, HeardAvailable DEF MaintenanceOk, ResolveOk, LearnVolume, WriteOk,
       WriteRejected
<1>8. CASE StateReadFails
  <2>1. PICK counted \in {health, RecordPrimaryFailure(health, ages)} :
            health' = IF pc = "verify" THEN RecordOptionalFailure(counted, ages) ELSE counted
    BY <1>8 DEF StateReadFails
  <2>2. counted \in Health /\ ages \in Ages /\ ages' = ages
    BY <1>8, <2>1, FailureHealth DEF StateReadFails, SnapshotTypes
  <2>3. CASE pc = "verify"
    BY <2>1, <2>2, <2>3, FailedJustified DEF Hysteresis
  <2>4. CASE pc # "verify"
    BY <1>1, <1>3, <2>1, <2>2, <2>4
  <2> QED
    BY <2>3, <2>4
<1>9. CASE MaintenanceFails \/ TakeExpiring
  BY <1>3, <1>9 DEF MaintenanceFails, TakeExpiring
<1>10. CASE ResolveFails \/ WriteFails \/ StopRetrying
  BY <1>1, <1>3, <1>10 DEF ResolveFails, WriteFails, StopRetrying, GiveUp, Fails, snapshotVars
<1>11. CASE Retry
  BY <1>1, <1>11 DEF Retry, snapshotVars
<1> QED
  BY <1>4, <1>5, <1>6, <1>7, <1>8, <1>9, <1>10, <1>11 DEF Next, Worker, Choose, Finish

\* The speaker is shown as unavailable only while both reasons hold: enough failures
\* in a row and a long silence (_compute_health).
THEOREM HysteresisHolds == Spec => []Hysteresis
<1>1. Init => Hysteresis
  BY DEF Init, Hysteresis, InitialHealth
<1>2. TypeOK => SnapshotTypes
  BY DEF TypeOK
<1> QED
  BY <1>1, <1>2, TypeCorrect, HysteresisStep, PTL DEF Spec

-----------------------------------------------------------------------------
(* What the worker knows of *)

\* Every step keeps the polls known: the flag is cleared only when all of them are
\* settled.
LEMMA EveryPollKnownStep == EveryPollKnown /\ [Next]_vars => EveryPollKnown'
<1> SUFFICES ASSUME EveryPollKnown, [Next]_vars PROVE EveryPollKnown'
  OBVIOUS
<1>1. CASE UNCHANGED <<pollFut, pollPending, closing>>
  BY <1>1 DEF EveryPollKnown
<1>2. ASSUME NEW outcome, outcome # "pending", SettlePolls(outcome)
      PROVE  EveryPollKnown'
  BY <1>2 DEF SettlePolls, EveryPollKnown
<1>3. CASE Poll
  BY <1>3 DEF Poll, closeVars, EveryPollKnown
<1>4. CASE StateReadOk
  BY <1>2, <1>4 DEF StateReadOk, EveryPollKnown
<1>5. CASE StateReadFails
  BY <1>2, <1>5 DEF StateReadFails, EveryPollKnown
<1>6. CASE BeginClose
  BY <1>2, <1>6 DEF BeginClose
<1> QED
  BY <1>1, <1>3, <1>4, <1>5, <1>6
     DEF Next, vars, callerVars, pendingVars, closeVars, Caller, Worker, Choose, Finish,
       Environment, Closer, Coalesce, Accept, Refuse, Call, GiveUpWaiting, Wake, Exit,
       WorkerGoesTo, TakeAbandoned, TakeExpired, TakeExpiring, BeginResolve, BeginWrite,
       BeginVerify, BeginPoll, BeginMaintenance, Park, MaintenanceOk, MaintenanceFails,
       ResolveOk, ResolveFails, Fails, WriteOk, WriteRejected, WriteFails, GiveUp,
       Retry, StopRetrying, DeadlinePasses, VerificationElapses, AnswersAge, VolumeAges,
       SetSpeakerByHand, ForceWorker, EndClose

\* A poll that waits is one the worker knows of: any read of the state answers all
\* of them, and shutdown leaves none behind (_resolve_polls, _async_close_impl).
THEOREM PollsKnown == Spec => []EveryPollKnown
<1>1. Init => EveryPollKnown
  BY DEF Init, EveryPollKnown
<1> QED
  BY <1>1, EveryPollKnownStep, PTL DEF Spec

\* Every step keeps the wakeups: who brings work sets the event.
LEMMA NoLostWakeupStep == NoLostWakeup /\ [Next]_vars => NoLostWakeup'
<1> SUFFICES ASSUME NoLostWakeup, [Next]_vars PROVE NoLostWakeup'
  OBVIOUS
<1>1. CASE UNCHANGED <<pc, controls, pendingVars, closing>>
  BY <1>1 DEF NoLostWakeup, pendingVars
<1>2. CASE pc' # "idle" \/ wake' = TRUE
  BY <1>2 DEF NoLostWakeup
<1>3. CASE Park
  BY <1>3 DEF Park, NoControls, closeVars, queueVars, NoLostWakeup
<1>4. CASE Caller \/ Environment \/ Closer
  BY <1>1, <1>2, <1>4
     DEF Caller, Environment, Closer, Poll, Coalesce, Accept, Refuse, Call, GiveUpWaiting,
       DeadlinePasses, VerificationElapses, AnswersAge, VolumeAges, SetSpeakerByHand,
       BeginClose, ForceWorker, EndClose, queueVars, pendingVars, closeVars
<1>5. CASE UNCHANGED vars
  BY <1>1, <1>5 DEF vars, queueVars, closeVars
<1>6. CASE Worker /\ ~Park
  BY <1>2, <1>6
     DEF Worker, Choose, Finish, Wake, Exit, WorkerGoesTo, TakeAbandoned, TakeExpired,
       TakeExpiring, Taking, BeginResolve, BeginWrite, BeginVerify, BeginPoll,
       BeginMaintenance, StateReadOk, StateReadFails, MaintenanceOk, MaintenanceFails,
       ResolveOk, ResolveFails, Fails, Release, WriteOk, WriteRejected, WriteFails, GiveUp,
       Retry, StopRetrying
<1> QED
  BY <1>3, <1>4, <1>5, <1>6 DEF Next

\* The worker never sleeps through work or through shutdown
\* (_wake.clear and the second look at the queues in _async_worker).
THEOREM WakeupsKept == Spec => []NoLostWakeup
<1>1. Init => NoLostWakeup
  BY DEF Init, NoLostWakeup
<1> QED
  BY <1>1, NoLostWakeupStep, PTL DEF Spec

-----------------------------------------------------------------------------
(* Relative commands *)

Writing == {"write", "backoff"}

\* While a control is written or waits to be written again, it stays in hand, its
\* kind stays what it is and what is known of the volume stays known.
LEMMA WriteUndisturbed ==
    ASSUME Inductive, [Next]_vars, pc \in Writing, pc' \in Writing
    PROVE  active' = active /\ Kind' = Kind /\ speaker' = speaker
<1>1. /\ active \in Calls /\ active <= made /\ made \in Int /\ job \in [Calls -> Control]
  BY InHand, RuntimeAssumption
     DEF Inductive, ControlsWellFormed, TypeOK, QueueTypes, CallerTypes, Writing
<1>2. CASE UNCHANGED <<active, job, speaker>>
  BY <1>2 DEF Kind
<1>3. CASE Coalesce
  BY <1>1, <1>3 DEF Coalesce, Call, Kind, Control
<1>4. CASE Accept
  <2>1. active # made + 1
    BY <1>1 DEF Calls
  <2> QED
    BY <1>1, <1>4, <2>1 DEF Accept, Call, Kind
<1>5. CASE BeginClose
  BY <1>1, <1>5 DEF BeginClose, snapshotVars, Kind
<1>6. CASE Retry
  BY <1>1, <1>6 DEF Retry, Resolved, snapshotVars, Kind, Control
<1>7. CASE WriteFails
  BY <1>2, <1>7 DEF WriteFails, GiveUp, Fails, Release, Writing, queueVars, snapshotVars
<1>8. CASE \/ UNCHANGED vars \/ Poll \/ Refuse \/ GiveUpWaiting \/ Environment \/ EndClose
  BY <1>2, <1>8 DEF vars, queueVars, snapshotVars, Poll, Refuse, Call, GiveUpWaiting,
       Environment, DeadlinePasses, VerificationElapses, AnswersAge, VolumeAges,
       SetSpeakerByHand, EndClose
<1>9. ~(Choose \/ StateReadOk \/ StateReadFails \/ MaintenanceOk \/ MaintenanceFails
        \/ ResolveOk \/ ResolveFails \/ WriteOk \/ WriteRejected \/ StopRetrying
        \/ ForceWorker)
  BY DEF Choose, Wake, Exit, TakeAbandoned, TakeExpired, TakeExpiring, BeginResolve,
       BeginWrite, BeginVerify, BeginPoll, Taking, NoControls, BeginMaintenance, Park,
       StateReadOk, StateReadFails, MaintenanceOk, MaintenanceFails, ResolveOk,
       ResolveFails, WriteOk, WriteRejected, StopRetrying, GiveUp, Fails, Release,
       ForceWorker, Writing
<1> QED
  BY <1>3, <1>4, <1>5, <1>6, <1>7, <1>8, <1>9 DEF Next, Caller, Worker, Finish, Closer

\* Every step keeps relative commands relative to what is known: a write is a retry,
\* or starts with the control at the head, whose need of the volume was looked at.
LEMMA NeverGuessesStep == Inductive /\ NeverGuesses /\ [Next]_vars => NeverGuesses'
<1> SUFFICES ASSUME Inductive, NeverGuesses, [Next]_vars, pc' \in Writing
             PROVE  NeverGuesses'
  BY DEF NeverGuesses, Writing
<1>1. CASE pc \in Writing
  BY <1>1, WriteUndisturbed DEF NeverGuesses, Writing
<1>2. CASE pc \notin Writing
  <2>1. BeginWrite
    BY <1>2, StartOfControl DEF Writing, BeginResolve, Retry, Next, Caller, Worker, Choose,
         Finish, Environment, Closer, Poll, Coalesce, Accept, Refuse, Call, GiveUpWaiting,
         Wake, Exit, WorkerGoesTo, TakeAbandoned, TakeExpired, TakeExpiring, BeginVerify,
         BeginPoll, BeginMaintenance, Park, StateReadOk, StateReadFails, MaintenanceOk,
         MaintenanceFails, ResolveOk, ResolveFails, Fails, Release, WriteOk, WriteRejected,
         WriteFails, StopRetrying, GiveUp, DeadlinePasses, VerificationElapses, AnswersAge,
         VolumeAges, SetSpeakerByHand, BeginClose, ForceWorker, EndClose, vars
  <2>2. Taken \in Calls /\ job \in [Calls -> Control]
    BY <2>1, AtHead DEF BeginWrite, Taking, Inductive, TypeOK, QueueTypes
  <2>3. Kind' = job[Taken].kind /\ ~NeedsVolume(Kind', speaker) /\ speaker' = speaker
    BY <2>1, <2>2 DEF BeginWrite, Resolved, Kind, Control, snapshotVars
  <2> QED
    BY <2>3 DEF NeedsVolume, NeverGuesses
<1> QED
  BY <1>1, <1>2

\* A command that is relative to the volume or to the mute state is only ever written
\* when both are known (_async_control, _execute_control).
THEOREM RelativeToKnown == Spec => []NeverGuesses
<1>1. Init => NeverGuesses
  BY DEF Init, NeverGuesses
<1> QED
  BY <1>1, InductiveHolds, NeverGuessesStep, PTL DEF Spec

-----------------------------------------------------------------------------
(* Volume maintenance *)

\* Every step keeps maintenance to a speaker that is on: who learns, or decides,
\* that it is off cancels it.
LEMMA MaintenanceWhenOnStep ==
    Inductive /\ MaintenanceWhenOn /\ [Next]_vars => MaintenanceWhenOn'
<1> SUFFICES ASSUME Inductive, MaintenanceWhenOn, [Next]_vars PROVE MaintenanceWhenOn'
  OBVIOUS
<1>1. CASE maintenance' = FALSE /\ pc' # "volume"
  BY <1>1 DEF MaintenanceWhenOn
<1>2. CASE /\ speaker'.power = speaker.power
           /\ maintenance' => maintenance
           /\ pc' = "volume" => pc = "volume" \/ maintenance
  BY <1>2 DEF MaintenanceWhenOn
<1>3. CASE StateReadOk
  <2>1. speaker'.power = device.power /\ device.power \in BOOLEAN
    BY <1>3 DEF StateReadOk, Inductive, TypeOK, SnapshotTypes, SpeakerState,
         SurroundingTypes, DeviceState
  <2>2. pc' # "volume" /\ (maintenance' => device.power)
    BY <1>3 DEF StateReadOk
  <2> QED
    BY <2>1, <2>2 DEF MaintenanceWhenOn
<1>4. CASE WriteOk
  <2>1. /\ pc' # "volume" /\ speaker' = AfterCommand
        /\ maintenance' = (maintenance /\ Kind # "turn_off")
    BY <1>4 DEF WriteOk, Release, MaintenanceAfterCommand
  <2>2. Kind # "turn_off" /\ speaker.power = TRUE => AfterCommand.power = TRUE
    BY DEF AfterCommand, ExpectedState, Inductive, TypeOK, SnapshotTypes, SpeakerState
  <2> QED
    BY <2>1, <2>2 DEF MaintenanceWhenOn
<1>5. CASE MaintenanceOk \/ ResolveOk
  <2>1. speaker'.power = speaker.power
    BY <1>5 DEF MaintenanceOk, ResolveOk, LearnVolume, Inductive, TypeOK, SnapshotTypes,
         SpeakerState
  <2> QED
    BY <1>2, <1>5, <2>1 DEF MaintenanceOk, ResolveOk, pendingVars
<1>6. CASE BeginMaintenance
  BY <1>6 DEF BeginMaintenance, snapshotVars, MaintenanceWhenOn
<1>7. CASE BeginClose
  BY <1>2, <1>7 DEF BeginClose, snapshotVars
<1>8. CASE Caller
  BY <1>2, <1>8 DEF pendingVars, snapshotVars, Caller, Poll, Coalesce, Accept, Refuse, Call,
       GiveUpWaiting
<1>9. CASE Environment
  BY <1>2, <1>9 DEF pendingVars, snapshotVars, Environment, DeadlinePasses,
       VerificationElapses, AnswersAge, VolumeAges, SetSpeakerByHand
<1>10. CASE ForceWorker \/ EndClose
  BY <1>2, <1>10 DEF pendingVars, snapshotVars, ForceWorker, EndClose
<1>11. CASE UNCHANGED vars
  BY <1>2, <1>11 DEF vars, pendingVars, snapshotVars
<1>12. CASE TakeAbandoned \/ TakeExpired \/ TakeExpiring \/ BeginResolve \/ BeginWrite
            \/ Park
  BY <1>2, <1>12 DEF TakeAbandoned, TakeExpired, TakeExpiring, BeginResolve, BeginWrite,
       Park, pendingVars, snapshotVars
<1>13. CASE Wake \/ Exit \/ BeginVerify \/ BeginPoll
  BY <1>2, <1>13 DEF Wake, Exit, BeginVerify, BeginPoll, WorkerGoesTo, pendingVars,
       snapshotVars
<1>14. CASE \/ StateReadFails \/ MaintenanceFails \/ ResolveFails \/ WriteRejected
           \/ WriteFails \/ Retry \/ StopRetrying
  BY <1>2, <1>14 DEF StateReadFails, MaintenanceFails, ResolveFails, Fails, Release,
       WriteRejected, WriteFails, GiveUp, Retry, StopRetrying, pendingVars, snapshotVars
<1> QED
  BY <1>3, <1>4, <1>5, <1>6, <1>7, <1>8, <1>9, <1>10, <1>11, <1>12, <1>13, <1>14
     DEF Next, Worker, Choose, Finish, Closer

\* The volume of a speaker that is known to be off is never read
\* (_async_state_exchange, _apply_optimistic).
THEOREM MaintenanceOnlyWhenOn == Spec => []MaintenanceWhenOn
<1>1. Init => MaintenanceWhenOn
  BY DEF Init, MaintenanceWhenOn
<1> QED
  BY <1>1, InductiveHolds, MaintenanceWhenOnStep, PTL DEF Spec

-----------------------------------------------------------------------------
(* The length of the queue *)

\* A control in hand leaves room for itself: the one that goes back to the queue
\* was counted when it was accepted, and one more may have been accepted since.
RoomInHand ==
    Len(controls) <= IF active = None THEN QueueCapacity + 1 ELSE QueueCapacity

\* Every step keeps room for the control in hand.
LEMMA RoomInHandStep == Inductive /\ RoomInHand /\ [Next]_vars => RoomInHand'
<1> SUFFICES ASSUME Inductive, RoomInHand, [Next]_vars PROVE RoomInHand'
  OBVIOUS
<1>1. controls \in Seq(Calls) /\ QueueCapacity \in Nat \ {0} /\ made + 1 \in Int
  BY RuntimeAssumption DEF Inductive, TypeOK, QueueTypes, CallerTypes
<1>2. CASE UNCHANGED <<controls, active>>
  BY <1>2 DEF RoomInHand
<1>3. CASE controls' = controls /\ active' = None
  BY <1>1, <1>3 DEF RoomInHand
<1>4. CASE Taking /\ controls' = Tail(controls)
  <2>1. active = None /\ Len(Tail(controls)) = Len(controls) - 1
    BY <1>1, <1>4 DEF Taking, Inductive, ActiveWhileExecuting
  <2> QED
    BY <1>1, <1>4, <2>1 DEF RoomInHand
<1>5. CASE Accept
  <2>1. Len(Append(controls, made + 1)) = Len(controls) + 1
    BY <1>1
  <2> QED
    BY <1>1, <1>5, <2>1 DEF Accept, HasRoom, Call, RoomInHand
<1>6. CASE ResolveOk
  <2>1. active # None /\ active \in Calls
    BY <1>6, InHand DEF ResolveOk
  <2>2. Len(Requeued) = Len(controls) + 1
    BY <1>1, <2>1 DEF Requeued
  <2> QED
    BY <1>1, <1>6, <2>1, <2>2 DEF ResolveOk, RoomInHand
<1>7. CASE BeginClose
  BY <1>1, <1>7 DEF BeginClose, RoomInHand
<1>8. CASE Poll \/ Coalesce \/ Refuse \/ GiveUpWaiting
  BY <1>2, <1>8 DEF Poll, Coalesce, Refuse, Call, GiveUpWaiting, queueVars
<1>9. CASE Environment \/ EndClose \/ UNCHANGED vars
  BY <1>2, <1>9 DEF vars, Environment, EndClose, DeadlinePasses, VerificationElapses,
       AnswersAge, VolumeAges, SetSpeakerByHand, queueVars
<1>10. CASE Wake \/ Exit \/ BeginVerify \/ BeginPoll \/ BeginMaintenance \/ Park \/ StateReadOk
            \/ StateReadFails \/ MaintenanceOk \/ MaintenanceFails \/ Retry
  BY <1>2, <1>10 DEF Wake, Exit, BeginVerify, BeginPoll, WorkerGoesTo, BeginMaintenance,
       Park, StateReadOk, StateReadFails, MaintenanceOk, MaintenanceFails, Retry, queueVars
<1>11. CASE TakeAbandoned \/ TakeExpired \/ TakeExpiring \/ BeginResolve \/ BeginWrite
  BY <1>4, <1>11 DEF TakeAbandoned, TakeExpired, TakeExpiring, Drop, BeginResolve, BeginWrite
<1>12. CASE ResolveFails \/ WriteOk \/ WriteRejected \/ StopRetrying \/ ForceWorker
  BY <1>3, <1>12 DEF ResolveFails, Fails, Release, WriteOk, WriteRejected, StopRetrying,
       GiveUp, ForceWorker
<1>13. CASE WriteFails
  BY <1>2, <1>3, <1>13 DEF WriteFails, GiveUp, Fails, Release, queueVars
<1> QED
  BY <1>5, <1>6, <1>7, <1>8, <1>9, <1>10, <1>11, <1>12, <1>13
     DEF Next, Caller, Worker, Choose, Finish, Closer

\* The queue does not keep to its capacity (QueueWithinCapacity is a claim that fails),
\* but what exceeds it is one control, the one that came back to it, for any number of
\* calls: QUEUE_CAPACITY bounds _submit, and appendleft adds the one in hand.
THEOREM OverflowIsOne == Spec => [](Len(controls) <= QueueCapacity + 1)
<1>1. Init => RoomInHand
  BY RuntimeAssumption DEF Init, RoomInHand
<1>2. Inductive /\ RoomInHand => Len(controls) <= QueueCapacity + 1
  BY RuntimeAssumption DEF RoomInHand, Inductive, TypeOK, QueueTypes
<1> QED
  BY <1>1, <1>2, InductiveHolds, RoomInHandStep, PTL DEF Spec

-----------------------------------------------------------------------------
(* The ownership of calls *)

\* EveryCallOwned alone is not inductive.  That a call which joins a control is in
\* no other one is known because controls have waiters only among the calls that
\* were made; and that two controls share no call must be known of all calls, as
\* one that is settled says nothing of who waits for it.
WaitersMade == \A j \in InPlay : \A c \in job[j].waiters : c <= made
WaitersApart ==
    \A j, k \in InPlay : \A c \in job[j].waiters : c \in job[k].waiters => j = k
PendingOwned ==
    ~closing => \A c \in Calls : fut[c] = "pending" => \E j \in InPlay : c \in job[j].waiters

Ownership == WaitersMade /\ WaitersApart /\ PendingOwned

\* The queue is its head and the rest.
LEMMA HeadAndTail ==
    ASSUME NEW S, NEW q \in Seq(S), q # <<>>
    PROVE  Range(q) = {Head(q)} \cup Range(Tail(q))
<1>1. /\ Len(q) \in Nat \ {0} /\ Head(q) = q[1]
      /\ DOMAIN q = 1..Len(q) /\ DOMAIN Tail(q) = 1..(Len(q) - 1)
      /\ \A i \in DOMAIN Tail(q) : Tail(q)[i] = q[i + 1]
  OBVIOUS
<1>2. \A i \in DOMAIN q : i = 1 \/ (i - 1 \in DOMAIN Tail(q) /\ q[i] = Tail(q)[i - 1])
  <2> SUFFICES ASSUME NEW i \in DOMAIN q, i # 1
               PROVE  i - 1 \in DOMAIN Tail(q) /\ q[i] = Tail(q)[i - 1]
    OBVIOUS
  <2>1. i - 1 \in DOMAIN Tail(q) /\ (i - 1) + 1 = i
    BY <1>1
  <2> QED
    BY <1>1, <2>1
<1>3. 1 \in DOMAIN q /\ \A i \in DOMAIN Tail(q) : i + 1 \in DOMAIN q
  BY <1>1
<1>4. \A x \in Range(q) : x = Head(q) \/ x \in Range(Tail(q))
  BY <1>1, <1>2 DEF Range
<1>5. Head(q) \in Range(q) /\ Range(Tail(q)) \subseteq Range(q)
  BY <1>1, <1>3 DEF Range
<1> QED
  BY <1>4, <1>5

\* A call that still waits after some were settled was none of them.
LEMMA StillPending ==
    ASSUME NEW waiters, NEW outcome, outcome # "pending", Settle(waiters, outcome),
           NEW c \in Calls, fut'[c] = "pending"
    PROVE  fut[c] = "pending" /\ c \notin waiters
BY DEF Settle

\* The controls in play are calls.
LEMMA InPlayCalls ==
    ASSUME Inductive
    PROVE  /\ InPlay \subseteq Calls /\ made \in Int /\ Calls \subseteq Int
           /\ \A j \in Calls : job[j] \in Control /\ job[j].waiters \subseteq Calls
<1>1. QueueTypes /\ made \in Int
  BY RuntimeAssumption DEF Inductive, TypeOK, CallerTypes
<1>2. InPlay \subseteq Calls
  BY <1>1 DEF QueueTypes, InPlay, Queued, Range
<1> QED
  BY <1>1, <1>2 DEF QueueTypes, Control, Calls

\* What callers know of a control stays as it is.
Untouched(c) ==
    /\ job'[c].kind = job[c].kind /\ job'[c].waiters = job[c].waiters
    /\ job[c].kind \in {"select_source", "set_volume"} => job'[c].value = job[c].value

\* The control at the head of the queue leaves it, and is in no other place.
LEMMA HeadLeaves ==
    ASSUME Inductive, Taking, Drop, UNCHANGED active
    PROVE  /\ active = None /\ Taken \in InPlay /\ InPlay' = InPlay \ {Taken}
           /\ \A k \in InPlay' : job'[k] = job[k]
<1>1. active = None /\ controls \in Seq(Calls) /\ controls # <<>> /\ job \in [Calls -> Control]
  BY DEF Inductive, TypeOK, QueueTypes, ActiveWhileExecuting, Taking
<1>2. InPlay' = Range(Tail(controls)) /\ InPlay = Queued
  BY <1>1 DEF Drop, InPlay, Queued
<1>3. \A k \in InPlay' : k \in Calls /\ k # Taken
  BY <1>1, <1>2, AtHead, InPlayCalls DEF Calls
<1>4. InPlay = {Taken} \cup InPlay'
  BY <1>1, <1>2, HeadAndTail, AtHead, InPlayCalls DEF InPlay, Queued, Taken, Taking
<1> QED
  BY <1>1, <1>2, <1>3, <1>4, AtHead DEF Drop

\* So does the control in hand when it is let go.
LEMMA HandLeaves ==
    ASSUME Inductive, pc \in Executing, Release, UNCHANGED controls
    PROVE  /\ active # None /\ active \in InPlay /\ InPlay' = Queued
           /\ InPlay' = InPlay \ {active} /\ \A k \in InPlay' : job'[k] = job[k]
<1>1. active \in Calls /\ active # None /\ active \notin Queued /\ job \in [Calls -> Control]
  BY InHand DEF Executing, Inductive, TypeOK, QueueTypes
<1>2. InPlay = Queued \cup {active} /\ InPlay' = Queued
  BY <1>1 DEF Release, InPlay, Queued
<1> QED
  BY <1>1, <1>2, InPlayCalls DEF Release

\* The control at the head is taken in hand, for its volume or its write.
LEMMA HeadTaken ==
    ASSUME Inductive, BeginResolve \/ BeginWrite
    PROVE  /\ Taking /\ active = None /\ active' = Taken /\ controls' = Tail(controls)
           /\ Taken \in Calls /\ Taken # None /\ InPlay' = InPlay
           /\ UNCHANGED <<made, fut, closing, closed, device>>
           /\ \A j \in Calls : Untouched(j)
<1>1. /\ Taking /\ active = None /\ active' = Taken /\ controls' = Tail(controls)
      /\ UNCHANGED <<made, fut, closing, closed, device>>
  BY DEF BeginResolve, BeginWrite, callerVars, closeVars, Taking, Inductive,
     ActiveWhileExecuting
<1>2. controls \in Seq(Calls) /\ job \in [Calls -> Control]
  BY DEF Inductive, TypeOK, QueueTypes
<1>3. Taken \in Calls /\ Taken # None /\ job[Taken] \in Control
  BY <1>1, AtHead DEF Taking
<1>4. InPlay' = InPlay
  BY <1>1, <1>2, <1>3, HeadAndTail DEF InPlay, Queued, Taking, Taken
<1>5. \A j \in Calls : Untouched(j)
  BY <1>2, <1>3 DEF BeginResolve, BeginWrite, Resolved, ResolvedValue, PowerKinds, Control,
     Untouched
<1> QED
  BY <1>1, <1>3, <1>4, <1>5

\* The control in hand goes back to the head of the queue.
LEMMA HandPutBack ==
    ASSUME Inductive, ResolveOk
    PROVE  /\ active \in Calls /\ active # None /\ active' = None
           /\ controls' = <<active>> \o controls /\ InPlay' = InPlay
           /\ UNCHANGED <<made, fut, job, closing, closed, device>>
<1>1. /\ active \in Calls /\ active # None /\ active' = None
      /\ controls' = <<active>> \o controls
      /\ UNCHANGED <<made, fut, job, closing, closed, device>>
  BY InHand DEF ResolveOk, Requeued, callerVars, closeVars
<1>2. Range(controls') = Queued \cup {active}
  <2>1. /\ Calls \in SUBSET Int /\ Sorted(controls) /\ controls \in Seq(Calls)
        /\ \A d \in Range(controls) : active < d
    BY <1>1 DEF Inductive, TypeOK, QueueTypes, AcceptanceOrder, Queued, Calls
  <2> QED
    BY <1>1, <2>1, RequeueSorted DEF Queued
<1>3. InPlay' = InPlay
  BY <1>1, <1>2 DEF InPlay, Queued
<1> QED
  BY <1>1, <1>3

\* A retry resolves the control anew.
LEMMA Retried ==
    ASSUME Inductive, Retry
    PROVE  /\ UNCHANGED <<made, fut, controls, active, closing, closed, device>>
           /\ \A j \in Calls : Untouched(j)
<1>1. UNCHANGED <<made, fut, controls, active, closing, closed, device>>
  BY DEF Retry, callerVars, closeVars
<1>2. job \in [Calls -> Control] /\ active \in Calls /\ job[active] \in Control
  BY InHand DEF Retry, Inductive, TypeOK, QueueTypes
<1> QED
  BY <1>1, <1>2 DEF Retry, Resolved, ResolvedValue, PowerKinds, Control, Untouched

\* Shutdown leaves at most the control in hand as it is ...
LEMMA QueueGivenUp ==
    ASSUME Inductive, BeginClose
    PROVE  /\ InPlay' = {active} \ {None} /\ InPlay' \subseteq InPlay
           /\ \A j \in InPlay' : job'[j] = job[j]
<1>1. job \in [Calls -> Control] /\ controls' = <<>> /\ active' = active
  BY DEF Inductive, TypeOK, QueueTypes, BeginClose
<1>2. InPlay' = {active} \ {None} /\ InPlay' \subseteq InPlay
  BY <1>1 DEF InPlay, Queued, Range
<1> QED
  BY <1>2, InPlayCalls DEF BeginClose

\* ... and forgets that one when it forces the worker.
LEMMA HandForgotten ==
    ASSUME Inductive, ForceWorker
    PROVE  /\ InPlay' = Queued /\ InPlay' \subseteq InPlay
           /\ \A j \in InPlay' : job'[j] = job[j]
<1>1. job \in [Calls -> Control] /\ controls' = controls /\ active' = None
  BY DEF Inductive, TypeOK, QueueTypes, ForceWorker
<1>2. InPlay' = Queued /\ InPlay' \subseteq InPlay
  BY <1>1 DEF InPlay, Queued
<1>3. \A j \in Queued : j # active
  <2>1. CASE active = None
    BY <1>2, <2>1, InPlayCalls, NoneAssumption
  <2>2. CASE active # None
    BY <1>2, <2>2, InPlayCalls DEF Inductive, AcceptanceOrder
  <2> QED
    BY <2>1, <2>2
<1> QED
  BY <1>1, <1>2, <1>3, InPlayCalls DEF ForceWorker

\* A caller joins the youngest control.
LEMMA JoinsYoungest ==
    ASSUME Inductive, Coalesce
    PROVE  \E value \in Targets("set_volume") : \E t \in Calls :
               /\ controls # <<>> /\ t = controls[Len(controls)] /\ t \in InPlay
               /\ job[t] \in Control /\ job[t].kind = "set_volume" /\ ~closing
               /\ job' = [job EXCEPT ![t] = [job[t] EXCEPT !.value = value,
                                                          !.waiters = @ \cup {made + 1}]]
               /\ UNCHANGED <<controls, active, closing, closed, device>>
               /\ InPlay' = InPlay
<1>1. PICK value \in Targets("set_volume") :
          job' = [job EXCEPT ![controls[Len(controls)]].value = value,
                             ![controls[Len(controls)]].waiters = @ \cup {made + 1}]
  BY DEF Coalesce
<1>2. /\ job \in [Calls -> Control] /\ controls \in Seq(Calls) /\ controls # <<>> /\ ~closing
      /\ job[controls[Len(controls)]].kind = "set_volume"
      /\ UNCHANGED <<active, controls, closing, closed, device>>
  BY DEF Inductive, TypeOK, QueueTypes, Coalesce, Call, Coalesces, closeVars
<1>3. PICK t \in Calls : t = controls[Len(controls)] /\ t \in InPlay
  <2>1. Len(controls) \in DOMAIN controls /\ controls[Len(controls)] \in Calls
    BY <1>2
  <2>2. controls[Len(controls)] \in Queued
    BY <2>1 DEF Queued, Range
  <2> QED
    BY <2>1, <2>2, NoneAssumption DEF InPlay, Calls
<1>4. InPlay' = InPlay
  BY <1>2 DEF InPlay, Queued
<1>5. job' = [job EXCEPT ![t] = [job[t] EXCEPT !.value = value, !.waiters = @ \cup {made + 1}]]
  BY <1>1, <1>2, <1>3 DEF Control
<1>6. job[t] \in Control
  BY <1>2
<1> QED
  BY <1>2, <1>3, <1>4, <1>5, <1>6

\* When shutdown ends nothing is in hand, so no future is settled any more.
LEMMA NothingLeft ==
    ASSUME Inductive, EndClose
    PROVE  /\ active = None /\ closing /\ ~closed /\ closed'
           /\ UNCHANGED <<made, fut, controls, active, job, closing, device>>
<1>1. active = None /\ fut \in [Calls -> CallStates]
  BY DEF EndClose, Inductive, ActiveWhileExecuting, TypeOK, CallerTypes
<1> QED
  BY <1>1 DEF EndClose, Settle, queueVars

\* Nobody joins a control and no control is new: ownership is kept if the controls
\* that leave are those of calls that no longer wait, or shutdown has begun.
LEMMA Kept ==
    ASSUME Inductive, Ownership, made' \in Int, made <= made',
           InPlay' \subseteq InPlay,
           \A j \in InPlay' : job'[j].waiters = job[j].waiters,
           \/ closing'
           \/ /\ ~closing
              /\ \A c \in Calls : fut'[c] = "pending" =>
                     /\ fut[c] = "pending"
                     /\ \A j \in InPlay \ InPlay' : c \notin job[j].waiters
    PROVE  Ownership'
<1>1. WaitersMade'
  BY InPlayCalls DEF Ownership, WaitersMade
<1>2. WaitersApart'
  BY DEF Ownership, WaitersApart
<1>3. PendingOwned'
  BY DEF Ownership, PendingOwned
<1> QED
  BY <1>1, <1>2, <1>3 DEF Ownership

\* In particular by steps that leave the controls alone and settle nothing anew.
LEMMA Undisturbed ==
    ASSUME Inductive, Ownership, made' \in Int, made <= made', closing' = closing,
           InPlay' = InPlay,
           \A j \in InPlay' : job'[j].waiters = job[j].waiters,
           \A c \in Calls : fut'[c] = "pending" => fut[c] = "pending"
    PROVE  Ownership'
<1>1. CASE closing
  BY <1>1, Kept
<1>2. CASE ~closing
  BY <1>2, Kept
<1> QED
  BY <1>1, <1>2

\* The control at the head is dropped when nobody waits for it any more.
LEMMA HeadDropped ==
    ASSUME Inductive, Ownership, Taking, Drop, UNCHANGED <<active, made, closing>>,
           \A c \in Calls : fut'[c] = "pending" =>
               fut[c] = "pending" /\ c \notin job[Taken].waiters
    PROVE  Ownership'
BY HeadLeaves, Kept, InPlayCalls DEF Taking

\* The control in hand is let go when nobody waits for it any more.
LEMMA HandReleased ==
    ASSUME Inductive, Ownership, pc \in Executing, Release,
           UNCHANGED <<controls, made, closing>>,
           \A c \in Calls : fut'[c] = "pending" =>
               fut[c] = "pending" /\ c \notin job[active].waiters
    PROVE  Ownership'
<1>1. CASE closing
  BY <1>1, HandLeaves, Kept, InPlayCalls
<1>2. CASE ~closing
  BY <1>2, HandLeaves, Kept, InPlayCalls
<1> QED
  BY <1>1, <1>2

\* A caller joins the control at the tail.
LEMMA CallerJoins == ASSUME Inductive, Ownership, Coalesce PROVE Ownership'
<1>1. PICK value \in Targets("set_volume"), t \in Calls :
          /\ t \in InPlay /\ job[t] \in Control /\ ~closing
          /\ job' = [job EXCEPT ![t] = [job[t] EXCEPT !.value = value,
                                                     !.waiters = @ \cup {made + 1}]]
          /\ closing' = closing /\ InPlay' = InPlay
  BY JoinsYoungest
<1> DEFINE c == made + 1
<1>2. /\ job \in [Calls -> Control] /\ c \in Calls /\ made \in Int /\ made' = c
      /\ fut' = [fut EXCEPT ![c] = "pending"] /\ fut \in [Calls -> CallStates]
  BY RuntimeAssumption DEF Inductive, TypeOK, QueueTypes, CallerTypes, Coalesce, Call, Calls
<1>3. [job[t] EXCEPT !.value = value, !.waiters = @ \cup {c}].waiters = job[t].waiters \cup {c}
  BY <1>1 DEF Control
<1>4. /\ job'[t].waiters = job[t].waiters \cup {c}
      /\ \A j \in InPlay : j # t => job'[j].waiters = job[j].waiters
  BY <1>1, <1>2, <1>3, InPlayCalls
<1> HIDE DEF c
<1>5. \A j \in InPlay : c \notin job[j].waiters
  BY <1>2, InPlayCalls DEF Ownership, WaitersMade, c
<1>6. WaitersMade'
  BY <1>1, <1>2, <1>4, InPlayCalls DEF Ownership, WaitersMade, c
<1>7. WaitersApart'
  BY <1>1, <1>4, <1>5 DEF Ownership, WaitersApart
<1>8. PendingOwned'
  BY <1>1, <1>2, <1>4 DEF Ownership, PendingOwned
<1> QED
  BY <1>6, <1>7, <1>8 DEF Ownership

\* A caller brings a control of its own.
LEMMA CallerBrings == ASSUME Inductive, Ownership, Accept PROVE Ownership'
<1> DEFINE c == made + 1
<1>1. /\ job \in [Calls -> Control] /\ controls \in Seq(Calls)
      /\ c \in Calls /\ c # None /\ made \in Int /\ made' = c
      /\ ~closing /\ UNCHANGED <<active, closing>> /\ controls' = Append(controls, c)
      /\ fut' = [fut EXCEPT ![c] = "pending"] /\ fut \in [Calls -> CallStates]
  BY RuntimeAssumption, NoneAssumption
     DEF Inductive, TypeOK, QueueTypes, CallerTypes, Accept, Call, Calls, closeVars
<1>2. \A j \in InPlay : j \in Calls /\ j # c
  BY <1>1, InPlayCalls DEF Inductive, ControlsWellFormed
<1>3. job'[c].waiters = {c} /\ \A j \in InPlay : job'[j] = job[j]
  BY <1>1, <1>2 DEF Accept
<1> HIDE DEF c
<1>4. InPlay' = InPlay \cup {c}
  <2>1. Range(controls') = Queued \cup {c}
    <3>1. Calls \in SUBSET Int /\ Sorted(controls) /\ \A d \in Range(controls) : d < c
      BY <1>1, <1>2, InPlayCalls DEF Inductive, AcceptanceOrder, ControlsWellFormed,
         InPlay, Queued, c
    <3> QED
      BY <1>1, <3>1, AppendSorted DEF Queued
  <2> QED
    BY <1>1, <2>1 DEF InPlay, Queued
<1>5. \A j \in InPlay : c \notin job[j].waiters
  BY <1>1, InPlayCalls DEF Ownership, WaitersMade, c
<1>6. WaitersMade'
  BY <1>1, <1>3, <1>4, InPlayCalls DEF Ownership, WaitersMade, c
<1>7. WaitersApart'
  BY <1>3, <1>4, <1>5 DEF Ownership, WaitersApart
<1>8. PendingOwned'
  BY <1>1, <1>3, <1>4 DEF Ownership, PendingOwned
<1> QED
  BY <1>6, <1>7, <1>8 DEF Ownership

\* Every step keeps the ownership.
LEMMA OwnershipStep == Inductive /\ Ownership /\ [Next]_vars => Ownership'
<1> SUFFICES ASSUME Inductive, Ownership, [Next]_vars PROVE Ownership'
  OBVIOUS
<1>1. /\ made \in Int /\ job \in [Calls -> Control] /\ controls \in Seq(Calls)
      /\ fut \in [Calls -> CallStates] /\ InPlay \subseteq Calls
  BY InPlayCalls DEF Inductive, TypeOK, QueueTypes, CallerTypes
<1>2. CASE UNCHANGED <<made, fut, controls, active, job, closing>>
  BY <1>1, <1>2, Undisturbed DEF InPlay, Queued
<1>3. CASE \/ UNCHANGED vars \/ Poll \/ Environment
           \/ Wake \/ Exit \/ BeginVerify \/ BeginPoll \/ BeginMaintenance \/ Park
           \/ StateReadOk \/ StateReadFails \/ MaintenanceOk \/ MaintenanceFails
  BY <1>2, <1>3 DEF vars, callerVars, queueVars, closeVars, Poll, Environment,
     DeadlinePasses, VerificationElapses, AnswersAge, VolumeAges, SetSpeakerByHand, Wake,
     Exit, BeginVerify, BeginPoll, WorkerGoesTo, BeginMaintenance, Park, StateReadOk,
     StateReadFails, MaintenanceOk, MaintenanceFails
<1>4. CASE Coalesce
  BY <1>4, CallerJoins
<1>5. CASE Accept
  BY <1>5, CallerBrings
<1>6. CASE Refuse \/ GiveUpWaiting \/ EndClose
  <2>1. UNCHANGED <<controls, active, job, closing>> /\ made' \in Int /\ made <= made'
    BY <1>1, <1>6 DEF Refuse, Call, GiveUpWaiting, EndClose, callerVars, queueVars, closeVars
  <2>2. \A c \in Calls : fut'[c] = "pending" => fut[c] = "pending"
    BY <1>1, <1>6 DEF Refuse, Call, GiveUpWaiting, EndClose, Settle
  <2> QED
    BY <2>1, <2>2, Undisturbed DEF InPlay, Queued
<1>7. CASE TakeAbandoned
  BY <1>7, HeadDropped DEF TakeAbandoned, Abandoned, callerVars, closeVars
<1>8. CASE TakeExpired \/ TakeExpiring
  BY <1>8, HeadDropped, StillPending DEF TakeExpired, TakeExpiring, closeVars
<1>9. CASE BeginResolve \/ BeginWrite
  BY <1>1, <1>9, HeadTaken, Undisturbed DEF Untouched
<1>10. CASE ResolveOk
  BY <1>1, <1>10, HandPutBack, Undisturbed
<1>11. CASE ResolveFails \/ WriteOk \/ WriteRejected \/ StopRetrying
  BY <1>11, HandReleased, StillPending
     DEF ResolveFails, WriteOk, WriteRejected, StopRetrying, GiveUp, Fails, closeVars,
         Executing
<1>12. CASE WriteFails
  <2>1. CASE tries = 0
    BY <1>2, <1>12, <2>1 DEF WriteFails, callerVars, queueVars, closeVars
  <2>2. CASE tries # 0
    BY <1>12, <2>2, HandReleased, StillPending
       DEF WriteFails, GiveUp, Fails, closeVars, Executing
  <2> QED
    BY <2>1, <2>2
<1>13. CASE Retry
  BY <1>1, <1>13, Retried, Undisturbed DEF Untouched, InPlay, Queued
<1>14. CASE BeginClose \/ ForceWorker
  <2>1. made' = made /\ closing'
    BY <1>14 DEF BeginClose, ForceWorker, callerVars, closeVars
  <2> QED
    BY <1>1, <1>14, <2>1, QueueGivenUp, HandForgotten, Kept
<1> QED
  BY <1>3, <1>4, <1>5, <1>6, <1>7, <1>8, <1>9, <1>10, <1>11, <1>12, <1>13, <1>14
     DEF Next, Caller, Worker, Choose, Finish, Closer

\* Until shutdown every call that waits is waited for by exactly one control, queued
\* or in hand, however many callers share it, give up or come late (_submit,
\* _async_control, _finish_control_error).
THEOREM CallsOwned == Spec => []EveryCallOwned
<1>1. Init => Ownership
  BY DEF Init, Ownership, WaitersMade, WaitersApart, PendingOwned, InPlay, Queued, Range
<1>2. Ownership => EveryCallOwned
  BY DEF Ownership, WaitersApart, PendingOwned, EveryCallOwned
<1> QED
  BY <1>1, <1>2, InductiveHolds, OwnershipStep, PTL DEF Spec

-----------------------------------------------------------------------------
(* The promise to callers *)

\* Who waits for a control in play has no answer yet.
WaitersOpen == \A j \in InPlay : \A c \in job[j].waiters : fut[c] \in {"pending", "cancelled"}

\* What the promise needs to be known of the runtime.
Serving == Inductive /\ Ownership /\ LaterCallsFresh /\ ClosedMeansDone /\ WaitersOpen

AnyGroup == [command : ControlKind \cup {None}, waiters : SUBSET Calls,
             value : Sources \cup Volumes \cup {None}]

\* The groups of a queue are a sequence, taken off at its head.
LEMMA GroupsOf ==
    ASSUME QueueTypes, NEW q \in Seq(Calls)
    PROVE  /\ Groups(q) \in Seq(AnyGroup) /\ Len(Groups(q)) = Len(q)
           /\ \A i \in 1..Len(q) : Groups(q)[i] = Group(q[i])
           /\ q # <<>> => /\ Groups(q) # <<>> /\ Head(Groups(q)) = Group(Head(q))
                          /\ Tail(Groups(q)) = Groups(Tail(q))
<1>1. DOMAIN q = 1..Len(q) /\ Len(q) \in Nat /\ \A i \in 1..Len(q) : q[i] \in Calls
  OBVIOUS
<1>2. \A c \in Calls : Group(c) \in AnyGroup
  BY DEF QueueTypes, Control, Group, AnyGroup
<1> HIDE DEF AnyGroup
<1>3. Groups(q) = [i \in 1..Len(q) |-> Group(q[i])]
  BY <1>1 DEF Groups
<1>4. Groups(q) \in Seq(AnyGroup) /\ Len(Groups(q)) = Len(q)
  BY <1>1, <1>2, <1>3
<1>5. \A i \in 1..Len(q) : Groups(q)[i] = Group(q[i])
  BY <1>3
<1>6. ASSUME q # <<>>
      PROVE  /\ Groups(q) # <<>> /\ Head(Groups(q)) = Group(Head(q))
             /\ Tail(Groups(q)) = Groups(Tail(q))
  <2>1. /\ Len(q) \in Nat \ {0} /\ Head(q) = q[1] /\ 1 \in 1..Len(q)
        /\ Len(Tail(q)) = Len(q) - 1 /\ DOMAIN Tail(q) = 1..(Len(q) - 1)
        /\ \A i \in 1..(Len(q) - 1) : Tail(q)[i] = q[i + 1] /\ i + 1 \in 1..Len(q)
    BY <1>6
  <2>2. Groups(q) # <<>> /\ Head(Groups(q)) = Groups(q)[1]
    BY <1>4, <2>1
  <2>3. /\ Tail(q) \in Seq(Calls) /\ DOMAIN Tail(q) = 1..(Len(q) - 1)
        /\ Groups(Tail(q)) = [i \in 1..(Len(q) - 1) |-> Group(Tail(q)[i])]
    BY <1>6, <2>1 DEF Groups
  <2>4. Groups(Tail(q)) \in Seq(AnyGroup) /\ Len(Groups(Tail(q))) = Len(q) - 1
    <3>1. Len(q) - 1 \in Nat /\ \A i \in 1..(Len(q) - 1) : Group(Tail(q)[i]) \in AnyGroup
      BY <1>1, <1>2, <2>1
    <3> QED
      BY <2>3, <3>1
  <2>5. Tail(Groups(q)) \in Seq(AnyGroup) /\ Len(Tail(Groups(q))) = Len(q) - 1
        /\ \A i \in 1..(Len(q) - 1) : Tail(Groups(q))[i] = Groups(q)[i + 1]
    BY <1>4, <2>1, <2>2
  <2>6. \A i \in 1..(Len(q) - 1) : Tail(Groups(q))[i] = Groups(Tail(q))[i]
    BY <1>5, <2>1, <2>3, <2>5
  <2>7. Tail(Groups(q)) = Groups(Tail(q))
    BY <2>4, <2>5, <2>6, SeqEqual
  <2> QED
    BY <1>5, <2>1, <2>2, <2>7
<1> QED
  BY <1>4, <1>5, <1>6

\* The controls in play in their order.
LEMMA OrderOf ==
    ASSUME Inductive
    PROVE  /\ controls \in Seq(Calls) /\ InOrder \in Seq(Calls) /\ Range(InOrder) = InPlay
           /\ Sorted(InOrder)
           /\ active = None => InOrder = controls
           /\ active # None => /\ InOrder # <<>> /\ Len(InOrder) = Len(controls) + 1
                               /\ Head(InOrder) = active /\ Tail(InOrder) = controls
                               /\ \A i \in 1..Len(controls) : InOrder[i + 1] = controls[i]
<1>1. controls \in Seq(Calls) /\ active \in Calls \cup {None}
  BY DEF Inductive, TypeOK, QueueTypes
<1>2. CASE active = None
  BY <1>1, <1>2 DEF InOrder, InPlay, Queued, Inductive, AcceptanceOrder
<1>3. CASE active # None
  <2>1. active \in Calls /\ InOrder = <<active>> \o controls
    BY <1>1, <1>3 DEF InOrder
  <2>2. Range(InOrder) = Range(controls) \cup {active} /\ Sorted(InOrder)
    <3>1. Calls \in SUBSET Int /\ Sorted(controls) /\ \A d \in Range(controls) : active < d
      BY <1>3 DEF Inductive, AcceptanceOrder, Queued, Calls
    <3> QED
      BY <1>1, <2>1, <3>1, RequeueSorted
  <2>3. /\ InOrder # <<>> /\ Len(InOrder) = Len(controls) + 1
        /\ Head(InOrder) = active /\ Tail(InOrder) = controls
        /\ \A i \in 1..Len(controls) : InOrder[i + 1] = controls[i]
    BY <1>1, <2>1
  <2>4. Range(InOrder) = InPlay
    BY <1>3, <2>2 DEF InPlay, Queued
  <2>5. InOrder \in Seq(Calls)
    BY <1>1, <2>1
  <2> QED
    BY <1>1, <1>3, <2>2, <2>3, <2>4, <2>5
<1> QED
  BY <1>2, <1>3

\* After a step that touches no control of a queue, that queue has the same groups.
LEMMA SameGroups ==
    ASSUME NEW q \in Seq(Calls), InOrder' = q, \A c \in Range(q) : Untouched(c)
    PROVE  Groups(InOrder)' = Groups(q)
<1>1. \A i \in DOMAIN q : q[i] \in Range(q)
  BY DEF Range
<1>2. Groups(InOrder)' = [i \in DOMAIN q |-> Group(q[i])']
  BY DEF Groups, Group
<1>3. \A i \in DOMAIN q : Group(q[i])' = Group(q[i])
  BY <1>1 DEF Group, Untouched
<1> QED
  BY <1>1, <1>2, <1>3 DEF Groups, Group, Untouched
-----------------------------------------------------------------------------
(* What waits is still open *)

\* Nobody joins a control and no control is new: who waits still has no answer if
\* futures are settled only of controls that leave.
LEMMA StillOpen ==
    ASSUME Inductive, WaitersOpen, InPlay' \subseteq InPlay,
           \A j \in InPlay' : job'[j].waiters = job[j].waiters,
           \A j \in InPlay' : \A c \in job[j].waiters :
               fut'[c] = fut[c] \/ fut'[c] \in {"pending", "cancelled"}
    PROVE  WaitersOpen'
BY DEF WaitersOpen

\* In particular if the settled calls are those that waited for one that leaves.
LEMMA OthersOpen ==
    ASSUME Inductive, Ownership, WaitersOpen, NEW j \in InPlay, NEW end,
           InPlay' \subseteq InPlay \ {j},
           \A k \in InPlay' : job'[k].waiters = job[k].waiters,
           Settle(job[j].waiters, end)
    PROVE  WaitersOpen'
<1>1. \A k \in InPlay' : \A c \in job[k].waiters : c \in Calls /\ c \notin job[j].waiters
  BY InPlayCalls DEF Ownership, WaitersApart
<1> QED
  BY <1>1, StillOpen DEF Settle

\* Every step leaves those who wait without an answer.
LEMMA WaitersOpenStep ==
    Inductive /\ Ownership /\ WaitersOpen /\ [Next]_vars => WaitersOpen'
<1> SUFFICES ASSUME Inductive, Ownership, WaitersOpen, [Next]_vars PROVE WaitersOpen'
  OBVIOUS
<1>1. /\ made \in Int /\ job \in [Calls -> Control] /\ controls \in Seq(Calls)
      /\ fut \in [Calls -> CallStates] /\ InPlay \subseteq Calls
      /\ \A j \in Calls : job[j].waiters \subseteq Calls
  BY InPlayCalls DEF Inductive, TypeOK, QueueTypes, CallerTypes
<1>2. ASSUME UNCHANGED <<fut, controls, active, job>> PROVE WaitersOpen'
  BY <1>2, StillOpen DEF InPlay, Queued
<1>3. CASE \/ UNCHANGED vars \/ Poll \/ Environment
           \/ Wake \/ Exit \/ BeginVerify \/ BeginPoll \/ BeginMaintenance \/ Park
           \/ StateReadOk \/ StateReadFails \/ MaintenanceOk \/ MaintenanceFails
  BY <1>2, <1>3 DEF vars, callerVars, queueVars, Poll, Environment,
     DeadlinePasses, VerificationElapses, AnswersAge, VolumeAges, SetSpeakerByHand, Wake,
     Exit, BeginVerify, BeginPoll, WorkerGoesTo, BeginMaintenance, Park, StateReadOk,
     StateReadFails, MaintenanceOk, MaintenanceFails
<1>4. CASE Coalesce
  <2>1. PICK value \in Targets("set_volume"), t \in Calls :
            /\ t \in InPlay /\ job[t] \in Control /\ InPlay' = InPlay
            /\ job' = [job EXCEPT ![t] = [job[t] EXCEPT !.value = value,
                                                       !.waiters = @ \cup {made + 1}]]
    BY <1>4, JoinsYoungest
  <2>2. job'[t].waiters = job[t].waiters \cup {made + 1}
    BY <1>1, <2>1 DEF Control
  <2>3. \A j \in InPlay : j # t => job'[j].waiters = job[j].waiters
    BY <1>1, <2>1
  <2>4. fut' = [fut EXCEPT ![made + 1] = "pending"]
    BY <1>4 DEF Coalesce, Call
  <2>5. \A j \in InPlay' : \A c \in job'[j].waiters :
            c \in Calls /\ (c = made + 1 \/ c \in job[j].waiters)
    <3>1. made + 1 \in Calls
      BY <1>1, <1>4, RuntimeAssumption DEF Coalesce, Call, Calls, Inductive, TypeOK, CallerTypes
    <3> QED
      BY <1>1, <2>1, <2>2, <2>3, <3>1
  <2> QED
    BY <1>1, <2>1, <2>4, <2>5 DEF WaitersOpen
<1>5. CASE Accept
  <2>1. /\ controls' = Append(controls, made + 1) /\ active' = active
        /\ made + 1 \in Calls /\ fut' = [fut EXCEPT ![made + 1] = "pending"]
    BY <1>1, <1>5, RuntimeAssumption DEF Accept, Call, Calls, Inductive, TypeOK, CallerTypes
  <2>2. InPlay' \subseteq InPlay \cup {made + 1}
    <3>1. Range(Append(controls, made + 1)) \subseteq Range(controls) \cup {made + 1}
      BY <1>1, <2>1 DEF Range
    <3> QED
      BY <2>1, <3>1 DEF InPlay, Queued
  <2>3. job'[made + 1].waiters = {made + 1} /\ \A j \in Calls : j # made + 1 => job'[j] = job[j]
    BY <1>1, <1>5, <2>1 DEF Accept
  <2>4. \A j \in InPlay' : \A c \in job'[j].waiters :
            c \in Calls /\ (c = made + 1 \/ (j \in InPlay /\ c \in job[j].waiters))
    BY <1>1, <2>1, <2>2, <2>3
  <2> QED
    BY <1>1, <2>1, <2>4 DEF WaitersOpen
<1>6. CASE Refuse
  <2>1. /\ UNCHANGED <<controls, active, job>> /\ InPlay' = InPlay
        /\ fut' = [fut EXCEPT ![made + 1] = "refused"]
    BY <1>6 DEF Refuse, Call, InPlay, Queued
  <2>2. \A j \in InPlay : \A c \in job[j].waiters : fut'[c] = fut[c]
    BY <1>1, <2>1 DEF Ownership, WaitersMade, Calls
  <2> QED
    BY <2>1, <2>2, StillOpen
<1>7. CASE GiveUpWaiting
  <2>1. /\ UNCHANGED <<controls, active, job>> /\ InPlay' = InPlay
        /\ \A c \in Calls : fut'[c] = fut[c] \/ fut'[c] = "cancelled"
    BY <1>1, <1>7 DEF GiveUpWaiting, queueVars, InPlay, Queued
  <2> QED
    BY <1>1, <2>1, StillOpen
<1>8. CASE EndClose
  BY <1>2, <1>8, NothingLeft
<1>9. CASE TakeAbandoned
  BY <1>9, HeadLeaves, StillOpen DEF TakeAbandoned, callerVars
<1>10. CASE TakeExpired \/ TakeExpiring
  BY <1>10, HeadLeaves, OthersOpen DEF TakeExpired, TakeExpiring
<1>11. CASE BeginResolve \/ BeginWrite
  BY <1>1, <1>11, HeadTaken, StillOpen DEF Untouched
<1>12. CASE ResolveOk
  BY <1>12, HandPutBack, StillOpen
<1>13. CASE WriteOk \/ WriteRejected
  BY <1>13, HandLeaves, OthersOpen DEF WriteOk, WriteRejected, Executing
<1>14. CASE ResolveFails \/ StopRetrying
  BY <1>14, HandLeaves, OthersOpen DEF ResolveFails, StopRetrying, GiveUp, Fails, Executing
<1>15. CASE WriteFails
  <2>1. CASE tries = 0
    BY <1>2, <1>15, <2>1 DEF WriteFails, callerVars, queueVars
  <2>2. CASE tries # 0
    BY <1>15, <2>2, HandLeaves, OthersOpen DEF WriteFails, GiveUp, Fails, Executing
  <2> QED
    BY <2>1, <2>2
<1>16. CASE Retry
  BY <1>1, <1>16, Retried, StillOpen DEF Untouched, InPlay, Queued
<1>17. CASE BeginClose
  <2>1. \A c \in Calls : fut'[c] = fut[c] \/ fut'[c] = "cancelled"
    BY <1>1, <1>17 DEF BeginClose, Settle
  <2> QED
    BY <1>1, <1>17, <2>1, QueueGivenUp, StillOpen
<1>18. CASE ForceWorker
  BY <1>18, HandForgotten, StillOpen DEF ForceWorker, callerVars
<1> QED
  BY <1>3, <1>4, <1>5, <1>6, <1>7, <1>8, <1>9, <1>10, <1>11, <1>12, <1>13, <1>14, <1>15,
     <1>16, <1>17, <1>18 DEF Next, Caller, Worker, Choose, Finish, Closer
-----------------------------------------------------------------------------
(* Every step is one of KefCalls or a stutter *)

\* What callers cannot see.
LEMMA Unseen ==
    ASSUME Inductive, UNCHANGED <<controls, active, fut, closing, closed, device>>,
           \A j \in InPlay : Untouched(j)
    PROVE  UNCHANGED Promise!callsVars
<1>1. InOrder' = InOrder
  BY DEF InOrder
<1>2. Groups(InOrder)' = Groups(InOrder)
  BY <1>1, OrderOf, SameGroups
<1> QED
  BY <1>2 DEF Promise!callsVars

\* The oldest command, as callers know it.
LEMMA FirstIs ==
    ASSUME Inductive, active # None
    PROVE  /\ Groups(InOrder) # <<>> /\ Promise!First = Group(active)
           /\ Tail(Groups(InOrder)) = Groups(controls)
<1>1. QueueTypes
  BY DEF Inductive, TypeOK
<1> QED
  BY <1>1, OrderOf, GroupsOf DEF Promise!First

\* It is taken in hand.
LEMMA HeadTakenIsTake ==
    ASSUME Serving, BeginResolve \/ BeginWrite
    PROVE  Promise!Take
<1>1. /\ Taking /\ active = None /\ active' = Taken /\ controls' = Tail(controls)
      /\ Taken \in Calls /\ Taken # None /\ Taken \in InPlay
      /\ UNCHANGED <<made, fut, closing, closed, device>>
      /\ \A j \in Calls : Untouched(j)
  BY HeadTaken, AtHead DEF Serving, Taking
<1>2. QueueTypes /\ controls \in Seq(Calls) /\ controls # <<>> /\ ~closing /\ ~closed
  BY <1>1 DEF Serving, Inductive, TypeOK, QueueTypes, Taking, ClosedMeansDone
<1>3. InOrder = controls
  BY <1>1 DEF InOrder
<1>4. InOrder' = controls
  <2>1. InOrder' = <<Taken>> \o Tail(controls)
    BY <1>1 DEF InOrder
  <2> QED
    BY <1>2, <2>1 DEF Taken
<1>5. Groups(InOrder)' = Groups(InOrder)
  <2>1. \A c \in Range(controls) : Untouched(c)
    BY <1>1, <1>2 DEF Range
  <2> QED
    BY <1>2, <1>3, <1>4, <2>1, SameGroups
<1>6. Groups(InOrder) # <<>> /\ Promise!First = Group(Taken)
  BY <1>2, <1>3, GroupsOf DEF Promise!First, Taken
<1>7. \E c \in Promise!First.waiters : fut[c] = "pending"
  <2>1. \E c \in job[Taken].waiters : fut[c] # "cancelled"
    BY DEF BeginResolve, BeginWrite, Timely, Abandoned
  <2> QED
    BY <1>1, <1>6, <2>1 DEF Serving, WaitersOpen, Group
<1> QED
  BY <1>1, <1>2, <1>5, <1>6, <1>7 DEF Promise!Take

\* It is dropped untried.
LEMMA DroppedIsSkip ==
    ASSUME Serving, Taking, Drop, UNCHANGED <<active, closing, closed, device>>,
           Settle(job[Taken].waiters, "error")
    PROVE  Promise!Skip
<1>1. /\ active = None /\ Taken \in InPlay /\ InPlay' \subseteq InPlay \ {Taken}
      /\ \A k \in InPlay' : job'[k] = job[k]
  BY HeadLeaves DEF Serving
<1>2. /\ QueueTypes /\ controls \in Seq(Calls) /\ controls # <<>> /\ ~closing /\ ~closed
      /\ Tail(controls) \in Seq(Calls)
  BY AtHead DEF Serving, Inductive, TypeOK, QueueTypes, Taking, ClosedMeansDone
<1>3. InOrder = controls /\ InOrder' = Tail(controls) /\ InPlay' = Range(Tail(controls))
  BY <1>1 DEF InOrder, Drop, InPlay, Queued
<1>4. Groups(InOrder)' = Groups(Tail(controls))
  BY <1>1, <1>2, <1>3, SameGroups DEF Untouched
<1>5. /\ Groups(InOrder) # <<>> /\ Promise!First = Group(Taken)
      /\ Tail(Groups(InOrder)) = Groups(Tail(controls))
  BY <1>2, <1>3, GroupsOf DEF Promise!First, Taken
<1>6. Promise!Settle(Promise!First.waiters, "error")
  BY <1>5 DEF Promise!Settle, Settle, Group
<1> QED
  BY <1>1, <1>2, <1>4, <1>5, <1>6 DEF Promise!Skip

\* It is put back.
LEMMA ResolvedIsPutBack ==
    ASSUME Serving, ResolveOk
    PROVE  Promise!PutBack
<1>1. /\ active \in Calls /\ active # None /\ active' = None
      /\ controls' = <<active>> \o controls
      /\ UNCHANGED <<fut, job, closing, closed, device>>
  BY HandPutBack DEF Serving
<1>2. InOrder' = InOrder
  BY <1>1 DEF InOrder
<1>3. Groups(InOrder)' = Groups(InOrder)
  <2>1. InOrder \in Seq(Calls)
    BY OrderOf DEF Serving
  <2> QED
    BY <1>1, <1>2, <2>1, SameGroups DEF Untouched
<1> QED
  BY <1>1, <1>3 DEF Promise!PutBack

\* What a write does to the speaker is what the command in hand says.
LEMMA WriteObeys ==
    ASSUME Inductive, pc \in {"write", "backoff"}, device' = SpeakerAfterCommand
    PROVE  Promise!SpeakerObeys
<1>1. /\ active # None /\ device \in DeviceState /\ Kind \in ControlKind
  BY InHand DEF Inductive, TypeOK, SurroundingTypes
<1>2. Promise!First = Group(active)
  BY <1>1, FirstIs
<1>3. /\ Promise!First.command = Kind
      /\ Kind \in {"select_source", "set_volume"} => Promise!First.value = job[active].value
  BY <1>2 DEF Group, Kind
<1>4. CASE Kind \in SourceKinds
  <2>1. device' = [device EXCEPT !.power = (Kind # "turn_off"), !.source = job[active].value]
    BY <1>4 DEF SpeakerAfterCommand, Written
  <2>2. /\ device'.power = (Kind # "turn_off") /\ device'.source = job[active].value
        /\ device'.volume = device.volume /\ device'.muted = device.muted
    BY <1>1, <2>1 DEF DeviceState
  <2> QED
    BY <1>3, <1>4, <2>2 DEF Promise!SpeakerObeys, Promise!Obeys, SourceKinds, PowerKinds
<1>5. CASE Kind \notin SourceKinds
  <2>1. device' = [device EXCEPT !.volume = NewVolume(Kind, job[active].value, speaker),
                                 !.muted = NewMuted(Kind, speaker)]
    BY <1>5 DEF SpeakerAfterCommand, Written
  <2>2. /\ device'.volume = NewVolume(Kind, job[active].value, speaker)
        /\ device'.muted = NewMuted(Kind, speaker)
        /\ device'.power = device.power /\ device'.source = device.source
    BY <1>1, <2>1 DEF DeviceState
  <2>3. Kind = "set_volume" => device'.volume = job[active].value
    BY <2>2 DEF NewVolume
  <2>4. Kind \in {"mute", "unmute"} => device'.muted = (Kind = "mute")
    BY <2>2 DEF NewMuted
  <2> QED
    BY <1>3, <1>5, <2>2, <2>3, <2>4 DEF Promise!SpeakerObeys, Promise!Obeys, SourceKinds, PowerKinds
<1> QED
  BY <1>4, <1>5

\* A control that is over is answered to all who wait for it.
LEMMA OverIsAnswer ==
    ASSUME Serving, pc \in Executing, Release, UNCHANGED <<controls, closing, closed>>,
           NEW end, Settle(job[active].waiters, end),
           Promise!SpeakerObeys \/ (device' = device /\ (end = "error" \/ ~AcksObeyed))
    PROVE  Promise!Answer(end)
<1>1. /\ active # None /\ active' = None /\ InPlay' = Queued
      /\ \A k \in InPlay' : job'[k] = job[k]
  BY HandLeaves DEF Serving, Release
<1>2. Promise!First = Group(active) /\ Tail(Groups(InOrder)) = Groups(controls)
  BY <1>1, FirstIs DEF Serving
<1>3. Groups(InOrder)' = Groups(controls)
  <2>1. InOrder' = controls /\ controls \in Seq(Calls)
    BY <1>1 DEF InOrder, Serving, Inductive, TypeOK, QueueTypes
  <2> QED
    BY <1>1, <2>1, SameGroups DEF Untouched, Queued
<1>4. Promise!Settle(Promise!First.waiters, end)
  BY <1>2 DEF Promise!Settle, Settle, Group
<1> QED
  BY <1>1, <1>2, <1>3, <1>4 DEF Promise!Answer

\* The worker is forced, and what it had in hand is forgotten.
LEMMA ForcedIsForget ==
    ASSUME Serving, ForceWorker, active # None
    PROVE  Promise!Forget
<1>1. /\ active' = None /\ InPlay' = Queued /\ \A k \in InPlay' : job'[k] = job[k]
      /\ UNCHANGED <<controls, fut, closing, closed>> /\ closing /\ pc # "done"
  BY HandForgotten DEF Serving, ForceWorker, callerVars, closeVars, Exchanges
<1>2. Tail(Groups(InOrder)) = Groups(controls)
  BY FirstIs DEF Serving
<1>3. Groups(InOrder)' = Groups(controls)
  <2>1. InOrder' = controls /\ controls \in Seq(Calls)
    BY <1>1 DEF InOrder, Serving, Inductive, TypeOK, QueueTypes
  <2> QED
    BY <1>1, <2>1, SameGroups DEF Untouched, Queued
<1>4. Promise!SpeakerObeys \/ device' = device
  BY WriteObeys DEF ForceWorker, Serving
<1>5. ~closed
  BY <1>1 DEF Serving, ClosedMeansDone
<1> QED
  BY <1>1, <1>2, <1>3, <1>4, <1>5 DEF Promise!Forget

\* How many wait, as callers know it.
LEMMA NumWaitingIs ==
    ASSUME Inductive
    PROVE  /\ Promise!NumWaiting = Len(controls) /\ Promise!InHand \in {0, 1}
           /\ Promise!InHand = (IF active # None THEN 1 ELSE 0)
           /\ Len(Groups(InOrder)) = Len(controls) + Promise!InHand
           /\ Len(controls) \in Nat /\ Groups(InOrder) \in Seq(AnyGroup)
           /\ \A i \in 1..Len(Groups(InOrder)) : Groups(InOrder)[i] = Group(InOrder[i])
           /\ \A i \in 1..Len(controls) :
                  Groups(InOrder)[i + Promise!InHand] = Group(controls[i])
<1>1. /\ Groups(InOrder) \in Seq(AnyGroup) /\ Len(Groups(InOrder)) = Len(InOrder)
      /\ \A i \in 1..Len(InOrder) : Groups(InOrder)[i] = Group(InOrder[i])
  BY OrderOf, GroupsOf DEF Inductive, TypeOK
<1>2. Len(controls) \in Nat
  BY OrderOf
<1>3. CASE active = None
  BY <1>1, <1>2, <1>3, OrderOf DEF Promise!NumWaiting, Promise!InHand
<1>4. CASE active # None
  BY <1>1, <1>2, <1>4, OrderOf DEF Promise!NumWaiting, Promise!InHand
<1> QED
  BY <1>3, <1>4

\* Shutdown gives up what waits.
LEMMA ClosingIsShut ==
    ASSUME Serving, BeginClose
    PROVE  Promise!Shut
<1> DEFINE n == Len(controls)
           h == Promise!InHand
           waiting == UNION {Groups(InOrder)[i].waiters : i \in (h + 1)..Len(Groups(InOrder))}
<1>1. /\ Inductive /\ controls \in Seq(Calls) /\ DOMAIN controls = 1..n
      /\ n \in Nat /\ h \in {0, 1} /\ Len(Groups(InOrder)) = n + h
      /\ Groups(InOrder) \in Seq(AnyGroup)
      /\ \A i \in 1..n : Groups(InOrder)[i + h] = Group(controls[i])
  BY NumWaitingIs DEF Serving, Inductive, TypeOK, QueueTypes
<1>2. ~closing /\ ~closed /\ closing' /\ UNCHANGED <<active, closed, device>> /\ controls' = <<>>
  BY DEF BeginClose, Serving, ClosedMeansDone
<1>3. waiting = UNION {job[c].waiters : c \in Queued}
  <2> HIDE DEF n, h
  <2>1. \A i \in (h + 1)..(n + h) : i - h \in 1..n /\ Groups(InOrder)[i] = Group(controls[i - h])
    <3> SUFFICES ASSUME NEW i \in (h + 1)..(n + h)
                 PROVE  i - h \in 1..n /\ Groups(InOrder)[i] = Group(controls[i - h])
      OBVIOUS
    <3>1. i - h \in 1..n /\ (i - h) + h = i
      BY <1>1
    <3> QED
      BY <1>1, <3>1
  <2>2. \A i \in 1..n : i + h \in (h + 1)..(n + h)
    BY <1>1
  <2>3. ASSUME NEW w \in waiting PROVE \E c \in Queued : w \in job[c].waiters
    <3>1. PICK i \in (h + 1)..(n + h) : w \in Groups(InOrder)[i].waiters
      BY <1>1, <2>3 DEF h
    <3>2. i - h \in 1..n /\ Groups(InOrder)[i].waiters = job[controls[i - h]].waiters
      <4>1. i - h \in 1..n /\ Groups(InOrder)[i] = Group(controls[i - h])
        BY <2>1
      <4> QED
        BY <4>1 DEF Group
    <3>3. controls[i - h] \in Queued
      BY <1>1, <3>2 DEF Queued, Range
    <3> QED
      BY <3>1, <3>2, <3>3
  <2>4. ASSUME NEW c \in Queued, NEW w \in job[c].waiters PROVE w \in waiting
    <3>1. PICK i \in 1..n : controls[i] = c
      BY <1>1 DEF Queued, Range
    <3>2. Groups(InOrder)[i + h].waiters = job[c].waiters
      <4>1. Groups(InOrder)[i + h] = Group(c)
        BY <1>1, <3>1
      <4> QED
        BY <4>1 DEF Group
    <3>3. i + h \in (h + 1)..Len(Groups(InOrder))
      BY <1>1, <2>2
    <3> QED
      BY <2>4, <3>2, <3>3 DEF h
  <2> QED
    BY <2>3, <2>4
<1>4. Promise!Settle(waiting, "cancelled")
  <2>1. Settle(waiting, "cancelled")
    BY <1>3 DEF BeginClose
  <2> QED
    BY <2>1 DEF Promise!Settle, Settle
<1>5. Groups(InOrder)' = SubSeq(Groups(InOrder), 1, h)
  <2>1. CASE active = None
    <3>1. InOrder' = <<>> /\ h = 0 /\ <<>> \in Seq(Calls)
      BY <1>2, <2>1 DEF InOrder, Promise!InHand
    <3>2. Groups(InOrder)' = Groups(<<>>)
      <4>1. \A c \in Range(<<>>) : Untouched(c)
        BY DEF Range
      <4> QED
        BY <3>1, <4>1, SameGroups
    <3>3. Groups(<<>>) \in Seq(AnyGroup) /\ Len(Groups(<<>>)) = 0
      BY <1>1, <3>1, GroupsOf DEF Inductive, TypeOK
    <3> QED
      BY <1>1, <3>1, <3>2, <3>3
  <2>2. CASE active # None
    <3>1. active \in Calls /\ InOrder' = <<active>> /\ h = 1 /\ <<active>> \in Seq(Calls)
      BY <1>1, <1>2, <2>2 DEF InOrder, Promise!InHand, Inductive, TypeOK, QueueTypes
    <3>2. Groups(InOrder)' = Groups(<<active>>)
      <4>1. Range(<<active>>) = {active} /\ Untouched(active)
        BY <1>1, <2>2, QueueGivenUp DEF Range, Untouched
      <4> QED
        BY <3>1, <4>1, SameGroups
    <3>3. /\ Groups(<<active>>) \in Seq(AnyGroup) /\ Len(Groups(<<active>>)) = 1
          /\ Groups(<<active>>)[1] = Group(active)
      <4>1. \A q \in Seq(Calls) : /\ Groups(q) \in Seq(AnyGroup) /\ Len(Groups(q)) = Len(q)
                                  /\ \A i \in 1..Len(q) : Groups(q)[i] = Group(q[i])
        BY <1>1, GroupsOf DEF Inductive, TypeOK
      <4> DEFINE q == <<active>>
      <4>2. q \in Seq(Calls) /\ Len(q) = 1 /\ q[1] = active
        BY <3>1
      <4> HIDE DEF q
      <4>3. Groups(q) \in Seq(AnyGroup) /\ Len(Groups(q)) = 1 /\ Groups(q)[1] = Group(active)
        BY <4>1, <4>2
      <4> QED
        BY <4>3 DEF q
    <3>4. Groups(InOrder)[1] = Group(active)
      BY <1>1, <2>2, OrderOf, NumWaitingIs
    <3>5. /\ SubSeq(Groups(InOrder), 1, 1) \in Seq(AnyGroup)
          /\ Len(SubSeq(Groups(InOrder), 1, 1)) = 1
          /\ SubSeq(Groups(InOrder), 1, 1)[1] = Groups(InOrder)[1]
      BY <1>1, <3>1
    <3>6. Groups(<<active>>) = SubSeq(Groups(InOrder), 1, 1)
      BY <3>3, <3>4, <3>5, SeqEqual
    <3> QED
      BY <3>1, <3>2, <3>6
  <2> QED
    BY <2>1, <2>2
<1> QED
  BY <1>2, <1>4, <1>5 DEF Promise!Shut

\* The call that is made now has no future yet.
LEMMA CallIsNew ==
    ASSUME Serving, Coalesce \/ Accept \/ Refuse
    PROVE  /\ made + 1 \in Calls /\ fut[made + 1] = "none"
           /\ UNCHANGED <<active, closing, closed, device>>
<1>1. UNCHANGED <<active, closing, closed, device>>
  BY DEF Coalesce, Accept, Refuse, Call, closeVars
<1> QED
  BY <1>1, CallingStep DEF Serving, Inductive, TypeOK

\* A call is refused only after closing or when as many wait as may.
LEMMA RefusedIsRefuse ==
    ASSUME Serving, Refuse
    PROVE  Promise!Refuse(made + 1)
<1>1. /\ controls' = controls /\ job' = job
      /\ fut' = [fut EXCEPT ![made + 1] = "refused"]
      /\ closing \/ ~(Len(controls) < QueueCapacity)
  BY DEF Refuse, Call, HasRoom
<1>2. Groups(InOrder)' = Groups(InOrder)
  BY <1>1, CallIsNew DEF Groups, Group, InOrder
<1>3. Promise!NumWaiting = Len(controls) /\ Len(controls) \in Nat /\ QueueCapacity \in Nat
  BY NumWaitingIs, RuntimeAssumption DEF Serving
<1> QED
  BY <1>1, <1>2, <1>3, CallIsNew DEF Promise!Refuse

\* A caller joins the youngest command.
LEMMA CoalescedIsJoin ==
    ASSUME Serving, Coalesce
    PROVE  /\ Promise!Arrive(made + 1)
           /\ \E value \in Sources \cup Volumes \cup {None} : Promise!Join(made + 1, value)
<1> DEFINE old == Groups(InOrder)
           new == Groups(InOrder)'
<1>1. PICK value \in Targets("set_volume"), t \in Calls :
          /\ controls # <<>> /\ t = controls[Len(controls)] /\ t \in InPlay
          /\ job[t] \in Control /\ job[t].kind = "set_volume" /\ ~closing
          /\ job' = [job EXCEPT ![t] = [job[t] EXCEPT !.value = value,
                                                     !.waiters = @ \cup {made + 1}]]
          /\ UNCHANGED <<controls, active, closing, closed, device>>
  BY JoinsYoungest DEF Serving
<1>2. PICK n \in Nat : n = Len(InOrder)
  BY OrderOf DEF Serving
<1>3. /\ Inductive /\ controls \in Seq(Calls) /\ InOrder \in Seq(Calls) /\ Sorted(InOrder)
      /\ job \in [Calls -> Control] /\ old \in Seq(AnyGroup) /\ Len(old) = n
      /\ \A i \in 1..n : old[i] = Group(InOrder[i]) /\ InOrder[i] \in Calls
      /\ DOMAIN InOrder = 1..n /\ DOMAIN old = 1..n /\ Len(controls) \in Nat \ {0}
  BY <1>1, <1>2, OrderOf, GroupsOf DEF Serving, Inductive, TypeOK, QueueTypes
<1> HIDE DEF old, new
<1>4. InOrder[n] = t /\ n > 0 /\ Promise!NumWaiting > 0
  <2>1. Promise!NumWaiting = Len(controls)
    BY <1>3, NumWaitingIs
  <2>2. CASE active = None
    BY <1>1, <1>3, <1>2, <2>1, <2>2, OrderOf
  <2>3. CASE active # None
    BY <1>1, <1>3, <1>2, <2>1, <2>3, OrderOf
  <2> QED
    BY <2>2, <2>3
<1>5. \A i \in 1..n : i # n => InOrder[i] \in Calls /\ InOrder[i] # t
  <2> SUFFICES ASSUME NEW i \in 1..n, i # n PROVE InOrder[i] \in Calls /\ InOrder[i] # t
    OBVIOUS
  <2>1. i < n /\ n \in 1..n
    BY <1>3, <1>4
  <2>2. InOrder[i] < InOrder[n]
    BY <1>3, <2>1 DEF Sorted
  <2>3. InOrder[i] \in Calls /\ InOrder[i] \in Int
    BY <1>3 DEF Calls
  <2> QED
    BY <1>4, <2>2, <2>3
<1>6. new = [i \in 1..n |-> Group(InOrder[i])']
  BY <1>1, <1>3 DEF Groups, Group, InOrder, new
<1>7. \A i \in 1..n : i # n => Group(InOrder[i])' = Group(InOrder[i])
  <2>1. InOrder' = InOrder
    BY <1>1 DEF InOrder
  <2>2. \A c \in Calls : c # t => job'[c] = job[c]
    BY <1>1, <1>3
  <2> QED
    BY <1>5, <2>1, <2>2 DEF Group
<1>8. /\ old[n].command = "set_volume"
      /\ Group(InOrder[n])' = [command |-> "set_volume", value |-> value,
                               waiters |-> old[n].waiters \cup {made + 1}]
  <2>1. InOrder' = InOrder
    BY <1>1 DEF InOrder
  <2>2. job'[t].kind = "set_volume" /\ job'[t].value = value
        /\ job'[t].waiters = job[t].waiters \cup {made + 1}
    BY <1>1, <1>3 DEF Control
  <2>3. n \in 1..n /\ old[n] = Group(t)
    BY <1>3, <1>4
  <2>4. Group(InOrder[n])' = [command |-> "set_volume", waiters |-> job[t].waiters \cup {made + 1},
                              value |-> value]
    BY <1>4, <2>1, <2>2 DEF Group
  <2>5. old[n] = [command |-> "set_volume", waiters |-> job[t].waiters, value |-> job[t].value]
    BY <1>1, <2>3 DEF Group
  <2>6. old[n].command = "set_volume"
    BY <2>5
  <2> QED
    BY <2>4, <2>5, <2>6
<1>9. new = [old EXCEPT ![n] = [command |-> "set_volume", value |-> value,
                                 waiters |-> old[n].waiters \cup {made + 1}]]
  <2>1. old = [i \in 1..n |-> old[i]]
    BY <1>3
  <2>2. \A i \in 1..n : i # n => Group(InOrder[i])' = old[i]
    BY <1>3, <1>7
  <2> QED
    BY <1>3, <1>4, <1>6, <1>8, <2>1, <2>2
<1>10. fut' = [fut EXCEPT ![made + 1] = "pending"] /\ ~closed
  BY <1>1 DEF Coalesce, Call, Serving, ClosedMeansDone
<1>11. value \in Sources \cup Volumes \cup {None}
  BY TargetsType DEF ControlKind
<1>12. Promise!Join(made + 1, value)
  <2>1. Promise!Youngest = old[n] /\ Promise!Joinable
    BY <1>3, <1>4, <1>8 DEF Promise!Youngest, Promise!Joinable, old
  <2> QED
    BY <1>1, <1>3, <1>9, <2>1 DEF Promise!Join, new, old
<1>13. Promise!Arrive(made + 1)
  BY <1>1, <1>10, CallIsNew DEF Promise!Arrive
<1> QED
  BY <1>11, <1>12, <1>13

\* A caller brings a command of its own.
LEMMA AcceptedIsAsk ==
    ASSUME Serving, Accept
    PROVE  /\ Promise!Arrive(made + 1)
           /\ \E kind \in Kinds, value \in Sources \cup Volumes \cup {None} :
                  Promise!Ask(made + 1, kind, value)
<1> DEFINE old == Groups(InOrder)
           new == Groups(InOrder)'
<1>1. PICK kind, value :
          /\ kind \in Kinds /\ value \in Targets(kind)
          /\ ~closing /\ ~Coalesces(kind) /\ HasRoom
          /\ job' = [job EXCEPT ![made + 1] =
                         [kind |-> kind, value |-> value, waiters |-> {made + 1}]]
          /\ controls' = Append(controls, made + 1)
          /\ fut' = [fut EXCEPT ![made + 1] = "pending"]
  BY DEF Accept, Call
<1>2. PICK c \in Calls : c = made + 1 /\ fut[c] = "none"
  BY CallIsNew
<1>3. UNCHANGED <<active, closing, closed, device>> /\ ~closed
  BY <1>1, CallIsNew DEF Serving, ClosedMeansDone
<1>4. PICK n \in Nat : n = Len(InOrder)
  BY OrderOf DEF Serving
<1>5. /\ Inductive /\ controls \in Seq(Calls) /\ InOrder \in Seq(Calls)
      /\ job \in [Calls -> Control] /\ old \in Seq(AnyGroup) /\ Len(old) = n
      /\ \A i \in 1..n : old[i] = Group(InOrder[i]) /\ InOrder[i] \in Calls
  BY <1>4, OrderOf, GroupsOf DEF Serving, Inductive, TypeOK, QueueTypes
<1>6. \A i \in 1..n : InOrder[i] # c
  <2>1. \A j \in InPlay : j # c
    BY <1>2, <1>5, InPlayCalls DEF Inductive, ControlsWellFormed
  <2>2. \A i \in 1..n : InOrder[i] \in InPlay
    BY <1>4, <1>5, OrderOf DEF Range
  <2> QED
    BY <2>1, <2>2
<1>7. InOrder' = Append(InOrder, c)
  <2>1. CASE active = None
    BY <1>1, <1>2, <1>3, <2>1 DEF InOrder
  <2>2. CASE active # None
    <3>1. active \in Calls /\ InOrder = <<active>> \o controls
      BY <1>5, <2>2 DEF InOrder, Inductive, TypeOK, QueueTypes
    <3>2. InOrder' = <<active>> \o Append(controls, c)
      BY <1>1, <1>2, <1>3, <2>2 DEF InOrder
    <3>3. <<active>> \o Append(controls, c) = Append(<<active>> \o controls, c)
      <4>1. <<active>> \in Seq(Calls)
        BY <3>1
      <4> QED
        BY <1>5, <4>1, AppendIsConcat, ConcatAssociative
    <3> QED
      BY <3>1, <3>2, <3>3
  <2> QED
    BY <2>1, <2>2
<1>8. PICK q \in Seq(Calls) : q = Append(InOrder, c)
  <2>1. Append(InOrder, c) \in Seq(Calls)
    BY <1>5, AppendProperties
  <2> QED
    BY <2>1
<1>9. /\ DOMAIN q = 1..(n + 1) /\ q[n + 1] = c
      /\ \A i \in 1..n : q[i] = InOrder[i] /\ q[i] \in Calls /\ q[i] # c
  BY <1>4, <1>5, <1>6, <1>8
<1> DEFINE group == [command |-> kind, value |-> value, waiters |-> {c}]
<1>10. value \in Sources \cup Volumes \cup {None} /\ kind \in ControlKind \cap Kinds
       /\ (kind \notin {"select_source", "set_volume"} => value = None)
  BY <1>1, TargetsType, RuntimeAssumption DEF Targets
<1>11. group \in AnyGroup
  BY <1>10 DEF AnyGroup
<1>12. new = [i \in 1..(n + 1) |-> Group(q[i])']
  BY <1>7, <1>8, <1>9 DEF Groups, Group
<1>13. Group(q[n + 1])' = group
  <2>1. job'[c] = [kind |-> kind, value |-> value, waiters |-> {c}]
    BY <1>1, <1>2, <1>5
  <2>2. job'[c].kind = kind /\ job'[c].value = value /\ job'[c].waiters = {c}
    BY <2>1
  <2> QED
    BY <1>9, <1>10, <2>2 DEF Group
<1>14. \A i \in 1..n : Group(q[i])' = old[i]
  <2>1. \A d \in Calls : d # c => job'[d] = job[d]
    BY <1>1, <1>2, <1>5
  <2> QED
    BY <1>5, <1>9, <2>1 DEF Group
<1> HIDE DEF group, old, new
<1>15. new = Append(old, group)
  <2> DEFINE r == Append(old, group)
  <2>1. r \in Seq(AnyGroup) /\ Len(r) = n + 1 /\ r[n + 1] = group /\ \A i \in 1..n : r[i] = old[i]
    BY <1>5, <1>11
  <2>2. \A i \in 1..(n + 1) : Group(q[i])' \in AnyGroup
    BY <1>5, <1>11, <1>13, <1>14
  <2>3. new \in Seq(AnyGroup) /\ Len(new) = n + 1
    BY <1>12, <2>2
  <2>4. \A i \in 1..(n + 1) : new[i] = r[i]
    BY <1>12, <1>13, <1>14, <2>1
  <2> HIDE DEF r
  <2>5. new = r
    BY <2>1, <2>3, <2>4, SeqEqual
  <2> QED
    BY <2>5 DEF r
<1>16. Promise!NumWaiting < QueueCapacity /\ ~(kind = "set_volume" /\ Promise!Joinable)
  <2>1. /\ Promise!NumWaiting = Len(controls) /\ Len(controls) \in Nat
        /\ \A i \in 1..Len(controls) : old[i + Promise!InHand] = Group(controls[i])
        /\ n = Len(controls) + Promise!InHand /\ Promise!InHand \in {0, 1}
    BY <1>5, NumWaitingIs DEF old
  <2>2. ASSUME Promise!Joinable, kind = "set_volume" PROVE FALSE
    <3>1. Len(controls) \in 1..Len(controls) /\ Promise!Youngest = old[n]
      BY <1>5, <2>1, <2>2 DEF Promise!Joinable, Promise!Youngest, old
    <3>2. Promise!Youngest = Group(controls[Len(controls)])
      BY <2>1, <3>1
    <3>3. job[controls[Len(controls)]].kind = "set_volume"
      BY <2>2, <3>2 DEF Promise!Joinable, Group
    <3> QED
      BY <1>1, <1>5, <2>2, <3>1, <3>3 DEF Coalesces
  <2> QED
    BY <1>1, <2>1, <2>2 DEF HasRoom
<1>17. Promise!Ask(c, kind, value)
  BY <1>3, <1>15, <1>16 DEF Promise!Ask, old, new, group
<1>18. Promise!Arrive(c)
  BY <1>1, <1>2, <1>3 DEF Promise!Arrive
<1> QED
  BY <1>2, <1>10, <1>17, <1>18

\* Every step of the runtime is one of KefCalls, or callers cannot see it.
LEMMA PromiseStep == Serving /\ [Next]_vars => [Promise!CallsNext]_(Promise!callsVars)
<1> SUFFICES ASSUME Serving, [Next]_vars
             PROVE  Promise!CallsNext \/ UNCHANGED Promise!callsVars
  OBVIOUS
<1>1. Inductive /\ InPlay \subseteq Calls /\ fut \in [Calls -> CallStates]
  BY InPlayCalls DEF Serving, Inductive, TypeOK, CallerTypes
<1>2. ASSUME UNCHANGED <<controls, active, job, fut, closing, closed, device>>
      PROVE  UNCHANGED Promise!callsVars
  BY <1>1, <1>2, Unseen DEF Untouched
<1>3. CASE \/ UNCHANGED vars \/ Poll
           \/ DeadlinePasses \/ VerificationElapses \/ AnswersAge \/ VolumeAges
           \/ Wake \/ Exit \/ BeginVerify \/ BeginPoll \/ BeginMaintenance \/ Park
           \/ StateReadOk \/ StateReadFails \/ MaintenanceOk \/ MaintenanceFails
  BY <1>2, <1>3 DEF vars, callerVars, queueVars, closeVars, Poll, DeadlinePasses,
     VerificationElapses, AnswersAge, VolumeAges, Wake, Exit, BeginVerify, BeginPoll,
     WorkerGoesTo, BeginMaintenance, Park, StateReadOk, StateReadFails, MaintenanceOk,
     MaintenanceFails
<1>4. CASE SetSpeakerByHand
  <2>1. /\ UNCHANGED <<controls, active, job, fut, closing, closed>>
        /\ SetByHand /\ device' \in Devices
    BY <1>4 DEF SetSpeakerByHand, callerVars, queueVars, closeVars
  <2>2. Groups(InOrder)' = Groups(InOrder)
    BY <2>1 DEF Groups, Group, InOrder
  <2>3. Promise!ByHand
    BY <2>1, <2>2 DEF Promise!ByHand
  <2> QED
    BY <2>3 DEF Promise!CallsNext
<1>5. CASE Coalesce \/ Accept \/ Refuse
  <2>1. made + 1 \in Calls
    BY <1>5, CallIsNew
  <2>2. CASE Coalesce
    BY <2>1, <2>2, CoalescedIsJoin DEF Promise!CallsNext
  <2>3. CASE Accept
    BY <2>1, <2>3, AcceptedIsAsk DEF Promise!CallsNext
  <2>4. CASE Refuse
    BY <2>1, <2>4, RefusedIsRefuse DEF Promise!CallsNext
  <2> QED
    BY <1>5, <2>2, <2>3, <2>4
<1>6. CASE GiveUpWaiting
  <2>1. PICK c \in Calls : fut[c] = "pending" /\ fut' = [fut EXCEPT ![c] = "cancelled"]
    BY <1>6 DEF GiveUpWaiting
  <2>2. UNCHANGED <<controls, active, job, closing, closed, device>>
    BY <1>6 DEF GiveUpWaiting, queueVars, closeVars
  <2>3. Groups(InOrder)' = Groups(InOrder)
    BY <2>2 DEF Groups, Group, InOrder
  <2>4. Promise!GiveUp(c)
    BY <2>1, <2>2, <2>3 DEF Promise!GiveUp
  <2> QED
    BY <2>4 DEF Promise!CallsNext
<1>7. CASE TakeAbandoned \/ TakeExpired \/ TakeExpiring
  <2>1. Taking /\ Drop /\ UNCHANGED <<active, closing, closed, device>>
    BY <1>7 DEF TakeAbandoned, TakeExpired, TakeExpiring, closeVars
  <2>2. Settle(job[Taken].waiters, "error")
    <3>1. CASE TakeAbandoned
      BY <1>1, <3>1 DEF TakeAbandoned, Abandoned, Settle, callerVars
    <3> QED
      BY <1>7, <3>1 DEF TakeExpired, TakeExpiring
  <2>3. Promise!Skip
    BY <2>1, <2>2, DroppedIsSkip
  <2> QED
    BY <2>3 DEF Promise!CallsNext
<1>8. CASE BeginResolve \/ BeginWrite
  BY <1>8, HeadTakenIsTake DEF Promise!CallsNext
<1>9. CASE ResolveOk
  BY <1>9, ResolvedIsPutBack DEF Promise!CallsNext
<1>10. CASE WriteOk
  <2>1. /\ pc = "write" /\ Release /\ UNCHANGED <<controls, closing, closed>>
        /\ Settle(job[active].waiters, "result")
        /\ device' = SpeakerAfterCommand \/ (~AcksObeyed /\ device' = device)
    BY <1>10 DEF WriteOk, closeVars
  <2>2. Promise!Answer("result")
    BY <1>1, <2>1, OverIsAnswer, WriteObeys DEF Executing
  <2> QED
    BY <2>2 DEF Promise!CallsNext
<1>11. ASSUME NEW written, Fails(written), pc \in Executing,
              Promise!SpeakerObeys \/ device' = device
       PROVE  Promise!CallsNext
  <2>1. Promise!Answer("error")
    BY <1>11, OverIsAnswer DEF Fails, closeVars
  <2> QED
    BY <2>1 DEF Promise!CallsNext
<1>12. CASE ResolveFails \/ StopRetrying
  BY <1>11, <1>12 DEF ResolveFails, StopRetrying, GiveUp, Executing
<1>13. CASE WriteRejected
  <2>1. Promise!Answer("error")
    BY <1>13, OverIsAnswer DEF WriteRejected, closeVars, Executing
  <2> QED
    BY <2>1 DEF Promise!CallsNext
<1>14. CASE WriteFails
  <2>1. Promise!SpeakerObeys \/ device' = device
    BY <1>1, <1>14, WriteObeys DEF WriteFails
  <2>2. CASE tries # 0
    BY <1>11, <1>14, <2>1, <2>2 DEF WriteFails, GiveUp, Executing
  <2>3. CASE tries = 0
    <3>1. UNCHANGED <<controls, active, job, fut, closing, closed>> /\ active # None
      BY <1>1, <1>14, <2>3, InHand DEF WriteFails, callerVars, queueVars, closeVars
    <3>2. CASE device' = device
      BY <1>2, <3>1, <3>2
    <3>3. CASE Promise!SpeakerObeys
      <4>1. Groups(InOrder)' = Groups(InOrder)
        BY <3>1 DEF Groups, Group, InOrder
      <4>2. Promise!Unanswered
        BY <3>1, <3>3, <4>1 DEF Promise!Unanswered
      <4> QED
        BY <4>2 DEF Promise!CallsNext
    <3> QED
      BY <2>1, <3>2, <3>3
  <2> QED
    BY <2>2, <2>3
<1>15. CASE Retry
  BY <1>1, <1>15, Retried, Unseen
<1>16. CASE BeginClose
  BY <1>16, ClosingIsShut DEF Promise!CallsNext
<1>17. CASE ForceWorker
  <2>1. CASE active # None
    BY <1>17, <2>1, ForcedIsForget DEF Promise!CallsNext
  <2>2. CASE active = None
    <3>1. /\ UNCHANGED <<controls, active, fut, closing, closed, device>>
          /\ \A j \in InPlay : job'[j] = job[j]
      <4>1. pc # "write" /\ InPlay = Queued
        BY <1>1, <2>2 DEF Inductive, ActiveWhileExecuting, InPlay
      <4> QED
        BY <1>1, <1>17, <2>2, <4>1, HandForgotten DEF ForceWorker, callerVars, closeVars
    <3> QED
      BY <1>1, <3>1, Unseen DEF Untouched
  <2> QED
    BY <2>1, <2>2
<1>18. CASE EndClose
  <2>1. /\ active = None /\ closing /\ ~closed /\ closed'
        /\ UNCHANGED <<fut, controls, active, job, closing, device>>
    BY <1>1, <1>18, NothingLeft
  <2>2. Groups(InOrder)' = Groups(InOrder)
    BY <2>1 DEF Groups, Group, InOrder
  <2>3. Promise!Closed
    BY <2>1, <2>2 DEF Promise!Closed
  <2> QED
    BY <2>3 DEF Promise!CallsNext
<1> QED
  BY <1>3, <1>4, <1>5, <1>6, <1>7, <1>8, <1>9, <1>10, <1>12, <1>13, <1>14, <1>15, <1>16,
     <1>17, <1>18 DEF Next, Caller, Worker, Choose, Finish, Environment, Closer

\* The runtime implements KefCalls: calls are answered in the order they came, once,
\* with the truth about the speaker; who shares a command shares its answer; nothing
\* is executed for nobody; and shutdown gives up what waits (_submit,
\* _async_worker, _async_control, _async_close_impl).
THEOREM CallsAreServed == Spec => CallsServed
<1>1. Init => Promise!CallsInit
  <2> SUFFICES ASSUME Init PROVE Promise!CallsInit
    OBVIOUS
  <2>1. Groups(InOrder) = <<>>
    BY DEF Init, Groups, InOrder
  <2> QED
    BY <2>1 DEF Init, Promise!CallsInit
<1>2. Init => LaterCallsFresh /\ Ownership /\ ClosedMeansDone /\ WaitersOpen
  BY DEF Init, LaterCallsFresh, Ownership, WaitersMade, WaitersApart, PendingOwned, InPlay,
         Queued, Range, ClosedMeansDone, WaitersOpen
<1>3. Serving /\ [Next]_vars => Serving'
  BY InductiveStep, OwnershipStep, LaterCallsFreshStep, ClosedMeansDoneStep, WaitersOpenStep
     DEF Serving, Inductive, TypeOK
<1>4. Init => Serving
  BY <1>2, InitInductive DEF Serving
<1> QED
  BY <1>1, <1>3, <1>4, PromiseStep, PTL DEF Spec, CallsServed, Promise!CallsSpec
=============================================================================

------------------------ MODULE KefCoordinatorProofs ------------------------
(***************************************************************************)
(* What entities show is the runtime's, for every number of polls and      *)
(* callers: the runtime is not disturbed by its coordinator, no result of  *)
(* a poll takes back an answer of the speaker, and an entity is shown as   *)
(* unavailable for the reasons of the runtime only.                        *)
(***************************************************************************)
EXTENDS KefCoordinator, KefRuntimeTheorems

\* What is stored, or will be, agrees with the runtime about the speaker and is
\* unavailable only if the runtime still has both reasons.
Agrees(data) ==
    data # None => /\ data.speaker = speaker
                   /\ ~data.health.available => Unavailable(health, ages)

\* The results on their way are as good as the one shown: one of them is next.
AllAgree == Agrees(shown) /\ \A p \in Polls : Agrees(onItsWay[p])

\* The step takes no answer of the speaker: nothing new is known of it, and a
\* reason to be unavailable does not go away.
Unanswered ==
    /\ speaker' = speaker
    /\ Unavailable(health, ages) => Unavailable(health', ages')

\* Every step with the coordinator is one of the runtime, or none of it.
LEMMA StepIsRuntimes == [CoordinatorNext]_allVars => [Next]_vars
<1> SUFFICES ASSUME [CoordinatorNext]_allVars PROVE [Next]_vars
  OBVIOUS
<1>1. CASE UNCHANGED allVars
  BY <1>1 DEF allVars
<1>2. CASE CoordinatorPolls \/ StateRead \/ AnswerPublished \/ StateNotRead
  BY <1>2 DEF CoordinatorPolls, StateRead, AnswerPublished, VolumeRead, StateNotRead, Next,
     Caller, Worker, Finish
<1>3. CASE FailurePublished \/ CommandPublished
  BY <1>3 DEF FailurePublished, Ended, CommandPublished, Next, Caller, Worker, Choose, Finish
<1>4. CASE Quiet
  BY <1>4 DEF Quiet, Next, Caller, Worker, Choose, Finish
<1>5. CASE \E p \in Polls : Store(p)
  BY <1>5 DEF Store
<1> QED
  BY <1>1, <1>2, <1>3, <1>4, <1>5 DEF CoordinatorNext

\* The runtime behind a coordinator is the runtime of KefRuntime, so that all that is
\* proved of it holds here too (runtime.set_publisher, coordinator._async_update).
THEOREM RuntimeWithin == CoordinatorSpec => Spec
<1>1. CoordinatorInit => Init
  BY DEF CoordinatorInit
<1> QED
  BY <1>1, StepIsRuntimes, PTL DEF CoordinatorSpec, Spec

\* Counting a failure, or judging the health again, takes no reason away.
LEMMA FailureLasts ==
    ASSUME NEW h \in Health, NEW a \in Ages, Unavailable(h, a)
    PROVE  Unavailable(RecordPrimaryFailure(h, a), a) /\ Unavailable(RecordOptionalFailure(h, a), a)
<1>1. CountFailure(h) \in Health /\ CountFailure(h).failures >= h.failures
  BY CountFailureType
<1>2. [h EXCEPT !.degraded = TRUE] \in Health /\ [h EXCEPT !.degraded = TRUE].failures = h.failures
  BY DEF Health
<1>3. /\ RecordPrimaryFailure(h, a).failures = CountFailure(h).failures
      /\ RecordOptionalFailure(h, a).failures = h.failures
  BY <1>1, <1>2, ComputeHealthType DEF RecordPrimaryFailure, RecordOptionalFailure
<1> QED
  BY <1>1, <1>3, ThresholdAssumption DEF Unavailable, Health

\* What agrees goes on to agree until the speaker answers.
LEMMA AgreesOn ==
    ASSUME Unanswered, NEW data, Agrees(data)
    PROVE  data # None => /\ data.speaker = speaker'
                          /\ ~data.health.available => Unavailable(health', ages')
BY DEF Unanswered, Agrees

\* The runtime's own snapshot agrees with it.
LEMMA SnapshotAgrees ==
    ASSUME Hysteresis, SnapshotTypes
    PROVE  /\ Snapshot.speaker = speaker
           /\ ~Snapshot.health.available => Unavailable(health, ages)
BY ThresholdAssumption DEF Hysteresis, SnapshotTypes, Health, Snapshot, Unavailable

\* What is published agrees.
LEMMA PublishedAgrees ==
    ASSUME Hysteresis', SnapshotTypes', Publishes
    PROVE  Agrees(shown)'
<1>1. /\ Snapshot'.speaker = speaker'
      /\ ~Snapshot'.health.available => Unavailable(health', ages')
  BY ThresholdAssumption DEF Hysteresis, SnapshotTypes, Health, Snapshot, Unavailable
<1> QED
  BY <1>1 DEF Agrees, Publishes

\* A failure of an exchange is no answer.
LEMMA FailureUnanswered ==
    ASSUME SnapshotTypes, FailurePublished \/ StateNotRead
    PROVE  Unanswered
<1>1. health \in Health /\ ages \in Ages
  BY DEF SnapshotTypes
<1>2. CASE TakeExpired \/ TakeExpiring \/ MaintenanceFails
  BY <1>1, <1>2, FailureLasts DEF TakeExpired, TakeExpiring, MaintenanceFails, Unanswered
<1>3. CASE ResolveFails \/ Ended
  BY <1>1, <1>3, FailureLasts DEF ResolveFails, Ended, WriteFails, StopRetrying, GiveUp,
     Fails, snapshotVars, Unanswered
<1>4. CASE StateNotRead
  <2>1. /\ speaker' = speaker /\ ages' = ages
        /\ \E counted \in {health, RecordPrimaryFailure(health, ages)} :
               health' = IF pc = "verify" THEN RecordOptionalFailure(counted, ages) ELSE counted
    BY <1>4 DEF StateNotRead, StateReadFails
  <2>2. PICK counted \in {health, RecordPrimaryFailure(health, ages)} :
            health' = IF pc = "verify" THEN RecordOptionalFailure(counted, ages) ELSE counted
    BY <2>1
  <2>3. counted \in Health /\ (Unavailable(health, ages) => Unavailable(counted, ages))
    BY <1>1, FailureHealth, FailureLasts
  <2> QED
    BY <1>1, <2>1, <2>2, <2>3, FailureLasts DEF Unanswered
<1> QED
  BY <1>2, <1>3, <1>4 DEF FailurePublished

\* Nor is anything that is not published, or that callers ask for.
LEMMA QuietUnanswered ==
    ASSUME SnapshotTypes, Quiet \/ CommandPublished \/ CoordinatorPolls
    PROVE  Unanswered
<1>1. CASE speaker' = speaker /\ health' = health /\ (ages.channel => ages'.channel)
  BY <1>1 DEF Unanswered, Unavailable
<1>2. CASE Coalesce \/ Refuse \/ GiveUpWaiting \/ Accept \/ Poll
  BY <1>1, <1>2 DEF Coalesce, Refuse, GiveUpWaiting, Accept, Poll, Call, snapshotVars
<1>3. CASE Wake \/ Exit \/ TakeAbandoned \/ BeginResolve \/ BeginWrite \/ BeginVerify
           \/ BeginPoll \/ BeginMaintenance \/ Park \/ Retry
  BY <1>1, <1>3 DEF Wake, Exit, WorkerGoesTo, TakeAbandoned, BeginResolve, BeginWrite,
     BeginVerify, BeginPoll, BeginMaintenance, Park, Retry, snapshotVars
<1>4. CASE pc' = "backoff" /\ WriteFails
  BY <1>1, <1>4 DEF WriteFails, GiveUp, Fails, Release, snapshotVars
<1>5. CASE AnswersAge
  BY <1>1, <1>5 DEF AnswersAge, SnapshotTypes, Ages, snapshotVars
<1>6. CASE Environment /\ ~AnswersAge
  BY <1>1, <1>6 DEF Environment, DeadlinePasses, VerificationElapses, VolumeAges,
     SetSpeakerByHand, snapshotVars
<1>7. CASE Closer
  BY <1>1, <1>7 DEF Closer, BeginClose, ForceWorker, EndClose, snapshotVars
<1> QED
  BY <1>2, <1>3, <1>4, <1>5, <1>6, <1>7 DEF Quiet, CommandPublished, CoordinatorPolls

\* A read that fails answers the polls with what agrees.
LEMMA FailedReadAgrees ==
    ASSUME SnapshotTypes, StateNotRead, NEW p \in Polls, Agrees(onItsWay[p])
    PROVE  Agrees(onItsWay[p])'
<1>1. CASE onItsWay'[p] = onItsWay[p]
  BY <1>1, FailureUnanswered, AgreesOn DEF Agrees
<1>2. CASE onItsWay'[p] # onItsWay[p]
  <2>1. pollFut[p] = "pending" /\ pollFut'[p] = "result" /\ onItsWay'[p] = FailedRead
    BY <1>2 DEF StateNotRead, Resolves
  <2>2. /\ speaker' = speaker /\ ages' = ages
        /\ LET counted == RecordPrimaryFailure(health, ages)
           IN  health' = IF pc = "verify" THEN RecordOptionalFailure(counted, ages) ELSE counted
    BY <2>1 DEF StateNotRead, StateReadFails
  <2>3. health \in Health /\ ages \in Ages
    BY DEF SnapshotTypes
  <2>4. ~RecordPrimaryFailure(health, ages).available => Unavailable(health', ages')
    BY <2>2, <2>3, FailureHealth, FailureLasts
  <2>5. /\ FailedRead.speaker = speaker
        /\ FailedRead.health = RecordPrimaryFailure(health, ages)
    BY DEF FailedRead, Snapshot
  <2> QED
    BY <2>1, <2>2, <2>4, <2>5 DEF Agrees
<1> QED
  BY <1>1, <1>2

\* Every step keeps the agreement: an answer finds nothing on its way and is shown at
\* once; all else disturbs none of it.
LEMMA AgreementStep ==
    ASSUME SnapshotTypes, SnapshotTypes', Hysteresis, Hysteresis', AllAgree,
           [CoordinatorNext]_allVars
    PROVE  AllAgree'
<1>1. CASE UNCHANGED allVars
  BY <1>1 DEF AllAgree, Agrees, allVars, coordinatorVars, vars, snapshotVars
<1>2. CASE CoordinatorPolls \/ Quiet
  <2>1. Unanswered /\ shown' = shown /\ onItsWay' = onItsWay
    BY <1>2, QuietUnanswered DEF CoordinatorPolls, Quiet, coordinatorVars
  <2> QED
    BY <2>1, AgreesOn DEF AllAgree, Agrees
<1>3. CASE FailurePublished \/ CommandPublished
  <2>1. Unanswered /\ Publishes /\ onItsWay' = onItsWay
    BY <1>3, QuietUnanswered, FailureUnanswered DEF FailurePublished, CommandPublished
  <2> QED
    BY <2>1, AgreesOn, PublishedAgrees DEF AllAgree, Agrees
<1>4. CASE StateNotRead
  BY <1>4, FailedReadAgrees, PublishedAgrees DEF AllAgree, StateNotRead
<1>5. CASE AnswerPublished
  <2>1. \A p \in Polls : onItsWay'[p] = None
    BY <1>5 DEF AnswerPublished, Delivered
  <2> QED
    BY <1>5, <2>1, PublishedAgrees DEF AllAgree, Agrees, AnswerPublished
<1>6. CASE StateRead
  <2>1. \A p \in Polls : onItsWay'[p] = Snapshot' \/ onItsWay'[p] = None
    BY <1>6 DEF StateRead, Delivered, Resolves
  <2>2. Agrees(shown)' /\ shown' = Snapshot'
    BY <1>6, PublishedAgrees DEF StateRead, Publishes
  <2> QED
    BY <2>1, <2>2 DEF AllAgree, Agrees
<1>7. CASE \E p \in Polls : Store(p)
  <2>1. PICK p \in Polls : Store(p)
    BY <1>7
  <2>2. /\ speaker' = speaker /\ health' = health /\ ages' = ages
        /\ shown' \in {Snapshot, onItsWay[p]}
        /\ \A q \in Polls : onItsWay'[q] \in {None, onItsWay[q]}
    BY <2>1 DEF Store, vars, snapshotVars
  <2> QED
    BY <2>2, SnapshotAgrees DEF AllAgree, Agrees
<1> QED
  BY <1>1, <1>2, <1>3, <1>4, <1>5, <1>6, <1>7 DEF CoordinatorNext

\* The agreement is an invariant of the runtime with its coordinator.
LEMMA AllAgreeHolds == CoordinatorSpec => []AllAgree
<1>1. CoordinatorInit => AllAgree
  BY DEF CoordinatorInit, AllAgree, Agrees
<1>2. TypeOK => SnapshotTypes
  BY DEF TypeOK
<1>3. AllAgree /\ SnapshotTypes /\ SnapshotTypes' /\ Hysteresis /\ Hysteresis'
          /\ [CoordinatorNext]_allVars => AllAgree'
  BY AgreementStep
<1> QED
  BY <1>1, <1>2, <1>3, RuntimeWithin, TypeCorrect, HysteresisHolds, PTL DEF CoordinatorSpec

\* No entity ever shows a speaker other than the one the runtime knows, although
\* results of polls are stored late (coordinator._async_update, runtime._publish).
THEOREM SpeakerIsShown == CoordinatorSpec => []SpeakerShown
<1>1. AllAgree => SpeakerShown
  BY DEF AllAgree, Agrees, SpeakerShown
<1> QED
  BY <1>1, AllAgreeHolds, PTL

\* An entity is shown as unavailable only while the runtime has both reasons, failures
\* enough and a long silence (KefLsxEntity.available, _compute_health).
THEOREM UnavailableIsJustified == CoordinatorSpec => []UnavailableForAReason
<1>1. \A data : CommunicationStatus(data) = "unavailable" => ~data.health.available
  BY DEF CommunicationStatus, Available
<1>2. AllAgree => UnavailableForAReason
  BY <1>1 DEF AllAgree, Agrees, UnavailableForAReason
<1> QED
  BY <1>2, AllAgreeHolds, PTL
=============================================================================

------------------------ MODULE KefRuntimeVerification ------------------------
(***************************************************************************)
(* What verification means: which command a plan belongs to, what a        *)
(* verdict compares, and when the state that is expected or reported as    *)
(* verified is the state of the speaker.                                   *)
(***************************************************************************)
EXTENDS KefRuntimeTheorems

-----------------------------------------------------------------------------
(* What a verdict compares *)

\* A plan that has something to expect expects the power state of the acknowledged
\* source command the report is about.
PlanOfLast ==
    /\ verify.expected # None
    /\ last # None /\ last.acked /\ last.command \in SourceKinds
    => verify.expected.power = (last.command # "turn_off")

\* The fields of a report that was just made.
LEMMA ReportFields ==
    ASSUME NEW c \in Calls, job[c].kind \in ControlKind,
           NEW written \in BOOLEAN, NEW acked \in BOOLEAN,
           last' = Completed(c, written, acked)
    PROVE  /\ last'.acked = acked /\ last'.verified = None
           /\ last'.command = job[c].kind
BY DEF Completed, Accepted

\* So it is when the speaker rejected the command.
LEMMA RejectionFields ==
    ASSUME NEW c \in Calls, last' = Rejected(c)
    PROVE  ~last'.acked /\ last'.verified = None /\ last'.rejected
BY DEF Rejected, Completed, Accepted

\* A control that fails is not acknowledged.
LEMMA FailureReport ==
    ASSUME Inductive, NEW written \in BOOLEAN, Fails(written),
           pc \in {"resolve", "write", "backoff"}
    PROVE  last'.verified = None /\ ~last'.acked
BY InHand, ReportFields DEF Fails, Kind

\* How a step can change the report: it is made anew, without an acknowledgement
\* unless by an acknowledged write, or a read of the state completes it.
LEMMA ReportStep ==
    ASSUME Inductive, [Next]_vars
    PROVE  \/ UNCHANGED last
           \/ last'.verified = None /\ ~last'.acked
           \/ WriteOk /\ last'.verified = None /\ last'.acked /\ last'.command = Kind
           \/ StateReadOk \/ StateReadFails
<1>1. CASE Accept
  BY <1>1 DEF Accept, Supersede, Accepted
<1>2. CASE TakeExpired \/ TakeExpiring
  <2>1. Taken \in Calls /\ job[Taken].kind \in ControlKind
    BY <1>2, AtHead DEF TakeExpired, TakeExpiring, Taking
  <2> QED
    BY <1>2, <2>1, ReportFields DEF TakeExpired, TakeExpiring
<1>3. ASSUME NEW written \in BOOLEAN, Fails(written), pc \in {"resolve", "write", "backoff"}
      PROVE  last'.verified = None /\ ~last'.acked
  BY <1>3, FailureReport
<1>4. CASE ResolveFails
  BY <1>3, <1>4 DEF ResolveFails
<1>5. CASE WriteOk
  BY <1>5, InHand, ReportFields DEF WriteOk, Kind
<1>6. CASE WriteRejected
  BY <1>6, InHand, RejectionFields DEF WriteRejected, Kind
<1>7. CASE WriteFails
  <2> PICK sent \in BOOLEAN, obeyed \in BOOLEAN :
           IF tries = 0 THEN UNCHANGED snapshotVars ELSE GiveUp(attempted \/ sent)
    BY <1>7 DEF WriteFails
  <2>1. CASE tries = 0
    BY <2>1 DEF snapshotVars
  <2>2. CASE tries # 0
    <3>1. (attempted \/ sent) \in BOOLEAN
      OBVIOUS
    <3> QED
      BY <1>3, <1>7, <2>2, <3>1 DEF WriteFails, GiveUp
  <2> QED
    BY <2>1, <2>2
<1>8. CASE StopRetrying
  BY <1>3, <1>8 DEF StopRetrying, GiveUp, Inductive, TypeOK, WorkerTypes
<1> QED
  BY <1>1, <1>2, <1>4, <1>5, <1>6, <1>7, <1>8
     DEF Next, Caller, Worker, Choose, Finish, Environment, Closer, vars, snapshotVars,
         Poll, Coalesce, Refuse, Call, GiveUpWaiting, Wake, Exit, WorkerGoesTo,
         TakeAbandoned, BeginResolve, BeginWrite, BeginVerify, BeginPoll,
         BeginMaintenance, Park, MaintenanceOk, MaintenanceFails, ResolveOk, Retry,
         DeadlinePasses, VerificationElapses, AnswersAge, VolumeAges, SetSpeakerByHand,
         BeginClose, ForceWorker, EndClose

\* Only a write that is acknowledged makes an acknowledged report.
LEMMA ReportKept ==
    ASSUME Inductive, [Next]_vars, ~WriteOk, last' # None, last'.acked
    PROVE  last # None /\ last.acked /\ last'.command = last.command
<1>1. last \in CommandResult \cup {None}
  BY DEF Inductive, TypeOK, SnapshotTypes
<1>2. CASE StateReadOk \/ StateReadFails
  <2>1. \/ UNCHANGED last
        \/ last # None /\ last' = [last EXCEPT !.verified = TRUE]
        \/ last # None /\ last' = [last EXCEPT !.verified = FALSE]
    BY <1>2 DEF StateReadOk, StateReadFails, LastUnverified, CompletesVerification
  <2> QED
    BY <1>1, <2>1 DEF CommandResult
<1> QED
  BY <1>2, ReportStep

\* How a step can change what is expected: not at all, or the plan ends, or one is
\* started, for a write that was acknowledged or that failed.
LEMMA PlanStep ==
    ASSUME Inductive, [Next]_vars
    PROVE  \/ verify'.expected = verify.expected /\ verify'.kind = verify.kind
           \/ verify'.expected = None /\ verify'.kind = None
           \/ WriteOk
           \/ ~last'.acked
<1>1. verify \in Verification /\ NoVerification.expected = None /\ NoVerification.kind = None
  BY DEF Inductive, TypeOK, WorkerTypes, NoVerification
<1>2. \/ /\ NextVerification.expected = verify.expected
         /\ NextVerification.kind = verify.kind
      \/ NextVerification.expected = None /\ NextVerification.kind = None
  BY <1>1 DEF NextVerification, Verification, NoVerification
<1>3. CASE StateReadOk
  <2>1. verify' \in {verify, NoVerification, NextVerification}
    BY <1>3 DEF StateReadOk
  <2> QED
    BY <1>1, <1>2, <2>1
<1>4. CASE StateReadFails
  BY <1>2, <1>4 DEF StateReadFails
<1>5. CASE VerificationElapses
  BY <1>1, <1>5 DEF VerificationElapses, Verification
<1>6. CASE WriteFails
  <2> PICK sent \in BOOLEAN, obeyed \in BOOLEAN :
           IF tries = 0 THEN UNCHANGED verify ELSE GiveUp(attempted \/ sent)
    BY <1>6 DEF WriteFails
  <2>1. (attempted \/ sent) \in BOOLEAN
    OBVIOUS
  <2>2. CASE tries = 0
    BY <2>2
  <2>3. CASE tries # 0
    <3>1. Fails(attempted \/ sent)
      BY <2>3 DEF GiveUp
    <3> QED
      BY <1>6, <2>1, <3>1, FailureReport DEF WriteFails
  <2> QED
    BY <2>2, <2>3
<1>7. CASE StopRetrying
  BY <1>7, FailureReport DEF StopRetrying, GiveUp, Inductive, TypeOK, WorkerTypes
<1>8. CASE Accept \/ BeginClose
  <2>1. verify' = NoVerification
    BY <1>8 DEF Accept, Supersede, BeginClose
  <2> QED
    BY <1>1, <2>1
<1>9. CASE UNCHANGED verify
  BY <1>9
<1> QED
  BY <1>3, <1>4, <1>5, <1>6, <1>7, <1>8, <1>9
     DEF Next, Caller, Worker, Choose, Finish, Environment, Closer, vars, snapshotVars,
         Poll, Coalesce, Refuse, Call, GiveUpWaiting, Wake, Exit, WorkerGoesTo,
         TakeAbandoned, TakeExpired, TakeExpiring, BeginResolve, BeginWrite, BeginVerify,
         BeginPoll, BeginMaintenance, Park, MaintenanceOk, MaintenanceFails, ResolveOk,
         ResolveFails, WriteRejected, Retry, DeadlinePasses, AnswersAge, VolumeAges,
         SetSpeakerByHand, ForceWorker, EndClose

\* Every step keeps the plan that of the report: a plan is started with the report of
\* its command, and a read changes of a report its verdict only.
LEMMA PlanOfLastStep == Inductive /\ PlanOfLast /\ [Next]_vars => PlanOfLast'
<1> SUFFICES ASSUME Inductive, PlanOfLast, [Next]_vars PROVE PlanOfLast'
  OBVIOUS
<1>1. last \in CommandResult \cup {None} /\ speaker \in SpeakerState
  BY DEF Inductive, TypeOK, SnapshotTypes
<1>2. CASE WriteOk
  <2>1. last'.command = Kind /\ speaker' = AfterCommand
    BY <1>2, InHand, ReportFields DEF WriteOk, Kind
  <2>2. CASE Kind \in SourceKinds
    <3>1. AfterCommand.power = (Kind # "turn_off")
      BY <1>1, <2>2 DEF AfterCommand, ExpectedState, SpeakerState, SourceKinds, PowerKinds
    <3>2. verify'.expected.power = AfterCommand.power
      BY <1>2, <2>1, <2>2 DEF WriteOk, StartVerification
    <3> QED
      BY <2>1, <3>1, <3>2 DEF PlanOfLast
  <2>3. CASE Kind \notin SourceKinds
    BY <2>1, <2>3 DEF PlanOfLast
  <2> QED
    BY <2>2, <2>3
<1>3. CASE ~WriteOk
  BY <1>3, ReportKept, PlanStep DEF PlanOfLast
<1> QED
  BY <1>2, <1>3

\* A verdict on an acknowledged source command is about its own effect
\* (_complete_verification compares the reading with the plan of _last_command).
THEOREM VerdictsCompareOwnPlan == Spec => VerdictIsReal
<1>1. ASSUME Inductive, PlanOfLast, [Next]_vars,
             last # None, last.verified = None, last.acked, last.command \in SourceKinds,
             last' # None, last'.verified = TRUE
      PROVE  device.power = (last.command # "turn_off")
  <2>1. last \in CommandResult /\ None \notin BOOLEAN
    BY <1>1, NoneAssumption DEF Inductive, TypeOK, SnapshotTypes
  <2>2. StateReadOk \/ StateReadFails
    BY <1>1, <2>1, ReportStep
  <2>3. CASE StateReadFails
    BY <1>1, <2>1, <2>3 DEF StateReadFails, LastUnverified, CommandResult
  <2>4. CASE StateReadOk
    <3>1. Confirms(device, verify.expected)
      BY <1>1, <2>1, <2>4 DEF StateReadOk, LastUnverified, CommandResult
    <3> QED
      BY <1>1, <3>1 DEF Confirms, PlanOfLast
  <2> QED
    BY <2>2, <2>3, <2>4
<1>2. Init => PlanOfLast
  BY DEF Init, PlanOfLast
<1>3. Inductive /\ PlanOfLast /\ [Next]_vars =>
      [/\ last # None /\ last.verified = None /\ last.acked /\ last.command \in SourceKinds
       /\ last' # None /\ last'.verified = TRUE
       => device.power = (last.command # "turn_off")]_vars
  BY <1>1
<1> QED
  BY <1>2, <1>3, InductiveHolds, PlanOfLastStep, PTL DEF Spec, VerdictIsReal

-----------------------------------------------------------------------------
(* What is reported as verified *)

\* A control accepted while the state is being read ends the plan, so what is read
\* then counts for nothing.
NoPlanWhileBusy == pc \in {"poll", "verify"} /\ controls # <<>> => verify = NoVerification

\* While there is a control to execute nothing is reported as verified.
UnverifiedWhileBusy ==
    (active # None \/ controls # <<>>) /\ last # None => last.verified = None

\* Every step keeps this: reading starts with an empty queue only, and whoever fills
\* it ends the plan.
LEMMA NoPlanWhileBusyStep ==
    Inductive /\ NoPlanWhileBusy /\ [Next]_vars => NoPlanWhileBusy'
<1> SUFFICES ASSUME Inductive, NoPlanWhileBusy, [Next]_vars PROVE NoPlanWhileBusy'
  OBVIOUS
<1>1. CASE UNCHANGED <<pc, controls, verify>>
  BY <1>1 DEF NoPlanWhileBusy
<1>2. CASE pc' \notin {"poll", "verify"}
  BY <1>2 DEF NoPlanWhileBusy
<1>3. CASE NoControls /\ UNCHANGED controls
  BY <1>3 DEF NoControls, NoPlanWhileBusy
<1>4. CASE Accept
  BY <1>4 DEF Accept, Supersede, NoPlanWhileBusy
<1>5. CASE VerificationElapses
  BY <1>5 DEF VerificationElapses, NoPlanWhileBusy, NoVerification, queueVars
<1>6. CASE BeginClose
  BY <1>6 DEF BeginClose, NoPlanWhileBusy
<1>7. CASE UNCHANGED vars \/ EndClose
  BY <1>1, <1>7 DEF vars, queueVars, EndClose
<1>8. CASE Poll \/ Coalesce \/ Refuse \/ GiveUpWaiting
  BY <1>1, <1>8 DEF Poll, Coalesce, Refuse, Call, GiveUpWaiting, queueVars
<1>9. CASE DeadlinePasses \/ AnswersAge \/ VolumeAges \/ SetSpeakerByHand
  BY <1>1, <1>9 DEF DeadlinePasses, AnswersAge, VolumeAges, SetSpeakerByHand, queueVars
<1>10. CASE Wake \/ Exit \/ Park \/ BeginMaintenance \/ Finish \/ ForceWorker
  BY <1>2, <1>10 DEF Wake, Exit, WorkerGoesTo, Park, BeginMaintenance, Finish,
       StateReadOk, StateReadFails, MaintenanceOk, MaintenanceFails, ResolveOk,
       ResolveFails, Fails, Release, WriteOk, WriteRejected, WriteFails, GiveUp, Retry,
       StopRetrying, ForceWorker
<1>11. CASE TakeAbandoned \/ TakeExpired \/ TakeExpiring \/ BeginResolve \/ BeginWrite
  BY <1>2, <1>11 DEF TakeAbandoned, TakeExpired, TakeExpiring, Taking, BeginResolve,
       BeginWrite
<1>12. CASE BeginVerify \/ BeginPoll
  BY <1>3, <1>12 DEF BeginVerify, BeginPoll, WorkerGoesTo, queueVars
<1> QED
  BY <1>4, <1>5, <1>6, <1>7, <1>8, <1>9, <1>10, <1>11, <1>12
     DEF Next, Caller, Worker, Choose, Environment, Closer

\* A read that finds controls waiting leaves the report alone.
LEMMA ReadWhileBusy ==
    ASSUME Inductive, NoPlanWhileBusy, StateReadOk \/ StateReadFails, controls # <<>>
    PROVE  UNCHANGED last
<1>1. verify = NoVerification
  BY DEF NoPlanWhileBusy, StateReadOk, StateReadFails
<1>2. ~CompletesVerification
  BY <1>1 DEF CompletesVerification, NoVerification
<1>3. ~LastAttempt
  BY <1>1, RuntimeAssumption DEF LastAttempt, NoVerification
<1> QED
  BY <1>2, <1>3 DEF StateReadOk, StateReadFails, LastUnverified

\* Every step keeps the report of a busy runtime unverified: what makes it busy comes
\* with a report of its own.
LEMMA UnverifiedWhileBusyStep ==
    Inductive /\ NoPlanWhileBusy /\ UnverifiedWhileBusy /\ [Next]_vars
    => UnverifiedWhileBusy'
<1> SUFFICES ASSUME Inductive, NoPlanWhileBusy, UnverifiedWhileBusy, [Next]_vars
             PROVE  UnverifiedWhileBusy'
  OBVIOUS
<1>1. CASE last'.verified = None
  BY <1>1 DEF UnverifiedWhileBusy
<1>2. CASE StateReadOk \/ StateReadFails
  <2>1. active = None /\ UNCHANGED <<active, controls>>
    BY <1>2 DEF StateReadOk, StateReadFails, queueVars, Inductive, ActiveWhileExecuting
  <2> QED
    BY <1>2, <2>1, ReadWhileBusy DEF UnverifiedWhileBusy
<1>3. CASE UNCHANGED last
  <2>1. ASSUME active' # None \/ controls' # <<>>
        PROVE  active # None \/ controls # <<>> \/ last'.verified = None
    <3>1. CASE Taking \/ pc \in {"resolve", "write", "backoff"}
      BY <3>1 DEF Taking, Inductive, ActiveWhileExecuting
    <3>2. CASE UNCHANGED <<active, controls>> \/ (UNCHANGED active /\ controls' = <<>>)
      BY <2>1, <3>2
    <3>3. CASE active' = None /\ UNCHANGED controls
      BY <2>1, <3>3
    <3>4. CASE Accept
      BY <3>4 DEF Accept, Supersede, Accepted
    <3>5. CASE Caller \/ Environment \/ Closer
      BY <3>2, <3>3, <3>4, <3>5 DEF Caller, Poll, Coalesce, Refuse, Call, GiveUpWaiting,
           Environment, DeadlinePasses, VerificationElapses, AnswersAge, VolumeAges,
           SetSpeakerByHand, Closer, BeginClose, ForceWorker, EndClose, queueVars
    <3>6. CASE Choose
      BY <3>1, <3>2, <3>6 DEF Choose, Wake, Exit, TakeAbandoned, TakeExpired,
           TakeExpiring, BeginResolve, BeginWrite, BeginVerify, BeginPoll, WorkerGoesTo,
           BeginMaintenance, Park, queueVars
    <3>7. CASE Finish
      BY <1>2, <3>1, <3>2, <3>7 DEF Finish, StateReadOk, StateReadFails, MaintenanceOk,
           MaintenanceFails, ResolveOk, ResolveFails, WriteOk, WriteRejected, WriteFails,
           Retry, StopRetrying, queueVars
    <3>8. CASE UNCHANGED vars
      BY <3>2, <3>8 DEF vars, queueVars
    <3> QED
      BY <3>5, <3>6, <3>7, <3>8 DEF Next, Worker
  <2> QED
    BY <1>3, <2>1 DEF UnverifiedWhileBusy
<1> QED
  BY <1>1, <1>2, <1>3, ReportStep

\* How a step can change the speaker or what is shown of its power state and input:
\* a write, in which case a control is in hand, a hand, or a reading, after which
\* both agree.
LEMMA SpeakerStep ==
    ASSUME Inductive, [Next]_vars
    PROVE  \/ UNCHANGED device /\ speaker'.power = speaker.power
                               /\ speaker'.source = speaker.source
           \/ pc \in {"write", "backoff"} /\ ~WriteOk /\ UNCHANGED speaker
           \/ WriteOk
           \/ SetByHand
           \/ /\ StateReadOk /\ UNCHANGED device
              /\ speaker'.power = device.power /\ speaker'.source = device.source
<1>1. speaker \in SpeakerState
  BY DEF Inductive, TypeOK, SnapshotTypes
<1>2. CASE StateReadOk
  BY <1>1, <1>2 DEF StateReadOk, SpeakerState
<1>3. CASE MaintenanceOk \/ ResolveOk
  BY <1>1, <1>3 DEF MaintenanceOk, ResolveOk, LearnVolume, SpeakerState
<1>4. CASE SetSpeakerByHand
  BY <1>4 DEF SetSpeakerByHand
<1>5. CASE WriteFails /\ ~WriteOk
  BY <1>5 DEF WriteFails, GiveUp, Fails, snapshotVars
<1>6. CASE ForceWorker
  BY <1>6 DEF ForceWorker, snapshotVars, WriteOk
<1>7. CASE UNCHANGED <<device, speaker>>
  BY <1>7
<1>8. CASE WriteRejected \/ StopRetrying \/ ResolveFails
  BY <1>7, <1>8 DEF WriteRejected, StopRetrying, ResolveFails, GiveUp, Fails
<1> QED
  BY <1>2, <1>3, <1>4, <1>5, <1>6, <1>7, <1>8
     DEF Next, Caller, Worker, Choose, Finish, Environment, Closer, vars, snapshotVars,
         Poll, Coalesce, Accept, Refuse, Call, GiveUpWaiting, Wake, Exit, WorkerGoesTo,
         TakeAbandoned, TakeExpired, TakeExpiring, BeginResolve, BeginWrite, BeginVerify,
         BeginPoll, BeginMaintenance, Park, StateReadFails, MaintenanceFails, Retry,
         DeadlinePasses, VerificationElapses, AnswersAge, VolumeAges, BeginClose, EndClose

\* Left alone, the speaker stays what it was found to be: VerifiedIsReal under the
\* assumption that nobody uses its buttons.
VerifiedLeftAlone == ~SetByHand => VerifiedIsReal

\* Every step keeps a verified report true: a write is executed while nothing is
\* reported as verified, and a verdict comes from a reading.
LEMMA VerifiedStep ==
    Inductive /\ UnverifiedWhileBusy /\ VerifiedLeftAlone /\ [Next]_vars
    => VerifiedLeftAlone'
<1> SUFFICES ASSUME Inductive, UnverifiedWhileBusy, VerifiedLeftAlone, [Next]_vars,
                    ~SetByHand, last' # None, last'.verified = TRUE
             PROVE  speaker'.power = device'.power /\ speaker'.source = device'.source
  BY DEF VerifiedLeftAlone, VerifiedIsReal
<1>1. None \notin BOOLEAN /\ last \in CommandResult \cup {None}
  BY NoneAssumption DEF Inductive, TypeOK, SnapshotTypes
<1>2. StateReadOk \/ (last # None /\ last.verified = TRUE)
  <2>1. CASE StateReadFails
    BY <1>1, <2>1 DEF StateReadFails, LastUnverified, CommandResult
  <2> QED
    BY <1>1, <2>1, ReportStep
<1>3. CASE StateReadOk
  BY <1>3, SpeakerStep DEF StateReadOk, WriteOk
<1>4. CASE ~StateReadOk /\ last # None /\ last.verified = TRUE
  <2>1. speaker.power = device.power /\ speaker.source = device.source
    BY <1>4 DEF VerifiedLeftAlone, VerifiedIsReal
  <2>2. active = None
    BY <1>1, <1>4 DEF UnverifiedWhileBusy
  <2>3. pc \notin {"write", "backoff"}
    BY <2>2 DEF Inductive, ActiveWhileExecuting
  <2> QED
    BY <1>4, <2>1, <2>3, SpeakerStep DEF WriteOk
<1> QED
  BY <1>2, <1>3, <1>4

\* When nobody sets the speaker by hand, what is reported as verified is what it does:
\* whatever may have changed it since came with a report of its own (_submit,
\* _finish_control, _complete_verification).
THEOREM VerifiedHolds == Spec => [](~SetByHand => VerifiedIsReal)
<1>1. Init => NoPlanWhileBusy /\ UnverifiedWhileBusy /\ VerifiedLeftAlone
  BY DEF Init, NoPlanWhileBusy, UnverifiedWhileBusy, VerifiedLeftAlone, VerifiedIsReal
<1>2. VerifiedLeftAlone <=> (~SetByHand => VerifiedIsReal)
  BY DEF VerifiedLeftAlone
<1> QED
  BY <1>1, <1>2, InductiveHolds, NoPlanWhileBusyStep, UnverifiedWhileBusyStep,
     VerifiedStep, PTL DEF Spec

-----------------------------------------------------------------------------
(* What a verification expects *)

\* Shutdown ends the plan, and what is still in flight brings none back before the
\* worker looks at the flag.
ClosingEndsPlan == closing /\ pc \in Exchanges \cup {"backoff"} => verify.kind = None

\* No command switches the speaker off.
NeverOff == \A c \in Calls : job[c].kind # "turn_off"

\* The plan of an acknowledged source command expects what the speaker does, save
\* while a later write may have changed that already.
PlanOfDevice ==
    /\ pc \notin {"write", "backoff"} /\ verify.kind # None
    /\ last # None /\ last.acked /\ last.command \in SourceKinds
    => verify.expected = [power |-> device.power, source |-> device.source]

\* Nobody at the speaker's buttons, which does what it acknowledges, and no power-off:
\* that keeps the shown input but writes the preferred one.
OnlySwitchedOn == ~SetByHand /\ AcksObeyed /\ "turn_off" \notin Kinds \cup {None}

\* Every step keeps the plan out of shutdown.
LEMMA ClosingEndsPlanStep ==
    Inductive /\ ClosingEndsPlan /\ [Next]_vars => ClosingEndsPlan'
<1> SUFFICES ASSUME Inductive, ClosingEndsPlan, [Next]_vars PROVE ClosingEndsPlan'
  OBVIOUS
<1> USE DEF Exchanges, closeVars
<1>1. verify \in Verification /\ NoVerification.kind = None
  BY DEF Inductive, TypeOK, WorkerTypes, NoVerification
<1>2. CASE pc' \notin Exchanges \cup {"backoff"}
  BY <1>2 DEF ClosingEndsPlan
<1>3. CASE ~closing'
  BY <1>3 DEF ClosingEndsPlan
<1>4. CASE UNCHANGED <<verify, closing, pc>>
  BY <1>4 DEF ClosingEndsPlan
<1>5. CASE UNCHANGED <<verify, closing>> /\ pc = "write" /\ pc' = "backoff"
  BY <1>5 DEF ClosingEndsPlan
<1>6. CASE BeginClose \/ Accept
  BY <1>1, <1>6 DEF BeginClose, Accept, Supersede, ClosingEndsPlan
<1>7. CASE VerificationElapses
  BY <1>1, <1>7 DEF VerificationElapses, ClosingEndsPlan, Verification
<1>8. CASE Poll \/ Coalesce \/ Refuse \/ GiveUpWaiting
  BY <1>4, <1>8 DEF Poll, Coalesce, Refuse, Call, GiveUpWaiting
<1>9. CASE DeadlinePasses \/ AnswersAge \/ VolumeAges \/ SetSpeakerByHand \/ UNCHANGED vars
  BY <1>4, <1>9 DEF DeadlinePasses, AnswersAge, VolumeAges, SetSpeakerByHand, vars
<1>10. CASE EndClose \/ ForceWorker
  BY <1>2, <1>4, <1>10 DEF EndClose, ForceWorker
<1>11. CASE Wake \/ Exit \/ TakeAbandoned \/ TakeExpired \/ TakeExpiring
  BY <1>2, <1>11 DEF Wake, Exit, WorkerGoesTo, TakeAbandoned, TakeExpired, TakeExpiring,
       Taking
<1>12. CASE \/ BeginResolve \/ BeginWrite \/ BeginVerify \/ BeginPoll \/ BeginMaintenance
            \/ Park \/ Retry
  BY <1>3, <1>12 DEF BeginResolve, BeginWrite, Taking, BeginVerify, BeginPoll,
       WorkerGoesTo, BeginMaintenance, Park, NoControls, Retry, NoTimeLeft
<1>13. CASE StateReadOk \/ StateReadFails \/ MaintenanceOk \/ MaintenanceFails
  BY <1>2, <1>13 DEF StateReadOk, StateReadFails, MaintenanceOk, MaintenanceFails
<1>14. CASE ResolveOk \/ ResolveFails \/ WriteOk \/ WriteRejected \/ StopRetrying
  BY <1>2, <1>14 DEF ResolveOk, ResolveFails, WriteOk, WriteRejected, StopRetrying,
       GiveUp, Fails, Release
<1>15. CASE WriteFails
  BY <1>2, <1>5, <1>15 DEF WriteFails, GiveUp, Fails, Release
<1> QED
  BY <1>6, <1>7, <1>8, <1>9, <1>10, <1>11, <1>12, <1>13, <1>14, <1>15
     DEF Next, Caller, Worker, Choose, Finish, Environment, Closer

\* Every step keeps power-offs out when no caller asks for one.
LEMMA NeverOffStep ==
    ASSUME OnlySwitchedOn
    PROVE  Inductive /\ NeverOff /\ [Next]_vars => NeverOff'
<1> SUFFICES ASSUME Inductive, NeverOff, [Next]_vars PROVE NeverOff'
  OBVIOUS
<1>1. job \in [Calls -> Control] /\ NoControl.kind # "turn_off"
  BY DEF Inductive, TypeOK, QueueTypes, OnlySwitchedOn, NoControl
<1>2. CASE UNCHANGED job
  BY <1>2 DEF NeverOff
<1>3. CASE \E c : job' = [job EXCEPT ![c] = NoControl]
  BY <1>1, <1>3 DEF NeverOff
<1>4. CASE \E c : job' = Resolved(c)
  BY <1>1, <1>4 DEF NeverOff, Resolved, Control
<1>5. CASE Accept
  BY <1>1, <1>5 DEF Accept, NeverOff, OnlySwitchedOn
<1>6. CASE Coalesce
  <2>1. PICK value \in Targets("set_volume") :
            job' = [job EXCEPT ![controls[Len(controls)]].value = value,
                               ![controls[Len(controls)]].waiters = @ \cup {made + 1}]
    BY <1>6 DEF Coalesce
  <2> QED
    BY <1>1, <2>1 DEF NeverOff, Control
<1>7. CASE BeginClose \/ ForceWorker
  BY <1>1, <1>7 DEF BeginClose, ForceWorker, NeverOff
<1>8. CASE TakeAbandoned \/ TakeExpired \/ TakeExpiring
  BY <1>3, <1>8 DEF TakeAbandoned, TakeExpired, TakeExpiring, Drop
<1>9. CASE BeginWrite \/ Retry
  BY <1>4, <1>9 DEF BeginWrite, Retry
<1>10. CASE ResolveFails \/ WriteOk \/ WriteRejected \/ StopRetrying
  BY <1>3, <1>10 DEF ResolveFails, WriteOk, WriteRejected, StopRetrying, GiveUp, Fails,
       Release
<1>11. CASE WriteFails
  BY <1>2, <1>3, <1>11 DEF WriteFails, GiveUp, Fails, Release, queueVars
<1> QED
  BY <1>2, <1>5, <1>6, <1>7, <1>8, <1>9, <1>10, <1>11
     DEF Next, Caller, Worker, Choose, Finish, Environment, Closer, vars, queueVars,
         Poll, Refuse, Call, GiveUpWaiting, Wake, Exit, WorkerGoesTo, BeginResolve,
         BeginVerify, BeginPoll, BeginMaintenance, Park, StateReadOk, StateReadFails,
         MaintenanceOk, MaintenanceFails, ResolveOk, DeadlinePasses,
         VerificationElapses, AnswersAge, VolumeAges, SetSpeakerByHand, EndClose

\* A write that is left without an acknowledgement says so, or was cancelled.
LEMMA WriteLeft ==
    ASSUME Inductive, [Next]_vars, ~WriteOk,
           pc \in {"write", "backoff"}, pc' \notin {"write", "backoff"}
    PROVE  ~last'.acked \/ ForceWorker
<1>1. CASE WriteRejected
  BY <1>1, InHand, RejectionFields DEF WriteRejected, Kind
<1>2. CASE WriteFails
  <2> PICK sent \in BOOLEAN, obeyed \in BOOLEAN : GiveUp(attempted \/ sent)
    BY <1>2 DEF WriteFails
  <2>1. (attempted \/ sent) \in BOOLEAN
    OBVIOUS
  <2> QED
    BY <2>1, FailureReport DEF GiveUp
<1>3. CASE StopRetrying
  BY <1>3, FailureReport DEF StopRetrying, GiveUp, Inductive, TypeOK, WorkerTypes
<1>4. CASE UNCHANGED pc
  BY <1>4
<1> QED
  BY <1>1, <1>2, <1>3, <1>4
     DEF Next, Caller, Worker, Choose, Finish, Environment, Closer, vars, Taking,
         NoControls, Poll, Coalesce, Accept, Refuse, Call, GiveUpWaiting, Wake, Exit,
         TakeAbandoned, TakeExpired, TakeExpiring, BeginResolve, BeginWrite, BeginVerify,
         BeginPoll, BeginMaintenance, Park, StateReadOk, StateReadFails, MaintenanceOk,
         MaintenanceFails, ResolveOk, ResolveFails, Retry, DeadlinePasses,
         VerificationElapses, AnswersAge, VolumeAges, SetSpeakerByHand, BeginClose,
         EndClose

\* Every step keeps the plan that of the speaker.
LEMMA PlanOfDeviceStep ==
    ASSUME OnlySwitchedOn
    PROVE  Inductive /\ NeverOff /\ ClosingEndsPlan /\ PlanOfDevice /\ [Next]_vars
           => PlanOfDevice'
<1> SUFFICES ASSUME Inductive, NeverOff, ClosingEndsPlan, PlanOfDevice, [Next]_vars,
                    pc' \notin {"write", "backoff"}, verify'.kind # None,
                    last' # None, last'.acked, last'.command \in SourceKinds
             PROVE  verify'.expected = [power |-> device'.power, source |-> device'.source]
  BY DEF PlanOfDevice
<1>1. device \in DeviceState /\ speaker \in SpeakerState /\ last \in CommandResult \cup {None}
  BY DEF Inductive, TypeOK, SurroundingTypes, SnapshotTypes
<1>2. CASE WriteOk
  <2>1. last'.command = Kind /\ Kind \in SourceKinds /\ Kind # "turn_off"
    BY <1>2, InHand, ReportFields DEF WriteOk, Kind, NeverOff
  <2>2. /\ AfterCommand.power = TRUE /\ AfterCommand.source = job[active].value
        /\ SpeakerAfterCommand.power = TRUE
        /\ SpeakerAfterCommand.source = job[active].value
    BY <1>1, <2>1 DEF AfterCommand, SpeakerAfterCommand, ExpectedState, Written,
         SpeakerState, DeviceState, SourceKinds, PowerKinds
  <2> QED
    BY <1>2, <2>1, <2>2 DEF WriteOk, StartVerification, OnlySwitchedOn
<1>3. CASE ~WriteOk
  <2>1. last # None /\ last.acked /\ last.command \in SourceKinds
    BY <1>1, <1>3, ReportKept
  <2>2. verify'.expected = verify.expected /\ verify'.kind = verify.kind
    BY <1>3, PlanStep
  <2>3. CASE pc \in {"write", "backoff"}
    <3>1. closing
      BY <1>3, <2>3, WriteLeft DEF ForceWorker
    <3> QED
      BY <2>2, <2>3, <3>1 DEF ClosingEndsPlan, Exchanges
  <2>4. CASE pc \notin {"write", "backoff"}
    <3>1. UNCHANGED device
      BY <1>3, <2>4, SpeakerStep DEF OnlySwitchedOn
    <3> QED
      BY <2>1, <2>2, <2>4, <3>1 DEF PlanOfDevice
  <2> QED
    BY <2>3, <2>4
<1> QED
  BY <1>2, <1>3

\* When nobody sets the speaker by hand, it does what it acknowledges and no command
\* switches it off, verification expects the state the last acknowledged command put it in (_start_verification
\* after _apply_optimistic).
THEOREM ExpectationHolds == Spec => [](OnlySwitchedOn => ExpectsWhatWasSent)
<1> DEFINE Expects == OnlySwitchedOn => NeverOff /\ PlanOfDevice
<1>1. Init => ClosingEndsPlan /\ Expects
  BY DEF Init, ClosingEndsPlan, NeverOff, PlanOfDevice, OnlySwitchedOn, NoControl
<1>2. Inductive /\ ClosingEndsPlan /\ Expects /\ [Next]_vars => Expects'
  BY NeverOffStep, PlanOfDeviceStep DEF OnlySwitchedOn
<1>3. Inductive /\ Expects => (OnlySwitchedOn => ExpectsWhatWasSent)
  <2> SUFFICES ASSUME Inductive, PlanOfDevice, InPlay = {} PROVE ExpectsWhatWasSent
    BY DEF ExpectsWhatWasSent
  <2>1. active = None
    BY DEF InPlay
  <2>2. pc \notin {"write", "backoff"}
    BY <2>1 DEF Inductive, ActiveWhileExecuting
  <2> QED
    BY <2>2 DEF PlanOfDevice, ExpectsWhatWasSent
<1> QED
  BY <1>1, <1>2, <1>3, InductiveHolds, ClosingEndsPlanStep, PTL DEF Spec

-----------------------------------------------------------------------------
(* Which commands are verified *)

\* Only for a relative command is the volume read first, so the failure of that read
\* leaves no source command without a plan.
ResolvesRelative == pc = "resolve" => Kind \in RelativeKinds

\* Every step keeps this: the control in hand stays what it is while others are
\* accepted, shared and given up.
LEMMA ResolvesRelativeStep == Inductive /\ ResolvesRelative /\ [Next]_vars => ResolvesRelative'
<1> SUFFICES ASSUME Inductive, ResolvesRelative, [Next]_vars, pc' = "resolve"
             PROVE  Kind' \in RelativeKinds
  BY DEF ResolvesRelative
<1>1. job \in [Calls -> Control] /\ made \in Nat
  BY DEF Inductive, TypeOK, QueueTypes, CallerTypes
<1>2. CASE BeginResolve
  BY <1>2 DEF BeginResolve, NeedsVolume, Kind
<1>3. ~BeginResolve => pc = "resolve"
  BY DEF Next, Caller, Worker, Choose, Finish, Environment, Closer, vars, Poll, Coalesce,
     Accept, Refuse, Call, GiveUpWaiting, Wake, Exit, WorkerGoesTo, TakeAbandoned,
     TakeExpired, TakeExpiring, BeginWrite, BeginVerify, BeginPoll, BeginMaintenance, Park,
     StateReadOk, StateReadFails, MaintenanceOk, MaintenanceFails, ResolveOk, ResolveFails,
     Fails, Release, WriteOk, WriteRejected, WriteFails, Retry, StopRetrying, GiveUp,
     DeadlinePasses, VerificationElapses, AnswersAge, VolumeAges, SetSpeakerByHand,
     BeginClose, ForceWorker, EndClose
<1>4. CASE pc = "resolve"
  <2>1. active \in Calls /\ active <= made /\ Kind \in RelativeKinds
    BY <1>4, InHand DEF Inductive, ControlsWellFormed, ResolvesRelative, InPlay
  <2>2. CASE UNCHANGED <<job, active>>
    BY <2>1, <2>2 DEF Kind
  <2>3. CASE Coalesce
    BY <1>1, <2>1, <2>3 DEF Coalesce, Call, Kind, Control
  <2>4. CASE Accept
    <3>1. active # made + 1
      BY <1>1, <2>1 DEF Calls
    <3> QED
      BY <1>1, <2>1, <2>4, <3>1 DEF Accept, Call, Kind
  <2>5. CASE BeginClose
    BY <2>1, <2>5 DEF BeginClose, Kind
  <2>6. ~(Choose \/ Finish \/ ForceWorker)
    BY <1>4 DEF Choose, Finish, Wake, Exit, WorkerGoesTo, TakeAbandoned, TakeExpired,
       TakeExpiring, Taking, NoControls, BeginResolve, BeginWrite, BeginVerify, BeginPoll,
       BeginMaintenance, Park, StateReadOk, StateReadFails, MaintenanceOk,
       MaintenanceFails, ResolveOk, ResolveFails, Fails, Release, WriteOk, WriteRejected,
       WriteFails, Retry, StopRetrying, ForceWorker
  <2> QED
    BY <2>2, <2>3, <2>4, <2>5, <2>6 DEF Next, Caller, Worker, Environment, Closer, vars,
       queueVars, Poll, Refuse, Call, GiveUpWaiting, DeadlinePasses, VerificationElapses,
       AnswersAge, VolumeAges, SetSpeakerByHand, EndClose
<1> QED
  BY <1>2, <1>3, <1>4

\* A control that fails leaves its report with a plan of its own if it was sent and
\* may have switched the speaker.
LEMMA GivenUpIsVerified ==
    ASSUME Inductive, NEW written \in BOOLEAN, GiveUp(written), pc \in {"write", "backoff"}
    PROVE  VerdictToCome'
<1>1. active \in Calls /\ Kind \in ControlKind /\ last' = Completed(active, written, FALSE)
  BY InHand DEF GiveUp, Fails, Kind
<1>2. last'.command = Kind /\ last'.written = written
  BY <1>1 DEF Completed, Accepted, Kind
<1> QED
  BY <1>2 DEF GiveUp, StartVerification, VerdictToCome

\* Every step keeps this: the plan of a report is started with it, is ended only with
\* a verdict or with the report of another command, and a read that fails counts
\* against it but leaves it scheduled.
LEMMA VerdictToComeStep ==
    Inductive /\ ResolvesRelative /\ VerdictToCome /\ [Next]_vars => VerdictToCome'
<1> SUFFICES ASSUME Inductive, ResolvesRelative, VerdictToCome, [Next]_vars
             PROVE  VerdictToCome'
  OBVIOUS
<1>1. last \in CommandResult \cup {None} /\ verify \in Verification /\ None \notin BOOLEAN
  BY NoneAssumption DEF Inductive, TypeOK, SnapshotTypes, WorkerTypes
<1>2. CASE UNCHANGED <<verify, last, closing>> \/ closing'
  BY <1>2 DEF VerdictToCome
<1>3. CASE Accept
  BY <1>3 DEF Accept, Supersede, Accepted, VerdictToCome
<1>4. CASE TakeExpired \/ TakeExpiring
  <2>1. Taken \in Calls /\ job[Taken].kind \in ControlKind
    BY <1>4, AtHead DEF TakeExpired, TakeExpiring, Taking
  <2>2. ~last'.written
    BY <1>4, <2>1 DEF TakeExpired, TakeExpiring, Completed, Accepted
  <2> QED
    BY <2>2 DEF VerdictToCome
<1>5. CASE ResolveFails
  <2>1. Kind \in RelativeKinds /\ active \in Calls /\ Kind \in ControlKind
    BY <1>5, InHand DEF ResolveFails, ResolvesRelative, Kind
  <2>2. last'.command = Kind
    BY <1>5, <2>1, ReportFields DEF ResolveFails, Fails, Kind
  <2> QED
    BY <2>1, <2>2 DEF VerdictToCome, RelativeKinds, SourceKinds, PowerKinds
<1>6. CASE WriteOk
  <2>1. last'.command = Kind
    BY <1>6, InHand, ReportFields DEF WriteOk, Kind
  <2> QED
    BY <1>6, <2>1 DEF WriteOk, StartVerification, VerdictToCome
<1>7. CASE WriteRejected
  BY <1>7, InHand, RejectionFields DEF WriteRejected, VerdictToCome
<1>8. CASE WriteFails
  <2> PICK sent \in BOOLEAN, obeyed \in BOOLEAN :
           IF tries = 0 THEN UNCHANGED <<verify, snapshotVars, closeVars>>
                        ELSE GiveUp(attempted \/ sent)
    BY <1>8 DEF WriteFails
  <2>1. CASE tries = 0
    BY <1>2, <2>1 DEF snapshotVars, closeVars
  <2>2. CASE tries # 0
    <3>1. (attempted \/ sent) \in BOOLEAN
      OBVIOUS
    <3> QED
      BY <1>8, <2>2, <3>1, GivenUpIsVerified DEF WriteFails
  <2> QED
    BY <2>1, <2>2
<1>9. CASE StopRetrying
  BY <1>9, GivenUpIsVerified DEF StopRetrying, Inductive, TypeOK, WorkerTypes
<1>10. CASE VerificationElapses
  BY <1>1, <1>10 DEF VerificationElapses, Verification, VerdictToCome, snapshotVars, closeVars
<1>11. ASSUME verify' = NextVerification, last' = LastUnverified, UNCHANGED closing
       PROVE  VerdictToCome'
  <2>1. CASE LastAttempt
    BY <1>1, <1>11, <2>1 DEF LastUnverified, CommandResult, VerdictToCome
  <2>2. CASE ~LastAttempt
    <3>1. last' = last /\ verify'.due = "waiting" /\ verify'.kind = verify.kind
      BY <1>1, <1>11, <2>2 DEF LastUnverified, NextVerification, Verification
    <3> QED
      BY <1>11, <3>1 DEF VerdictToCome
  <2> QED
    BY <2>1, <2>2
<1>12. CASE StateReadFails
  BY <1>2, <1>11, <1>12 DEF StateReadFails, closeVars
<1>13. CASE StateReadOk
  <2>1. CASE last' = [last EXCEPT !.verified = TRUE] /\ last # None
    BY <1>1, <2>1 DEF CommandResult, VerdictToCome
  <2> QED
    BY <1>2, <1>11, <1>13, <2>1 DEF StateReadOk, CompletesVerification, closeVars
<1> QED
  BY <1>2, <1>3, <1>4, <1>5, <1>6, <1>7, <1>8, <1>9, <1>10, <1>12, <1>13
     DEF Next, Caller, Worker, Choose, Finish, Environment, Closer, vars, snapshotVars,
         closeVars, Poll, Coalesce, Refuse, Call, GiveUpWaiting, Wake, Exit, WorkerGoesTo,
         TakeAbandoned, BeginResolve, BeginWrite, BeginVerify, BeginPoll,
         BeginMaintenance, Park, MaintenanceOk, MaintenanceFails, ResolveOk, Retry,
         DeadlinePasses, AnswersAge, VolumeAges, SetSpeakerByHand, BeginClose,
         ForceWorker, EndClose

\* A source command that was sent and not rejected is verified, acknowledged or not:
\* until its report has a verdict, a plan of its own is scheduled, whatever comes
\* between (_start_verification in _finish_control and _finish_control_error,
\* _complete_verification, _schedule_next_verification).
THEOREM VerdictsToCome == Spec => []VerdictToCome
<1>1. Init => ResolvesRelative /\ VerdictToCome
  BY DEF Init, ResolvesRelative, VerdictToCome
<1> QED
  BY <1>1, InductiveHolds, ResolvesRelativeStep, VerdictToComeStep, PTL DEF Spec
=============================================================================

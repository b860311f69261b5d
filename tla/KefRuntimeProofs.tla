--------------------------- MODULE KefRuntimeProofs ---------------------------
(***************************************************************************)
(* Theorems about KefRuntime, for every number of calls and polls, every   *)
(* capacity, option and set of commands.                                   *)
(***************************************************************************)
EXTENDS KefRuntime, TLAPS

-----------------------------------------------------------------------------
(* The command and health operators: what a command makes of a well-formed *)
(* state is a well-formed state, and the health after each kind of exchange *)
(* keeps its hysteresis. *)

\* The values a caller can ask for are values of the command's register
\* (async_set_volume clamps, coerce_source validates).
LEMMA TargetsType ==
    ASSUME NEW kind \in ControlKind, NEW value \in Targets(kind)
    PROVE  /\ value \in Sources \cup Volumes \cup {None}
           /\ kind = "set_volume" => value \in Volumes
           /\ kind = "select_source" => value \in Sources
<1>1. \A v \in Volumes : AtMostMaximum(AtLeastZero(v)) \in Volumes
  BY VolumeAssumption, SMT DEF Volumes, AtMostMaximum, AtLeastZero
<1>2. CASE kind = "select_source"
  BY <1>2 DEF Targets
<1>3. CASE kind = "set_volume"
  BY <1>3, <1>1 DEF Targets
<1>4. CASE kind \notin {"select_source", "set_volume"}
  BY <1>4 DEF Targets
<1> QED
  BY <1>2, <1>3, <1>4

\* The volume a command asks for is one the speaker has
\* (_execute_control and _expected_state compute the same one).
LEMMA NewVolumeType ==
    ASSUME NEW kind, NEW value, NEW known \in SpeakerState,
           kind = "set_volume" => value \in Volumes
    PROVE  NewVolume(kind, value, known) \in Volumes
<1>1. PICK volume \in Volumes :
          volume = IF known.volume = None THEN 0 ELSE known.volume
  BY VolumeAssumption DEF SpeakerState, Volumes
<1>2. CASE kind = "set_volume"
  BY <1>2 DEF NewVolume
<1>3. CASE kind = "volume_up"
  BY <1>1, <1>3, VolumeAssumption DEF NewVolume, AtMostMaximum, Volumes
<1>4. CASE kind = "volume_down"
  BY <1>1, <1>4, VolumeAssumption DEF NewVolume, AtLeastZero, Volumes
<1>5. CASE kind \notin {"set_volume", "volume_up", "volume_down"}
  BY <1>1, <1>5 DEF NewVolume
<1> QED
  BY <1>2, <1>3, <1>4, <1>5

\* The mute state a command asks for is a Boolean, whatever was known
\* (bool(speaker.muted) in _execute_control).
LEMMA NewMutedType ==
    ASSUME NEW kind, NEW known
    PROVE  NewMuted(kind, known) \in BOOLEAN
<1>1. CASE kind = "mute"
  BY <1>1 DEF NewMuted
<1>2. CASE kind = "unmute"
  BY <1>2 DEF NewMuted
<1>3. CASE kind \notin {"mute", "unmute"}
  BY <1>3 DEF NewMuted
<1> QED
  BY <1>1, <1>2, <1>3

\* Executing a well-formed command on a speaker, and showing it, keep both
\* states well formed.
LEMMA ExpectedStateType ==
    ASSUME NEW kind \in ControlKind, NEW value, NEW known \in SpeakerState,
           kind = "set_volume" => value \in Volumes,
           kind \in {"turn_on", "select_source"} => value \in Sources
    PROVE  ExpectedState(kind, value, known) \in SpeakerState
<1>1. NewVolume(kind, value, known) \in Volumes
  BY NewVolumeType
<1>2. NewMuted(kind, known) \in BOOLEAN
  BY NewMutedType
<1>3. CASE kind = "turn_off"
  BY <1>3 DEF ExpectedState, SpeakerState
<1>4. CASE kind \in {"turn_on", "select_source"}
  BY <1>4 DEF ExpectedState, SpeakerState
<1>5. CASE kind \notin SourceKinds
  BY <1>5, <1>1, <1>2 DEF ExpectedState, SpeakerState, SourceKinds, PowerKinds
<1> QED
  BY <1>3, <1>4, <1>5 DEF SourceKinds, PowerKinds

\* Executing a well-formed command leaves the speaker in one of its states
\* (_execute_control).
LEMMA WrittenType ==
    ASSUME NEW kind \in ControlKind, NEW value, NEW known \in SpeakerState,
           NEW real \in DeviceState,
           kind = "set_volume" => value \in Volumes,
           kind \in SourceKinds => value \in Sources
    PROVE  Written(kind, value, known, real) \in DeviceState
<1>1. NewVolume(kind, value, known) \in Volumes
  BY NewVolumeType
<1>2. NewMuted(kind, known) \in BOOLEAN
  BY NewMutedType
<1>3. CASE kind \in SourceKinds
  BY <1>3 DEF Written, DeviceState
<1>4. CASE kind \notin SourceKinds
  BY <1>4, <1>1, <1>2 DEF Written, DeviceState
<1> QED
  BY <1>3, <1>4

\* A power command always finds an input to name.
LEMMA SourceForPowerType ==
    ASSUME NEW known \in SpeakerState
    PROVE  SourceForPowerCommand(known) \in Sources
BY SourceAssumption, NoneAssumption DEF SourceForPowerCommand, SpeakerState

-----------------------------------------------------------------------------

\* Recomputing the health leaves the count of failures alone and decides the
\* availability by the two reasons (_compute_health).
LEMMA ComputeHealthType ==
    ASSUME NEW h \in Health, NEW failed \in BOOLEAN, NEW a \in Ages
    PROVE  /\ ComputeHealth(h, failed, a) \in Health
           /\ ComputeHealth(h, failed, a).failures = h.failures
           /\ ComputeHealth(h, failed, a).available = ~Unavailable(h, a)
BY ThresholdAssumption DEF ComputeHealth, Health, Unavailable, Ages

\* Counting a failure never loses one (_record_primary_failure).
LEMMA CountFailureType ==
    ASSUME NEW h \in Health
    PROVE  /\ CountFailure(h) \in Health
           /\ CountFailure(h).failures >= h.failures
BY ThresholdAssumption DEF CountFailure, Health

\* An answer, of either kind, leaves the speaker available with no failure on
\* the count and a channel that is not silent (_record_success).
LEMMA AnswerHealth ==
    ASSUME NEW h \in Health, NEW a \in Ages, NEW carriesState \in BOOLEAN
    PROVE  /\ Heard(a, carriesState) \in Ages
           /\ RecordSuccess(h, Heard(a, carriesState)) \in Health
           /\ RecordSuccess(h, Heard(a, carriesState)).available = TRUE
<1> DEFINE g == [h EXCEPT !.available = TRUE, !.failures = 0]
<1>1. Heard(a, carriesState) \in Ages /\ ~Heard(a, carriesState).channel
  BY DEF Heard, Ages
<1>2. g \in Health
  <2>1. 0 \in 0..FailureThreshold
    BY ThresholdAssumption
  <2>2. [h EXCEPT !.available = TRUE] \in Health
    BY DEF Health
  <2> QED
    BY <2>1, <2>2 DEF Health, g
<1> HIDE DEF g
<1>3. RecordSuccess(h, Heard(a, carriesState)) =
          ComputeHealth(g, FALSE, Heard(a, carriesState))
  BY DEF RecordSuccess, g
<1> QED
  BY <1>1, <1>2, <1>3, ComputeHealthType DEF Unavailable

\* A failure makes the speaker unavailable for the two reasons together only
\* (_record_primary_failure, _record_optional_failure).
LEMMA FailureHealth ==
    ASSUME NEW h \in Health, NEW a \in Ages
    PROVE  /\ RecordPrimaryFailure(h, a) \in Health
           /\ RecordOptionalFailure(h, a) \in Health
           /\ ~RecordPrimaryFailure(h, a).available =>
                  Unavailable(RecordPrimaryFailure(h, a), a)
           /\ ~RecordOptionalFailure(h, a).available =>
                  Unavailable(RecordOptionalFailure(h, a), a)
<1>1. [h EXCEPT !.degraded = TRUE] \in Health
  BY DEF Health
<1>2. CountFailure(h) \in Health
  BY CountFailureType
<1>3. RecordPrimaryFailure(h, a) \in Health /\ RecordOptionalFailure(h, a) \in Health
  BY <1>1, <1>2, ComputeHealthType DEF RecordPrimaryFailure, RecordOptionalFailure
<1>4. ~RecordPrimaryFailure(h, a).available => Unavailable(RecordPrimaryFailure(h, a), a)
  BY <1>2, ComputeHealthType DEF RecordPrimaryFailure, Unavailable
<1>5. ~RecordOptionalFailure(h, a).available => Unavailable(RecordOptionalFailure(h, a), a)
  BY <1>1, ComputeHealthType DEF RecordOptionalFailure, Unavailable
<1> QED
  BY <1>3, <1>4, <1>5

-----------------------------------------------------------------------------
(* The queue *)

\* Taking the oldest control of a sorted queue leaves a sorted queue of
\* controls that are all younger.
LEMMA PopSorted ==
    ASSUME NEW S \in SUBSET Int, NEW q \in Seq(S), q # <<>>, Sorted(q)
    PROVE  /\ Tail(q) \in Seq(S) /\ Sorted(Tail(q))
           /\ Head(q) \in S /\ Head(q) \in Range(q)
           /\ Range(Tail(q)) \subseteq Range(q)
           /\ \A c \in Range(Tail(q)) : Head(q) < c
<1>1. /\ Tail(q) \in Seq(S) /\ Head(q) \in S /\ Len(q) \in Nat \ {0}
      /\ Len(Tail(q)) = Len(q) - 1 /\ Head(q) = q[1]
      /\ DOMAIN q = 1..Len(q) /\ DOMAIN Tail(q) = 1..(Len(q) - 1)
  OBVIOUS
<1>2. \A i \in DOMAIN Tail(q) : Tail(q)[i] = q[i + 1]
  BY <1>1
<1>3. \A i \in DOMAIN q : q[i] \in S
  OBVIOUS
<1>4. Sorted(Tail(q))
  BY <1>1, <1>2 DEF Sorted
<1>5. Head(q) \in Range(q) /\ Range(Tail(q)) \subseteq Range(q)
  BY <1>1, <1>2 DEF Range
<1>6. \A c \in Range(Tail(q)) : Head(q) < c
  <2> SUFFICES ASSUME NEW i \in DOMAIN Tail(q)
               PROVE  Head(q) < Tail(q)[i]
    BY DEF Range
  <2>1. i + 1 \in DOMAIN q /\ 1 \in DOMAIN q /\ 1 < i + 1
    BY <1>1
  <2> QED
    BY <2>1, <1>1, <1>2 DEF Sorted
<1> QED
  BY <1>1, <1>4, <1>5, <1>6

\* A new control is younger than all that are queued.
LEMMA AppendSorted ==
    ASSUME NEW S \in SUBSET Int, NEW q \in Seq(S), Sorted(q),
           NEW c \in S, \A d \in Range(q) : d < c
    PROVE  /\ Append(q, c) \in Seq(S) /\ Sorted(Append(q, c))
           /\ Range(Append(q, c)) = Range(q) \cup {c}
<1> DEFINE r == Append(q, c)
<1>1. /\ r \in Seq(S) /\ Len(q) \in Nat /\ Len(r) = Len(q) + 1
      /\ DOMAIN q = 1..Len(q) /\ DOMAIN r = 1..(Len(q) + 1)
      /\ r[Len(q) + 1] = c
  OBVIOUS
<1>2. \A i \in DOMAIN q : r[i] = q[i]
  OBVIOUS
<1> HIDE DEF r
<1>3. Range(r) = Range(q) \cup {c}
  <2>1. \A i \in DOMAIN r : i \in DOMAIN q \/ i = Len(q) + 1
    BY <1>1
  <2>2. DOMAIN q \subseteq DOMAIN r /\ Len(q) + 1 \in DOMAIN r
    BY <1>1
  <2> QED
    BY <2>1, <2>2, <1>1, <1>2 DEF Range
<1>4. Sorted(r)
  <2> SUFFICES ASSUME NEW i \in DOMAIN r, NEW k \in DOMAIN r, i < k
               PROVE  r[i] < r[k]
    BY DEF Sorted
  <2>1. i \in DOMAIN q
    BY <1>1
  <2>2. CASE k \in DOMAIN q
    BY <2>1, <2>2, <1>2 DEF Sorted
  <2>3. CASE k = Len(q) + 1
    <3>1. q[i] \in Range(q)
      BY <2>1 DEF Range
    <3> QED
      BY <3>1, <2>1, <2>3, <1>1, <1>2
  <2> QED
    BY <2>2, <2>3, <1>1
<1> QED
  BY <1>1, <1>3, <1>4 DEF r

\* A control older than all that are queued goes back to the head.
LEMMA RequeueSorted ==
    ASSUME NEW S \in SUBSET Int, NEW q \in Seq(S), Sorted(q),
           NEW c \in S, \A d \in Range(q) : c < d
    PROVE  /\ <<c>> \o q \in Seq(S) /\ Sorted(<<c>> \o q)
           /\ Range(<<c>> \o q) = Range(q) \cup {c}
<1> DEFINE r == <<c>> \o q
<1>1. /\ r \in Seq(S) /\ Len(q) \in Nat /\ Len(r) = Len(q) + 1
      /\ DOMAIN q = 1..Len(q) /\ DOMAIN r = 1..(Len(q) + 1)
      /\ r[1] = c
  OBVIOUS
<1>2. \A i \in DOMAIN r : i # 1 => i - 1 \in DOMAIN q /\ r[i] = q[i - 1]
  OBVIOUS
<1> HIDE DEF r
<1>3. Range(r) = Range(q) \cup {c}
  <2>1. \A i \in DOMAIN q : i + 1 \in DOMAIN r /\ r[i + 1] = q[i]
    BY <1>1, <1>2
  <2>2. 1 \in DOMAIN r
    BY <1>1
  <2> QED
    BY <2>1, <2>2, <1>1, <1>2 DEF Range
<1>4. Sorted(r)
  <2> SUFFICES ASSUME NEW i \in DOMAIN r, NEW k \in DOMAIN r, i < k
               PROVE  r[i] < r[k]
    BY DEF Sorted
  <2>1. k # 1 /\ k - 1 \in DOMAIN q /\ r[k] = q[k - 1]
    BY <1>1, <1>2
  <2>2. CASE i = 1
    <3>1. q[k - 1] \in Range(q)
      BY <2>1 DEF Range
    <3> QED
      BY <3>1, <2>1, <2>2, <1>1
  <2>3. CASE i # 1
    <3>1. i - 1 \in DOMAIN q /\ r[i] = q[i - 1] /\ i - 1 < k - 1
      BY <2>3, <1>1, <1>2
    <3> QED
      BY <3>1, <2>1 DEF Sorted
  <2> QED
    BY <2>2, <2>3
<1> QED
  BY <1>1, <1>3, <1>4 DEF r

-----------------------------------------------------------------------------
(* Types *)

\* Types alone are not inductive: that the value of a command fits its register
\* is known because the control in hand is a well-formed one, which in turn
\* needs the control in hand and those queued to be different ones; and that the
\* attempts of a verification stay in range is known because none is under way
\* that has no attempt left.
Inductive ==
    /\ TypeOK /\ ActiveWhileExecuting /\ ControlsWellFormed /\ AcceptanceOrder
    /\ VerificationAnchored

\* A runtime that was just started satisfies the invariant (__init__, async_start).
LEMMA InitInductive == Init => Inductive
<1> SUFFICES ASSUME Init PROVE Inductive
  OBVIOUS
<1> USE DEF Init
<1>1. Queued = {} /\ InPlay = {}
  BY DEF InPlay, Queued, Range
<1>2. UnknownSpeaker \in SpeakerState /\ InitialHealth \in Health /\ JustStarted \in Ages
  BY ThresholdAssumption
     DEF UnknownSpeaker, SpeakerState, InitialHealth, Health, JustStarted, Ages
<1>3. NoVerification \in Verification /\ NoControl \in Control
  BY RuntimeAssumption DEF NoVerification, Verification, NoControl, Control
<1>4. TypeOK
  <2>1. /\ made \in 0..NumCalls /\ pollsMade \in 0..NumPolls
        /\ fut \in [Calls -> CallStates] /\ pollFut \in [Polls -> PollStates]
    BY RuntimeAssumption DEF CallStates, PollStates
  <2>2. /\ controls \in Seq(Calls) /\ job \in [Calls -> Control]
        /\ active \in Calls \cup {None} /\ late \subseteq Calls
    BY <1>3
  <2>3. device \in DeviceState
    BY RuntimeAssumption
  <2>4. /\ attempted \in BOOLEAN /\ wake \in BOOLEAN /\ pollPending \in BOOLEAN
        /\ maintenance \in BOOLEAN /\ closing \in BOOLEAN /\ closed \in BOOLEAN
    OBVIOUS
  <2>5. /\ verify \in Verification /\ volumeAge \in {"never", "fresh", "old"}
        /\ speaker \in SpeakerState /\ health \in Health
        /\ last \in CommandResult \cup {None} /\ ages \in Ages
    BY <1>2, <1>3
  <2>6. pc \in Places /\ tries \in 0..1
    BY DEF Places
  <2> QED
    BY <2>1, <2>2, <2>3, <2>4, <2>5, <2>6
       DEF TypeOK, CallerTypes, QueueTypes, WorkerTypes, SnapshotTypes, SurroundingTypes
<1>5. ActiveWhileExecuting /\ ControlsWellFormed
  BY <1>1 DEF ActiveWhileExecuting, ControlsWellFormed
<1>6. AcceptanceOrder
  BY <1>1 DEF AcceptanceOrder, Sorted
<1>7. VerificationAnchored
  BY DEF VerificationAnchored, NoVerification
<1> QED
  BY <1>4, <1>5, <1>6, <1>7 DEF Inductive

\* The control in hand, when there is one, is a well-formed one.
LEMMA InHand ==
    ASSUME Inductive, pc \in {"resolve", "write", "backoff"}
    PROVE  /\ active \in Calls /\ active # None /\ active \in InPlay
           /\ active \notin Queued
           /\ Kind \in ControlKind /\ job[active] \in Control
           /\ Kind = "set_volume" => job[active].value \in Volumes
           /\ Kind = "select_source" => job[active].value \in Sources
           /\ pc # "resolve" /\ Kind \in PowerKinds => job[active].value \in Sources
<1>1. active \in Calls /\ active # None
  BY DEF Inductive, TypeOK, QueueTypes, ActiveWhileExecuting
<1>2. active \in InPlay
  BY <1>1 DEF InPlay
<1>3. active \notin Queued
  BY <1>1 DEF Inductive, AcceptanceOrder, Calls
<1>4. job[active] \in Control
  BY <1>1 DEF Inductive, TypeOK, QueueTypes
<1> QED
  BY <1>1, <1>2, <1>3, <1>4 DEF Inductive, ControlsWellFormed, Kind

\* So what a write shows and what it does to the speaker are states of each.
LEMMA CommandType ==
    ASSUME Inductive, pc \in {"write", "backoff"}
    PROVE  AfterCommand \in SpeakerState /\ SpeakerAfterCommand \in DeviceState
<1>1. speaker \in SpeakerState /\ device \in DeviceState
  BY DEF Inductive, TypeOK, SnapshotTypes, SurroundingTypes
<1>2. /\ Kind \in ControlKind
      /\ Kind = "set_volume" => job[active].value \in Volumes
      /\ Kind \in SourceKinds => job[active].value \in Sources
  BY InHand DEF SourceKinds
<1>3. Kind \in {"turn_on", "select_source"} => Kind \in SourceKinds
  BY DEF SourceKinds, PowerKinds
<1> QED
  BY <1>1, <1>2, <1>3, ExpectedStateType, WrittenType
     DEF AfterCommand, SpeakerAfterCommand

\* The head of the queue, when there is one.
LEMMA AtHead ==
    ASSUME Inductive, controls # <<>>
    PROVE  /\ Taken \in Calls /\ Taken # None /\ Taken \in Queued /\ Taken \in InPlay
           /\ job[Taken] \in Control /\ job[Taken].kind \in ControlKind
           /\ Tail(controls) \in Seq(Calls) /\ Sorted(Tail(controls))
           /\ Range(Tail(controls)) \subseteq Queued
           /\ \A c \in Range(Tail(controls)) : Taken < c
<1>1. controls \in Seq(Calls) /\ Calls \in SUBSET Int /\ Sorted(controls)
  BY DEF Inductive, TypeOK, QueueTypes, AcceptanceOrder, Calls
<1>2. /\ Taken \in Calls /\ Taken \in Queued
      /\ Tail(controls) \in Seq(Calls) /\ Sorted(Tail(controls))
      /\ Range(Tail(controls)) \subseteq Queued
      /\ \A c \in Range(Tail(controls)) : Taken < c
  BY <1>1, PopSorted DEF Taken, Queued
<1>3. Taken \in InPlay /\ Taken # None
  BY <1>2, NoneAssumption DEF InPlay, Calls
<1>4. job[Taken] \in Control /\ job[Taken].kind \in ControlKind
  BY <1>2, <1>3 DEF Inductive, TypeOK, QueueTypes, ControlsWellFormed
<1> QED
  BY <1>2, <1>3, <1>4

\* Settling the futures of some calls leaves each call with one.
LEMMA SettleType ==
    ASSUME CallerTypes, NEW waiters, NEW outcome \in CallStates, Settle(waiters, outcome)
    PROVE  fut' \in [Calls -> CallStates]
BY DEF CallerTypes, Settle

\* Settling the polls that wait leaves each poll with a future.
LEMMA SettlePollsType ==
    ASSUME CallerTypes, NEW outcome \in PollStates, SettlePolls(outcome)
    PROVE  pollFut' \in [Polls -> PollStates]
BY DEF CallerTypes, SettlePolls

\* What callers hold keeps its type: a future is created, settled or left alone.
LEMMA CallerTypesStep == Inductive /\ [Next]_vars => CallerTypes'
<1> SUFFICES ASSUME Inductive, [Next]_vars PROVE CallerTypes'
  OBVIOUS
<1> USE DEF callerVars
<1>1. CallerTypes
  BY DEF Inductive, TypeOK
<1>2. {"pending", "refused", "cancelled", "result", "error"} \subseteq CallStates
  BY DEF CallStates
<1>3. {"pending", "cancelled", "result"} \subseteq PollStates
  BY DEF PollStates
<1>4. CASE Poll
  BY <1>1, <1>3, <1>4, RuntimeAssumption DEF Poll, CallerTypes, Polls
<1>5. ASSUME NEW outcome \in {"pending", "refused"}, Call(outcome)
      PROVE  CallerTypes'
  BY <1>1, <1>2, <1>5, RuntimeAssumption DEF Call, CallerTypes, Calls
<1>6. CASE Coalesce \/ Accept \/ Refuse
  BY <1>5, <1>6 DEF Coalesce, Accept, Refuse
<1>7. CASE GiveUpWaiting
  BY <1>1, <1>2, <1>7 DEF GiveUpWaiting, CallerTypes
<1>8. CASE TakeExpired \/ TakeExpiring
  BY <1>1, <1>2, <1>8, SettleType DEF TakeExpired, TakeExpiring, CallerTypes
<1>9. CASE StateReadOk
  BY <1>1, <1>3, <1>9, SettlePollsType DEF StateReadOk, CallerTypes
<1>10. CASE StateReadFails
  BY <1>1, <1>3, <1>10, SettlePollsType DEF StateReadFails, CallerTypes
<1>11. ASSUME NEW written, Fails(written) PROVE CallerTypes'
  BY <1>1, <1>2, <1>11, SettleType DEF Fails, CallerTypes
<1>12. CASE ResolveFails \/ WriteFails \/ StopRetrying
  BY <1>1, <1>11, <1>12
     DEF ResolveFails, WriteFails, StopRetrying, GiveUp, CallerTypes
<1>13. CASE WriteOk \/ WriteRejected
  BY <1>1, <1>2, <1>13, SettleType DEF WriteOk, WriteRejected, CallerTypes
<1>14. CASE BeginClose
  BY <1>1, <1>2, <1>3, <1>14, SettleType, SettlePollsType DEF BeginClose, CallerTypes
<1>15. CASE EndClose
  BY <1>1, <1>2, <1>15, SettleType DEF EndClose, CallerTypes
<1>16. CASE UNCHANGED callerVars
  BY <1>1, <1>16 DEF CallerTypes
<1> QED
  BY <1>4, <1>6, <1>7, <1>8, <1>9, <1>10, <1>12, <1>13, <1>14, <1>15, <1>16
     DEF Next, Caller, Worker, Choose, Finish, Environment, Closer, vars, Wake, Exit,
         TakeAbandoned, BeginResolve, BeginWrite, BeginVerify, BeginPoll,
         BeginMaintenance, Park, WorkerGoesTo, MaintenanceOk, MaintenanceFails,
         ResolveOk, Retry, DeadlinePasses, VerificationElapses, AnswersAge, VolumeAges,
         SetSpeakerByHand, ForceWorker

\* The next attempt, or the end of the plan, when an attempt is left.
LEMMA NextVerificationType ==
    ASSUME Inductive, verify.due # "none" \/ pc = "verify"
    PROVE  NextVerification \in Verification
<1>1. /\ verify \in Verification /\ VerifyAttempts \in Nat \ {0}
      /\ verify.attempt < VerifyAttempts
  BY RuntimeAssumption DEF Inductive, TypeOK, WorkerTypes, VerificationAnchored
<1>2. verify.attempt + 1 \in -1..VerifyAttempts
  BY <1>1 DEF Verification
<1>3. CASE LastAttempt
  BY <1>1, <1>2, <1>3 DEF NextVerification, Verification, NoVerification
<1>4. CASE ~LastAttempt
  BY <1>1, <1>2, <1>4 DEF NextVerification, Verification
<1> QED
  BY <1>3, <1>4

\* A plan that was just started has attempts left (_start_verification).
LEMMA StartVerificationType ==
    ASSUME NEW expected \in SpeakerState, Kind \in SourceKinds
    PROVE  StartVerification(expected) \in Verification
BY RuntimeAssumption DEF StartVerification, Verification, Confirmable, SpeakerState

\* The counters of a control that was let go are those of a fresh one.
LEMMA FreshAttempt ==
    ASSUME tries' = 0, attempted' = FALSE
    PROVE  tries' \in 0..1 /\ attempted' \in BOOLEAN
<1>1. tries' \in 0..1
  OBVIOUS
<1>2. attempted' \in BOOLEAN
  OBVIOUS
<1> QED
  BY <1>1, <1>2

\* The worker's own state keeps its type; the attempts of a verification need
\* VerificationAnchored for it.
LEMMA WorkerTypesStep == Inductive /\ [Next]_vars => WorkerTypes'
<1> SUFFICES ASSUME Inductive, [Next]_vars PROVE WorkerTypes'
  OBVIOUS
<1> USE DEF attemptVars, pendingVars
<1>1. WorkerTypes /\ CallerTypes /\ SnapshotTypes /\ SurroundingTypes
  BY DEF Inductive, TypeOK
<1>2. NoVerification \in Verification
  BY RuntimeAssumption DEF NoVerification, Verification
<1>3. {"idle", "select", "resolve", "write", "backoff", "poll", "verify", "volume",
       "done"} \subseteq Places
  BY DEF Places, Exchanges
<1>4. CASE Poll
  BY <1>1, <1>4 DEF Poll, WorkerTypes
<1>5. CASE Coalesce \/ Accept \/ Refuse
  BY <1>1, <1>2, <1>5 DEF Coalesce, Accept, Supersede, Refuse, Call, WorkerTypes
<1>6. ASSUME NEW place \in Places, WorkerGoesTo(place) PROVE WorkerTypes'
  BY <1>1, <1>6 DEF WorkerGoesTo, WorkerTypes
<1>7. CASE Wake \/ Exit \/ BeginVerify \/ BeginPoll
  BY <1>3, <1>6, <1>7 DEF Wake, Exit, BeginVerify, BeginPoll
<1>8. CASE BeginResolve \/ BeginWrite
  BY <1>1, <1>3, <1>8, FreshAttempt DEF BeginResolve, BeginWrite, WorkerTypes
<1>9. CASE BeginMaintenance \/ Park
  BY <1>1, <1>3, <1>9 DEF BeginMaintenance, Park, WorkerTypes
<1>10. CASE StateReadOk
  <2>1. verify' \in Verification
    BY <1>1, <1>2, <1>10, NextVerificationType
       DEF StateReadOk, CompletesVerification, WorkerTypes
  <2>2. maintenance' \in BOOLEAN /\ wake' \in BOOLEAN
    BY <1>10 DEF StateReadOk
  <2> QED
    BY <1>1, <1>3, <1>10, <2>1, <2>2 DEF StateReadOk, WorkerTypes
<1>11. CASE StateReadFails
  BY <1>1, <1>3, <1>11, NextVerificationType DEF StateReadFails, WorkerTypes
<1>12. CASE MaintenanceOk \/ MaintenanceFails \/ ResolveOk
  BY <1>1, <1>3, <1>12
     DEF MaintenanceOk, MaintenanceFails, ResolveOk, LearnVolume, WorkerTypes
<1>13. ASSUME NEW written, GiveUp(written), pc \in {"write", "backoff"}
       PROVE  WorkerTypes'
  <2>1. verify' \in Verification
    BY <1>1, <1>13, CommandType, StartVerificationType DEF GiveUp, WorkerTypes
  <2> QED
    BY <1>1, <1>3, <1>13, <2>1, FreshAttempt DEF GiveUp, Fails, Release, WorkerTypes
<1>14. CASE ResolveFails
  BY <1>1, <1>3, <1>14, FreshAttempt DEF ResolveFails, Fails, Release, WorkerTypes
<1>15. CASE WriteOk
  <2>1. verify' \in Verification
    BY <1>1, <1>15, CommandType, StartVerificationType DEF WriteOk, WorkerTypes
  <2>2. maintenance' \in BOOLEAN
    BY <1>15 DEF WriteOk, MaintenanceAfterCommand
  <2> QED
    BY <1>1, <1>3, <1>15, <2>1, <2>2, FreshAttempt DEF WriteOk, Release, WorkerTypes
<1>16. CASE WriteRejected
  BY <1>1, <1>3, <1>16, FreshAttempt DEF WriteRejected, Release, WorkerTypes
<1>17. CASE WriteFails
  <2> PICK sent \in BOOLEAN, obeyed \in BOOLEAN :
           IF tries = 0
           THEN /\ attempted' = (attempted \/ sent)
                /\ pc' = "backoff"
                /\ UNCHANGED <<callerVars, queueVars, tries, pendingVars, verify,
                               volumeAge, snapshotVars, ages, closeVars>>
           ELSE GiveUp(attempted \/ sent)
    BY <1>17 DEF WriteFails
  <2>1. CASE tries = 0
    BY <1>1, <1>3, <2>1 DEF WorkerTypes
  <2>2. CASE tries # 0
    BY <1>13, <1>17, <2>2 DEF WriteFails
  <2> QED
    BY <2>1, <2>2
<1>18. CASE Retry
  BY <1>1, <1>3, <1>18 DEF Retry, WorkerTypes
<1>19. CASE StopRetrying
  BY <1>13, <1>19 DEF StopRetrying
<1>20. CASE VerificationElapses
  BY <1>1, <1>20 DEF VerificationElapses, WorkerTypes, Verification
<1>21. CASE VolumeAges
  BY <1>1, <1>21 DEF VolumeAges, WorkerTypes
<1>22. CASE BeginClose
  BY <1>1, <1>2, <1>22 DEF BeginClose, WorkerTypes
<1>23. CASE ForceWorker
  BY <1>1, <1>3, <1>23, FreshAttempt DEF ForceWorker, WorkerTypes
<1>24. CASE UNCHANGED <<pc, attemptVars, pendingVars, verify, volumeAge>>
  BY <1>1, <1>24 DEF WorkerTypes
<1> QED
  BY <1>4, <1>5, <1>7, <1>8, <1>9, <1>10, <1>11, <1>12, <1>14, <1>15, <1>16, <1>17,
     <1>18, <1>19, <1>20, <1>21, <1>22, <1>23, <1>24
     DEF Next, Caller, Worker, Choose, Finish, Environment, Closer, vars, GiveUpWaiting,
         TakeAbandoned, TakeExpired, TakeExpiring, DeadlinePasses, AnswersAge,
         SetSpeakerByHand, EndClose

\* The report on an executed control is one (_finish_control_error and the end of
\* _async_control).
LEMMA ReportType ==
    ASSUME NEW c \in Calls, job[c].kind \in ControlKind,
           NEW written \in BOOLEAN, NEW acked \in BOOLEAN
    PROVE  Completed(c, written, acked) \in CommandResult
BY DEF Completed, Accepted, CommandResult

\* So is the report on one that the speaker rejected.
LEMMA RejectionType ==
    ASSUME NEW c \in Calls, job[c].kind \in ControlKind
    PROVE  Rejected(c) \in CommandResult /\ Rejected(c).verified = None
BY DEF Rejected, Completed, Accepted, CommandResult

\* An answer leaves a health and ages that are well formed (_record_success).
LEMMA HearsType ==
    ASSUME SnapshotTypes, NEW carriesState \in BOOLEAN, Hears(carriesState)
    PROVE  health' \in Health /\ ages' \in Ages
BY AnswerHealth DEF Hears, SnapshotTypes

\* A verdict is recorded in the report of the last command, when there is one.
LEMMA VerdictType ==
    ASSUME SnapshotTypes, last # None, NEW verdict \in BOOLEAN
    PROVE  [last EXCEPT !.verified = verdict] \in CommandResult
BY DEF SnapshotTypes, CommandResult

\* What is published keeps its type: the optimistic state of a command needs
\* ControlsWellFormed for it.
LEMMA SnapshotTypesStep == Inductive /\ [Next]_vars => SnapshotTypes'
<1> SUFFICES ASSUME Inductive, [Next]_vars PROVE SnapshotTypes'
  OBVIOUS
<1> USE DEF snapshotVars
<1>1. SnapshotTypes /\ device \in DeviceState
  BY DEF Inductive, TypeOK, SurroundingTypes
<1>2. CASE Coalesce \/ Refuse
  BY <1>1, <1>2 DEF Coalesce, Refuse, Call, SnapshotTypes
<1>3. CASE Accept
  <2>1. last' \in CommandResult
    <3>1. made + 1 \in Calls /\ Kinds \subseteq ControlKind
      BY <1>3, RuntimeAssumption
         DEF Accept, Call, Inductive, TypeOK, CallerTypes, Calls
    <3> QED
      BY <1>3, <3>1 DEF Accept, Supersede, Accepted, CommandResult
  <2> QED
    BY <1>1, <1>3, <2>1 DEF Accept, Call, SnapshotTypes
<1>4. CASE TakeExpired \/ TakeExpiring
  <2>1. Taken \in Calls /\ job[Taken].kind \in ControlKind
    BY <1>4, AtHead DEF TakeExpired, TakeExpiring, Taking
  <2>2. last' \in CommandResult
    BY <1>4, <2>1, ReportType DEF TakeExpired, TakeExpiring
  <2> QED
    BY <1>1, <1>4, <2>2, FailureHealth DEF TakeExpired, TakeExpiring, SnapshotTypes
<1>5. ASSUME NEW w \in BOOLEAN, Fails(w), pc \in {"resolve", "write", "backoff"}
      PROVE  SnapshotTypes'
  <2>1. last' \in CommandResult
    BY <1>5, InHand, ReportType DEF Fails, Kind
  <2> QED
    BY <1>1, <1>5, <2>1, FailureHealth DEF Fails, SnapshotTypes
<1>6. CASE ResolveFails
  BY <1>5, <1>6 DEF ResolveFails
<1>7. CASE WriteFails
  <2> PICK sent \in BOOLEAN, obeyed \in BOOLEAN :
           IF tries = 0 THEN UNCHANGED snapshotVars /\ UNCHANGED ages
                        ELSE GiveUp(attempted \/ sent)
    BY <1>7 DEF WriteFails
  <2>1. CASE tries = 0
    BY <1>1, <2>1 DEF SnapshotTypes
  <2>2. CASE tries # 0
    <3>1. (attempted \/ sent) \in BOOLEAN
      OBVIOUS
    <3> QED
      BY <1>5, <1>7, <2>2, <3>1 DEF WriteFails, GiveUp
  <2> QED
    BY <2>1, <2>2
<1>8. CASE StopRetrying
  <2>1. attempted \in BOOLEAN
    BY DEF Inductive, TypeOK, WorkerTypes
  <2> QED
    BY <1>5, <1>8, <2>1 DEF StopRetrying, GiveUp
<1>9. CASE WriteOk
  <2>1. speaker' \in SpeakerState
    BY <1>9, CommandType DEF WriteOk
  <2>2. last' \in CommandResult
    BY <1>9, InHand, ReportType DEF WriteOk, Kind
  <2> QED
    BY <1>1, <1>9, <2>1, <2>2, HearsType DEF WriteOk, SnapshotTypes
<1>10. CASE WriteRejected
  <2>1. last' \in CommandResult
    BY <1>10, InHand, RejectionType DEF WriteRejected, Kind
  <2> QED
    BY <1>1, <1>10, <2>1, HearsType DEF WriteRejected, SnapshotTypes
<1>11. CASE MaintenanceOk \/ ResolveOk
  <2>1. speaker' \in SpeakerState
    BY <1>1, <1>11
       DEF MaintenanceOk, ResolveOk, LearnVolume, SnapshotTypes, SpeakerState, DeviceState
  <2> QED
    BY <1>1, <1>11, <2>1, HearsType DEF MaintenanceOk, ResolveOk, LearnVolume, SnapshotTypes
<1>12. CASE MaintenanceFails
  BY <1>1, <1>12, FailureHealth DEF MaintenanceFails, SnapshotTypes
<1>13. CASE StateReadOk
  <2>1. speaker' \in SpeakerState
    BY <1>1, <1>13 DEF StateReadOk, SnapshotTypes, SpeakerState, DeviceState
  <2>2. ages' \in Ages /\ RecordSuccess(health, ages') \in Health
    BY <1>1, <1>13, AnswerHealth DEF StateReadOk, SnapshotTypes
  <2>3. [RecordSuccess(health, ages') EXCEPT !.degraded = TRUE] \in Health
    BY <2>2 DEF Health
  <2>4. health' \in Health
    BY <1>13, <2>2, <2>3 DEF StateReadOk
  <2>5. last' \in CommandResult \cup {None}
    <3>1. CASE ~CompletesVerification
      BY <1>1, <1>13, <3>1 DEF StateReadOk, SnapshotTypes
    <3>2. CASE CompletesVerification
      BY <1>1, <1>13, <3>2, VerdictType
         DEF StateReadOk, CompletesVerification, LastUnverified, SnapshotTypes
    <3> QED
      BY <3>1, <3>2
  <2> QED
    BY <2>1, <2>2, <2>4, <2>5 DEF SnapshotTypes
<1>14. CASE StateReadFails
  <2>1. health' \in Health
    BY <1>1, <1>14, FailureHealth DEF StateReadFails, SnapshotTypes
  <2>2. last' \in CommandResult \cup {None}
    BY <1>1, <1>14, VerdictType DEF StateReadFails, LastUnverified, SnapshotTypes
  <2> QED
    BY <1>1, <1>14, <2>1, <2>2 DEF StateReadFails, SnapshotTypes
<1>15. CASE AnswersAge
  BY <1>1, <1>15 DEF AnswersAge, SnapshotTypes, Ages
<1>16. CASE UNCHANGED <<snapshotVars, ages>>
  BY <1>1, <1>16 DEF SnapshotTypes
<1> QED
  BY <1>2, <1>3, <1>4, <1>6, <1>7, <1>8, <1>9, <1>10, <1>11, <1>12, <1>13, <1>14,
     <1>15, <1>16
     DEF Next, Caller, Worker, Choose, Finish, Environment, Closer, vars, Poll,
         GiveUpWaiting, WorkerGoesTo, Wake, Exit, TakeAbandoned, BeginResolve, BeginWrite,
         BeginVerify, BeginPoll, BeginMaintenance, Park, Retry, DeadlinePasses,
         VerificationElapses, VolumeAges, SetSpeakerByHand, BeginClose, ForceWorker,
         EndClose

\* The speaker stays in one of its states: what a command writes needs
\* ControlsWellFormed for it.
LEMMA SurroundingTypesStep == Inductive /\ [Next]_vars => SurroundingTypes'
<1> SUFFICES ASSUME Inductive, [Next]_vars PROVE SurroundingTypes'
  OBVIOUS
<1> USE DEF closeVars
<1>1. SurroundingTypes
  BY DEF Inductive, TypeOK
<1>2. CASE WriteOk
  BY <1>1, <1>2, CommandType DEF WriteOk, SurroundingTypes
<1>3. CASE WriteFails
  <2>1. device' \in DeviceState
    BY <1>1, <1>3, CommandType DEF WriteFails, SurroundingTypes
  <2>2. UNCHANGED closeVars
    BY <1>3 DEF WriteFails, GiveUp, Fails
  <2> QED
    BY <1>1, <2>1, <2>2 DEF SurroundingTypes
<1>4. CASE SetSpeakerByHand
  BY <1>1, <1>4, RuntimeAssumption DEF SetSpeakerByHand, SurroundingTypes
<1>5. CASE BeginClose
  BY <1>1, <1>5 DEF BeginClose, SurroundingTypes
<1>6. CASE ForceWorker
  BY <1>1, <1>6, CommandType DEF ForceWorker, SurroundingTypes
<1>7. CASE EndClose
  BY <1>1, <1>7 DEF EndClose, SurroundingTypes
<1>8. CASE UNCHANGED <<closeVars, device>>
  BY <1>1, <1>8 DEF SurroundingTypes
<1> QED
  BY <1>2, <1>3, <1>4, <1>5, <1>6, <1>7, <1>8
     DEF Next, Caller, Worker, Choose, Finish, Environment, Closer, vars, Poll, Coalesce,
         Accept, Refuse, Call, GiveUpWaiting, WorkerGoesTo, Wake, Exit, TakeAbandoned,
         TakeExpired, TakeExpiring, BeginResolve, BeginWrite, BeginVerify, BeginPoll,
         BeginMaintenance, Park, StateReadOk, StateReadFails, MaintenanceOk,
         MaintenanceFails, ResolveOk, ResolveFails, WriteRejected, Retry, StopRetrying,
         GiveUp, Fails, DeadlinePasses, VerificationElapses, AnswersAge, VolumeAges

-----------------------------------------------------------------------------
(* The queue, and the control in hand *)

QueueInv == QueueTypes /\ ActiveWhileExecuting /\ ControlsWellFormed /\ AcceptanceOrder

Executing == {"resolve", "write", "backoff"}

\* What every step but the acceptance of a new control does to the queue: nobody
\* joins, the order is kept, and what a control asks for changes in two ways only,
\* to another valid volume or to the input a power command names.
LEMMA QueueMove ==
    ASSUME Inductive,
           controls' \in Seq(Calls), Sorted(controls'),
           active' \in Calls \cup {None}, late' \subseteq Calls,
           job' \in [Calls -> Control],
           made' \in Int, made <= made',
           active' # None <=> pc' \in Executing,
           active' # None => \A c \in Range(controls') : active' < c,
           InPlay' \subseteq InPlay,
           \A c \in InPlay' :
               /\ job'[c].kind = job[c].kind
               /\ \/ job'[c].value = job[c].value
                  \/ job[c].kind \in PowerKinds
                  \/ job[c].kind = "set_volume" /\ job'[c].value \in Volumes,
           \A c \in InPlay' :
               job[c].kind \in PowerKinds /\ c = active' /\ pc' \in {"write", "backoff"}
               => job'[c].value \in Sources
    PROVE  QueueInv'
<1>1. QueueTypes'
  BY DEF QueueTypes
<1>2. ActiveWhileExecuting'
  BY DEF ActiveWhileExecuting, Executing
<1>3. AcceptanceOrder'
  BY DEF AcceptanceOrder, Queued
<1>4. ControlsWellFormed'
  <2> SUFFICES ASSUME NEW c \in InPlay'
               PROVE  /\ c <= made' /\ job'[c].kind \in ControlKind
                      /\ job'[c].kind = "set_volume" => job'[c].value \in Volumes
                      /\ \/ job'[c].kind = "select_source"
                         \/ job'[c].kind \in PowerKinds /\ c = active'
                            /\ pc' \in {"write", "backoff"}
                         => job'[c].value \in Sources
    BY DEF ControlsWellFormed
  <2>1. /\ c \in InPlay /\ c <= made /\ job[c].kind \in ControlKind
        /\ job[c].kind = "set_volume" => job[c].value \in Volumes
        /\ job[c].kind = "select_source" => job[c].value \in Sources
    BY DEF Inductive, ControlsWellFormed
  <2>2. c \in Int /\ made \in Int
    <3>1. controls \in Seq(Calls) /\ active \in Calls \cup {None} /\ made \in Int
      BY RuntimeAssumption DEF Inductive, TypeOK, QueueTypes, CallerTypes
    <3>2. Range(controls) \subseteq Calls
      BY <3>1 DEF Range
    <3> QED
      BY <2>1, <3>1, <3>2 DEF InPlay, Queued, Calls
  <2>3. c <= made'
    BY <2>1, <2>2
  <2> QED
    BY <2>1, <2>3 DEF PowerKinds
<1> QED
  BY <1>1, <1>2, <1>3, <1>4 DEF QueueInv

\* A step that leaves the queue and the control in hand alone, and does not start
\* or end the execution of a control.
LEMMA QueueKept ==
    ASSUME Inductive, UNCHANGED <<controls, job, active>>, late' \subseteq Calls,
           made' \in Int, made <= made',
           pc' \in Executing <=> pc \in Executing,
           pc' \in {"write", "backoff"} => pc \in {"write", "backoff"}
    PROVE  QueueInv'
<1>1. QueueInv
  BY DEF QueueInv, Inductive, TypeOK
<1>2. InPlay' = InPlay /\ Queued' = Queued
  BY DEF InPlay, Queued
<1>3. active' # None <=> pc' \in Executing
  BY <1>1 DEF QueueInv, ActiveWhileExecuting, Executing
<1>4. \A c \in InPlay' :
          job[c].kind \in PowerKinds /\ c = active' /\ pc' \in {"write", "backoff"}
          => job'[c].value \in Sources
  BY <1>1, <1>2 DEF QueueInv, ControlsWellFormed
<1> QED
  BY <1>1, <1>2, <1>3, <1>4, QueueMove
     DEF QueueInv, QueueTypes, AcceptanceOrder, Queued

\* The control at the head is forgotten, without being tried.
LEMMA QueueDrop ==
    ASSUME Inductive, Taking, Drop, UNCHANGED <<made, active, pc>>
    PROVE  QueueInv'
<1>1. /\ QueueTypes /\ made \in Int /\ active = None /\ pc = "select"
      /\ NoControl \in Control
  BY RuntimeAssumption DEF Inductive, TypeOK, QueueTypes, CallerTypes, Taking,
         ActiveWhileExecuting, NoControl, Control
<1>2. /\ Tail(controls) \in Seq(Calls) /\ Sorted(Tail(controls))
      /\ Range(Tail(controls)) \subseteq Queued
      /\ \A c \in Range(Tail(controls)) : Taken < c
      /\ Taken \in Calls
  BY AtHead DEF Taking
<1>3. InPlay' = Range(Tail(controls)) /\ InPlay' \subseteq InPlay /\ InPlay' \subseteq Calls
  BY <1>1, <1>2 DEF Drop, InPlay, Queued, QueueTypes, Range
<1>4. \A c \in InPlay' : job'[c] = job[c]
  BY <1>1, <1>2, <1>3 DEF Drop, QueueTypes, Calls
<1>5. job' \in [Calls -> Control] /\ late' \subseteq Calls
  BY <1>1 DEF Drop, QueueTypes
<1> QED
  BY <1>1, <1>2, <1>3, <1>4, <1>5, QueueMove DEF Drop, Executing

\* The control at the head is taken in hand.
LEMMA QueueTake ==
    ASSUME Inductive, Taking, controls' = Tail(controls), active' = Taken,
           UNCHANGED <<made, late>>, pc' \in Executing,
           \/ job' = job /\ pc' = "resolve"
           \/ job' = Resolved(Taken)
    PROVE  QueueInv'
<1>1. /\ QueueTypes /\ made \in Int /\ speaker \in SpeakerState
  BY RuntimeAssumption DEF Inductive, TypeOK, QueueTypes, CallerTypes, SnapshotTypes
<1>2. /\ Tail(controls) \in Seq(Calls) /\ Sorted(Tail(controls))
      /\ Range(Tail(controls)) \subseteq Queued
      /\ \A c \in Range(Tail(controls)) : Taken < c
      /\ Taken \in Calls /\ Taken # None /\ Taken \in InPlay
      /\ job[Taken] \in Control /\ job[Taken].kind \in ControlKind
  BY AtHead DEF Taking
<1>3. InPlay' \subseteq InPlay
  BY <1>1, <1>2 DEF InPlay, Queued
<1>4. /\ job' \in [Calls -> Control]
      /\ \A c \in Calls :
             /\ job'[c].kind = job[c].kind
             /\ job'[c].value = job[c].value \/ job[c].kind \in PowerKinds
      /\ pc' # "resolve" /\ job[Taken].kind \in PowerKinds => job'[Taken].value \in Sources
  <2>1. CASE job' = job /\ pc' = "resolve"
    BY <1>1, <2>1 DEF QueueTypes
  <2>2. CASE job' = Resolved(Taken)
    <3> DEFINE value == ResolvedValue(job[Taken].kind, job[Taken].value, speaker)
    <3>1. /\ job[Taken].kind \in PowerKinds => value \in Sources
          /\ job[Taken].kind \notin PowerKinds => value = job[Taken].value
      BY <1>1, SourceForPowerType DEF ResolvedValue
    <3>2. value \in Sources \cup Volumes \cup {None}
      BY <1>2, <3>1 DEF Control
    <3>3. job' = [job EXCEPT ![Taken].value = value]
      BY <2>2 DEF Resolved
    <3> HIDE DEF value
    <3>4. job' = [job EXCEPT ![Taken] = [job[Taken] EXCEPT !.value = value]]
      BY <3>3
    <3>5. [job[Taken] EXCEPT !.value = value] \in Control
      BY <1>2, <3>2 DEF Control
    <3>6. \A c \in Calls : job[c] \in Control
      BY <1>1 DEF QueueTypes
    <3>7. job' \in [Calls -> Control]
      BY <1>1, <3>4, <3>5 DEF QueueTypes
    <3>8. job'[Taken] = [job[Taken] EXCEPT !.value = value]
      BY <1>1, <1>2, <3>4 DEF QueueTypes
    <3>9. job'[Taken].kind = job[Taken].kind /\ job'[Taken].value = value
      BY <1>2, <3>8 DEF Control
    <3>10. \A c \in Calls : c # Taken => job'[c] = job[c]
      BY <1>1, <3>4 DEF QueueTypes
    <3> QED
      BY <3>1, <3>7, <3>9, <3>10
  <2> QED
    BY <2>1, <2>2
<1>5. InPlay' \subseteq Calls
  BY <1>2 DEF InPlay, Queued, Range
<1> QED
  BY <1>1, <1>2, <1>3, <1>4, <1>5, QueueMove DEF QueueTypes

\* The control in hand is done with: those queued are what remains.
LEMMA QueueRelease ==
    ASSUME Inductive, pc \in Executing, UNCHANGED <<made, controls>>,
           active' = None, late' = late \ {active}, pc' \notin Executing,
           job' \in [Calls -> Control],
           \A c \in Calls : c # active => job'[c] = job[c]
    PROVE  QueueInv'
<1>1. QueueTypes /\ made \in Int /\ Sorted(controls) /\ active \notin Queued
  BY RuntimeAssumption, InHand
     DEF Inductive, TypeOK, QueueTypes, CallerTypes, AcceptanceOrder, Executing
<1>2. InPlay' = Queued /\ InPlay' \subseteq InPlay /\ InPlay' \subseteq Calls
  BY <1>1 DEF InPlay, Queued, QueueTypes, Range
<1>3. \A c \in InPlay' : job'[c] = job[c]
  BY <1>1, <1>2
<1> QED
  BY <1>1, <1>2, <1>3, QueueMove DEF QueueTypes, Executing

\* The control in hand goes back to the head, as it is.
LEMMA QueueRequeue ==
    ASSUME Inductive, pc = "resolve", controls' = Requeued, active' = None,
           UNCHANGED <<made, job, late>>, pc' \notin Executing
    PROVE  QueueInv'
<1>1. QueueTypes /\ made \in Int
  BY RuntimeAssumption DEF Inductive, TypeOK, QueueTypes, CallerTypes
<1>2. /\ controls' \in Seq(Calls) /\ Sorted(controls')
      /\ Range(controls') = Queued \cup {active}
  <2>1. controls \in Seq(Calls) /\ Sorted(controls) /\ Calls \in SUBSET Int
    BY <1>1 DEF QueueTypes, Inductive, AcceptanceOrder, Calls
  <2>2. active \in Calls /\ \A c \in Range(controls) : active < c
    BY InHand DEF Inductive, AcceptanceOrder, Queued
  <2> QED
    BY <2>1, <2>2, RequeueSorted DEF Requeued, Queued
<1>3. InPlay' \subseteq InPlay
  BY <1>2, InHand DEF InPlay, Queued
<1> QED
  BY <1>1, <1>2, <1>3, QueueMove DEF QueueTypes, Executing

\* The control in hand is tried again, naming an input again.
LEMMA QueueRetry ==
    ASSUME Inductive, Retry
    PROVE  QueueInv'
<1>1. /\ QueueTypes /\ made \in Int /\ speaker \in SpeakerState /\ QueueInv
  BY RuntimeAssumption
     DEF Inductive, TypeOK, QueueTypes, CallerTypes, SnapshotTypes, QueueInv
<1>2. active \in Calls /\ job[active] \in Control
  BY InHand DEF Retry
<1>3. InPlay' = InPlay /\ InPlay \subseteq Calls
  BY <1>1, <1>2 DEF Retry, InPlay, Queued, Range, QueueTypes
<1> DEFINE value == ResolvedValue(job[active].kind, job[active].value, speaker)
<1>4. /\ job[active].kind \in PowerKinds => value \in Sources
      /\ job[active].kind \notin PowerKinds => value = job[active].value
  BY <1>1, SourceForPowerType DEF ResolvedValue
<1>5. value \in Sources \cup Volumes \cup {None}
  BY <1>2, <1>4 DEF Control
<1>6. job' = [job EXCEPT ![active].value = value]
  BY DEF Retry, Resolved
<1> HIDE DEF value
<1>7. job' = [job EXCEPT ![active] = [job[active] EXCEPT !.value = value]]
  BY <1>6
<1>8. [job[active] EXCEPT !.value = value] \in Control
  BY <1>2, <1>5 DEF Control
<1>9. /\ job' \in [Calls -> Control]
      /\ job'[active] = [job[active] EXCEPT !.value = value]
      /\ \A c \in Calls : c # active => job'[c] = job[c]
  BY <1>1, <1>2, <1>7, <1>8 DEF QueueTypes
<1>10. job'[active].kind = job[active].kind /\ job'[active].value = value
  BY <1>2, <1>9 DEF Control
<1>11. \A c \in InPlay' :
          /\ job'[c].kind = job[c].kind
          /\ job'[c].value = job[c].value \/ job[c].kind \in PowerKinds
          /\ job[c].kind \in PowerKinds /\ c = active' => job'[c].value \in Sources
  BY <1>3, <1>4, <1>9, <1>10 DEF Retry
<1>12. active' # None <=> pc' \in Executing
  BY <1>1 DEF Retry, QueueInv, ActiveWhileExecuting, Executing
<1>13. controls' \in Seq(Calls) /\ Sorted(controls')
       /\ (active' # None => \A c \in Range(controls') : active' < c)
       /\ active' \in Calls \cup {None} /\ late' \subseteq Calls
       /\ made' \in Int /\ made <= made'
  BY <1>1 DEF Retry, callerVars, QueueInv, QueueTypes, AcceptanceOrder, Queued
<1> QED
  BY <1>3, <1>9, <1>11, <1>12, <1>13, QueueMove

\* The queue is emptied; the control in hand stays there.
LEMMA QueueClose ==
    ASSUME Inductive, BeginClose
    PROVE  QueueInv'
<1>1. /\ QueueTypes /\ made \in Int /\ QueueInv /\ NoControl \in Control
  BY RuntimeAssumption
     DEF Inductive, TypeOK, QueueTypes, CallerTypes, QueueInv, NoControl, Control
<1>2. controls' \in Seq(Calls) /\ Sorted(controls') /\ Range(controls') = {}
  BY DEF BeginClose, Sorted, Range
<1>3. InPlay' = {active} \ {None} /\ InPlay' \subseteq InPlay /\ InPlay' \subseteq Calls
  BY <1>1, <1>2 DEF BeginClose, InPlay, Queued, QueueTypes
<1>4. job' \in [Calls -> Control] /\ \A c \in InPlay' : job'[c] = job[c]
  BY <1>1, <1>3 DEF BeginClose, QueueTypes
<1>5. active' # None <=> pc' \in Executing
  BY <1>1 DEF BeginClose, QueueInv, ActiveWhileExecuting, Executing
<1>6. \A c \in InPlay' :
          job[c].kind \in PowerKinds /\ c = active' /\ pc' \in {"write", "backoff"}
          => job'[c].value \in Sources
  BY <1>1, <1>3, <1>4 DEF BeginClose, QueueInv, ControlsWellFormed
<1>7. active' \in Calls \cup {None} /\ late' \subseteq Calls
      /\ made' \in Int /\ made <= made'
  BY <1>1 DEF BeginClose, QueueTypes
<1> QED
  BY <1>2, <1>3, <1>4, <1>5, <1>6, <1>7, QueueMove

\* Another caller joins the control at the tail with another volume.
LEMMA QueueCoalesce ==
    ASSUME Inductive, Coalesce
    PROVE  QueueInv'
<1>1. /\ QueueTypes /\ made \in 0..NumCalls /\ QueueInv /\ made + 1 \in Calls
  BY RuntimeAssumption
     DEF Inductive, TypeOK, QueueTypes, CallerTypes, QueueInv, Coalesce, Call, Calls
<1> DEFINE t == controls[Len(controls)]
<1>2. t \in Calls /\ job[t] \in Control /\ job[t].kind = "set_volume"
  BY <1>1 DEF QueueTypes, Coalesce, Coalesces
<1>3. PICK value \in Targets("set_volume") :
          job' = [job EXCEPT ![t].value = value,
                             ![t].waiters = @ \cup {made + 1}]
  BY DEF Coalesce
<1>4. value \in Volumes
  BY TargetsType DEF ControlKind
<1> HIDE DEF t
<1> DEFINE joined == [job[t] EXCEPT !.value = value, !.waiters = @ \cup {made + 1}]
<1>5. joined \in Control /\ joined.kind = "set_volume" /\ joined.value = value
  BY <1>1, <1>2, <1>4 DEF Control
<1>6. job' = [job EXCEPT ![t] = joined]
  BY <1>1, <1>2, <1>3 DEF QueueTypes
<1> HIDE DEF joined
<1>7. /\ job' \in [Calls -> Control] /\ job'[t] = joined
      /\ \A c \in Calls : c # t => job'[c] = job[c]
  BY <1>1, <1>2, <1>5, <1>6 DEF QueueTypes
<1>8. InPlay' = InPlay /\ InPlay \subseteq Calls
  BY <1>1 DEF Coalesce, Call, InPlay, Queued, QueueTypes, Range
<1>9. \A c \in InPlay' :
          /\ job'[c].kind = job[c].kind
          /\ \/ job'[c].value = job[c].value
             \/ job[c].kind = "set_volume" /\ job'[c].value \in Volumes
  BY <1>2, <1>4, <1>5, <1>7, <1>8
<1>10. \A c \in InPlay' :
          job[c].kind \in PowerKinds /\ c = active' /\ pc' \in {"write", "backoff"}
          => job'[c].value \in Sources
  BY <1>1, <1>2, <1>7, <1>8
     DEF Coalesce, Call, QueueInv, ControlsWellFormed, PowerKinds
<1>11. active' # None <=> pc' \in Executing
  BY <1>1 DEF Coalesce, Call, QueueInv, ActiveWhileExecuting, Executing
<1>12. /\ controls' \in Seq(Calls) /\ Sorted(controls')
       /\ active' # None => \A c \in Range(controls') : active' < c
       /\ active' \in Calls \cup {None} /\ late' \subseteq Calls
       /\ made' \in Int /\ made <= made'
  BY <1>1 DEF Coalesce, Call, QueueInv, QueueTypes, AcceptanceOrder, Queued
<1> QED
  BY <1>7, <1>8, <1>9, <1>10, <1>11, <1>12, QueueMove

\* A new control, younger than all others, joins the queue.
LEMMA QueueAccept ==
    ASSUME Inductive, Accept
    PROVE  QueueInv'
<1> DEFINE c == made + 1
<1>1. /\ QueueTypes /\ QueueInv /\ made \in Int /\ c \in Calls
  BY RuntimeAssumption
     DEF Inductive, TypeOK, QueueTypes, CallerTypes, QueueInv, Accept, Call, Calls
<1> PICK kind \in Kinds : \E value \in Targets(kind) :
        job' = [job EXCEPT ![c] = [kind |-> kind, value |-> value, waiters |-> {c}]]
  BY DEF Accept
<1>2. PICK value \in Targets(kind) :
          job' = [job EXCEPT ![c] = [kind |-> kind, value |-> value, waiters |-> {c}]]
  OBVIOUS
<1>3. /\ kind \in ControlKind /\ value \in Sources \cup Volumes \cup {None}
      /\ kind = "set_volume" => value \in Volumes
      /\ kind = "select_source" => value \in Sources
  <2>1. kind \in ControlKind
    BY RuntimeAssumption
  <2> QED
    BY <2>1, TargetsType
<1>4. \A d \in InPlay : d \in Calls /\ d <= made /\ d < c /\ d # c
  <2> SUFFICES ASSUME NEW d \in InPlay PROVE d \in Calls /\ d <= made /\ d < c /\ d # c
    OBVIOUS
  <2>1. Range(controls) \subseteq Calls /\ active \in Calls \cup {None}
    BY <1>1 DEF QueueTypes, Range
  <2>2. d \in Calls /\ d <= made
    BY <1>1, <2>1 DEF QueueInv, ControlsWellFormed, InPlay, Queued
  <2> QED
    BY <1>1, <2>2 DEF Calls
<1>5. Queued \subseteq InPlay /\ (active # None => active \in InPlay)
  BY DEF InPlay
<1>6. /\ controls' = Append(controls, c) /\ active' = active /\ pc' = pc
      /\ late' = late /\ made' = c
  BY DEF Accept, Call
<1> HIDE DEF c
<1>7. /\ controls' \in Seq(Calls) /\ Sorted(controls')
      /\ Range(controls') = Queued \cup {c}
  <2>1. /\ controls \in Seq(Calls) /\ Sorted(controls) /\ Calls \in SUBSET Int
        /\ \A d \in Range(controls) : d < c
    BY <1>1, <1>4, <1>5 DEF QueueInv, QueueTypes, AcceptanceOrder, Calls, Queued
  <2> QED
    BY <1>1, <1>6, <2>1, AppendSorted DEF Queued
<1>8. /\ job' \in [Calls -> Control]
      /\ job'[c].kind = kind /\ job'[c].value = value
      /\ \A d \in Calls : d # c => job'[d] = job[d]
  BY <1>1, <1>2, <1>3 DEF QueueTypes, Control
<1>9. InPlay' = InPlay \cup {c}
  BY <1>1, <1>6, <1>7, NoneAssumption DEF InPlay, Queued, Calls
<1>10. QueueTypes'
  BY <1>1, <1>6, <1>7, <1>8 DEF QueueTypes
<1>11. ActiveWhileExecuting'
  BY <1>1, <1>6 DEF QueueInv, ActiveWhileExecuting
<1>12. AcceptanceOrder'
  <2>1. active' # None => \A d \in Queued : active' < d
    BY <1>1, <1>6 DEF QueueInv, AcceptanceOrder
  <2>2. active' # None => active' < c
    BY <1>4, <1>5, <1>6
  <2> QED
    BY <1>7, <2>1, <2>2 DEF AcceptanceOrder, Queued
<1>13. ControlsWellFormed'
  <2> SUFFICES ASSUME NEW d \in InPlay'
               PROVE  /\ d <= made' /\ job'[d].kind \in ControlKind
                      /\ job'[d].kind = "set_volume" => job'[d].value \in Volumes
                      /\ \/ job'[d].kind = "select_source"
                         \/ job'[d].kind \in PowerKinds /\ d = active'
                            /\ pc' \in {"write", "backoff"}
                         => job'[d].value \in Sources
    BY DEF ControlsWellFormed
  <2>1. CASE d = c
    <3>1. c <= made'
      BY <1>1, <1>6 DEF Calls
    <3>2. d # active'
      BY <1>4, <1>5, <1>6, <1>1, <2>1, NoneAssumption DEF Calls
    <3> QED
      BY <1>3, <1>8, <2>1, <3>1, <3>2 DEF PowerKinds
  <2>2. CASE d \in InPlay
    <3>1. d <= made' /\ job'[d] = job[d]
      BY <1>1, <1>4, <1>6, <1>8, <2>2 DEF Calls
    <3> QED
      BY <1>1, <1>6, <2>2, <3>1 DEF QueueInv, ControlsWellFormed
  <2> QED
    BY <1>9, <2>1, <2>2
<1> QED
  BY <1>10, <1>11, <1>12, <1>13 DEF QueueInv

\* Every step keeps the queue in order and what it holds well formed.
LEMMA QueueStep == Inductive /\ [Next]_vars => QueueInv'
<1> SUFFICES ASSUME Inductive, [Next]_vars PROVE QueueInv'
  OBVIOUS
<1> USE DEF queueVars, callerVars
<1>1. /\ QueueTypes /\ CallerTypes /\ WorkerTypes /\ QueueInv /\ made \in Int
      /\ NoControl \in Control
  BY RuntimeAssumption DEF Inductive, TypeOK, CallerTypes, QueueInv, NoControl, Control
<1>2. CASE UNCHANGED <<controls, job, active, pc>> /\ late' \subseteq Calls
           /\ made' \in Int /\ made <= made'
  BY <1>2, QueueKept
<1>3. CASE Poll \/ Refuse \/ GiveUpWaiting \/ VerificationElapses \/ AnswersAge
           \/ VolumeAges \/ SetSpeakerByHand \/ EndClose \/ DeadlinePasses
  <2>1. UNCHANGED <<controls, job, active, pc>>
    BY <1>3 DEF Poll, Refuse, Call, GiveUpWaiting, VerificationElapses, AnswersAge,
           VolumeAges, SetSpeakerByHand, EndClose, DeadlinePasses
  <2>2. late' \subseteq Calls
    BY <1>1, <1>3 DEF Poll, Refuse, Call, GiveUpWaiting, VerificationElapses, AnswersAge,
           VolumeAges, SetSpeakerByHand, EndClose, DeadlinePasses, InPlay, Queued, Range,
           QueueTypes
  <2>3. made' \in Int /\ made <= made'
    BY <1>1, <1>3 DEF Poll, Refuse, Call, GiveUpWaiting, VerificationElapses, AnswersAge,
           VolumeAges, SetSpeakerByHand, EndClose, DeadlinePasses
  <2> QED
    BY <1>2, <2>1, <2>2, <2>3
<1>4. CASE Coalesce
  BY <1>4, QueueCoalesce
<1>5. CASE Accept
  BY <1>5, QueueAccept
<1>6. CASE UNCHANGED <<queueVars, made>> /\ pc \notin Executing /\ pc' \notin Executing
  BY <1>1, <1>6, QueueKept DEF QueueTypes, Executing
<1>7. CASE Wake \/ Exit \/ BeginVerify \/ BeginPoll
  BY <1>6, <1>7
     DEF Wake, Exit, BeginVerify, BeginPoll, NoControls, WorkerGoesTo, Executing
<1>8. CASE BeginMaintenance \/ Park
  BY <1>6, <1>8 DEF BeginMaintenance, Park, NoControls, Executing
<1>9. CASE StateReadOk \/ StateReadFails \/ MaintenanceOk \/ MaintenanceFails
  BY <1>6, <1>9
     DEF StateReadOk, StateReadFails, MaintenanceOk, MaintenanceFails, Executing
<1>10. CASE TakeAbandoned \/ TakeExpired \/ TakeExpiring
  BY <1>10, QueueDrop DEF TakeAbandoned, TakeExpired, TakeExpiring
<1>11. CASE BeginResolve \/ BeginWrite
  BY <1>11, QueueTake DEF BeginResolve, BeginWrite, Executing
<1>12. CASE ResolveOk
  BY <1>12, QueueRequeue DEF ResolveOk, Executing
<1>13. ASSUME Release, UNCHANGED <<made, controls>>, pc \in Executing
       PROVE  QueueInv'
  <2>1. job' \in [Calls -> Control] /\ \A c \in Calls : c # active => job'[c] = job[c]
    BY <1>1, <1>13 DEF Release, QueueTypes
  <2> QED
    BY <1>13, <2>1, QueueRelease DEF Release, Executing
<1>14. CASE ResolveFails \/ WriteOk \/ WriteRejected \/ StopRetrying
  BY <1>13, <1>14
     DEF ResolveFails, WriteOk, WriteRejected, StopRetrying, GiveUp, Fails, Executing
<1>15. CASE WriteFails
  <2>1. CASE tries = 0
    <3>1. UNCHANGED <<queueVars, made>> /\ pc = "write" /\ pc' = "backoff"
      BY <1>15, <2>1 DEF WriteFails
    <3> QED
      BY <1>1, <3>1, QueueKept DEF QueueTypes, Executing
  <2>2. CASE tries # 0
    BY <1>13, <1>15, <2>2 DEF WriteFails, GiveUp, Fails, Executing
  <2> QED
    BY <2>1, <2>2
<1>16. CASE Retry
  BY <1>16, QueueRetry
<1>17. CASE BeginClose
  BY <1>17, QueueClose
<1>18. CASE ForceWorker
  <2>1. /\ job' \in [Calls -> Control] /\ \A c \in Calls : c # active => job'[c] = job[c]
        /\ pc' \notin Executing /\ UNCHANGED <<made, controls>>
        /\ active' = None /\ late' = late \ {active}
    BY <1>1, <1>18 DEF ForceWorker, QueueTypes, Executing
  <2>2. CASE pc \in Executing
    BY <2>1, <2>2, QueueRelease
  <2>3. CASE pc \notin Executing
    <3>1. active = None
      BY <1>1, <2>3 DEF QueueInv, ActiveWhileExecuting, Executing
    <3>2. None \notin Calls
      BY NoneAssumption DEF Calls
    <3>3. job' = job /\ late' \subseteq Calls
      BY <1>1, <2>1, <3>1, <3>2 DEF QueueTypes
    <3> QED
      BY <1>1, <2>1, <2>3, <3>1, <3>3, QueueKept DEF Executing
  <2> QED
    BY <2>2, <2>3
<1>19. CASE UNCHANGED vars
  BY <1>1, <1>2, <1>19 DEF vars, QueueTypes
<1> QED
  BY <1>3, <1>4, <1>5, <1>7, <1>8, <1>9, <1>10, <1>11, <1>12, <1>14, <1>15, <1>16,
     <1>17, <1>18, <1>19
     DEF Next, Caller, Worker, Choose, Finish, Environment, Closer

-----------------------------------------------------------------------------
(* Verification, and the inductive invariant *)

\* A report that was just made is an unverified one.
LEMMA NewReport ==
    ASSUME NEW c \in Calls, job[c].kind \in ControlKind,
           NEW written \in BOOLEAN, NEW acked \in BOOLEAN
    PROVE  /\ Completed(c, written, acked) # None
           /\ Completed(c, written, acked).verified = None
<1>1. Completed(c, written, acked).verified = None
  BY DEF Completed, Accepted
<1> QED
  BY <1>1, ReportType, ReportAssumption

\* Every step keeps a plan anchored: it is started with the report of its command,
\* cleared when the next one is accepted, and ended with a verdict.
LEMMA VerificationStep == Inductive /\ [Next]_vars => VerificationAnchored'
<1> SUFFICES ASSUME Inductive, [Next]_vars PROVE VerificationAnchored'
  OBVIOUS
<1> USE DEF snapshotVars
<1>1. /\ VerificationAnchored /\ WorkerTypes /\ SnapshotTypes
      /\ VerifyAttempts \in Nat \ {0} /\ NoVerification.due = "none"
      /\ NoVerification.attempt = -1
  BY RuntimeAssumption DEF Inductive, TypeOK, NoVerification
<1>2. ASSUME UNCHANGED <<verify, last>>, pc' = "verify" => pc = "verify" \/ verify.due # "none"
      PROVE  VerificationAnchored'
  BY <1>1, <1>2 DEF VerificationAnchored
<1>3. ASSUME UNCHANGED verify, pc' # "verify", last' # None, last'.verified = None
      PROVE  VerificationAnchored'
  BY <1>1, <1>3 DEF VerificationAnchored
<1>4. CASE Accept
  <2>1. PICK kind \in Kinds : last' = Accepted(made + 1, kind)
    BY <1>4 DEF Accept, Supersede
  <2>2. last' \in CommandResult
    <3>1. made + 1 \in Calls /\ kind \in ControlKind
      BY <1>4, RuntimeAssumption DEF Accept, Call, Inductive, TypeOK, CallerTypes, Calls
    <3> QED
      BY <2>1, <3>1 DEF Accepted, CommandResult
  <2>3. last' # None /\ last'.verified = None
    BY <2>1, <2>2, ReportAssumption DEF Accepted
  <2> QED
    BY <1>1, <1>4, <2>3 DEF Accept, Supersede, VerificationAnchored
<1>5. CASE TakeExpired \/ TakeExpiring
  <2>1. Taken \in Calls /\ job[Taken].kind \in ControlKind
    BY <1>5, AtHead DEF TakeExpired, TakeExpiring, Taking
  <2>2. last' # None /\ last'.verified = None
    BY <1>5, <2>1, NewReport DEF TakeExpired, TakeExpiring
  <2>3. UNCHANGED verify /\ pc' # "verify"
    BY <1>5 DEF TakeExpired, TakeExpiring, Taking
  <2> QED
    BY <1>3, <2>2, <2>3
<1>6. ASSUME NEW written \in BOOLEAN, NEW acked \in BOOLEAN,
             last' = Completed(active, written, acked), Release,
             pc \in {"resolve", "write", "backoff"},
             \/ UNCHANGED verify
             \/ \E expected : verify' = StartVerification(expected)
      PROVE  VerificationAnchored'
  <2>1. last' # None /\ last'.verified = None
    BY <1>6, InHand, NewReport DEF Kind
  <2>2. CASE UNCHANGED verify
    BY <1>3, <1>6, <2>1, <2>2 DEF Release
  <2>3. CASE \E expected : verify' = StartVerification(expected)
    <3>1. verify'.attempt = 0
      BY <2>3 DEF StartVerification
    <3> QED
      BY <1>1, <2>1, <3>1 DEF VerificationAnchored
  <2> QED
    BY <1>6, <2>2, <2>3
<1>7. CASE ResolveFails
  BY <1>6, <1>7 DEF ResolveFails, Fails
<1>8. CASE WriteOk
  BY <1>6, <1>8 DEF WriteOk
<1>9. CASE WriteRejected
  <2>1. last' # None /\ last'.verified = None
    BY <1>9, InHand, RejectionType, ReportAssumption DEF WriteRejected, Kind
  <2> QED
    BY <1>3, <1>9, <2>1 DEF WriteRejected, Release
<1>10. CASE WriteFails
  <2> PICK sent \in BOOLEAN, obeyed \in BOOLEAN :
           IF tries = 0 THEN UNCHANGED <<verify, last>> /\ pc' = "backoff"
                        ELSE GiveUp(attempted \/ sent)
    BY <1>10 DEF WriteFails
  <2>1. CASE tries = 0
    BY <1>2, <2>1
  <2>2. CASE tries # 0
    <3>1. (attempted \/ sent) \in BOOLEAN
      OBVIOUS
    <3> QED
      BY <1>6, <1>10, <2>2, <3>1 DEF WriteFails, GiveUp, Fails
  <2> QED
    BY <2>1, <2>2
<1>11. CASE StopRetrying
  BY <1>1, <1>6, <1>11 DEF StopRetrying, GiveUp, Fails, WorkerTypes
<1>12. ASSUME verify' = NextVerification, last' = LastUnverified, pc' = "select",
              verify.due # "none" \/ pc = "verify"
       PROVE  VerificationAnchored'
  <2>1. last # None /\ last.verified = None
    BY <1>1, <1>12 DEF VerificationAnchored
  <2>2. CASE LastAttempt
    <3>1. verify'.due = "none"
      BY <1>12, <2>2 DEF NextVerification, NoVerification
    <3> QED
      BY <1>12, <3>1 DEF VerificationAnchored
  <2>3. CASE ~LastAttempt
    <3>1. last' = last
      BY <1>12, <2>3 DEF LastUnverified
    <3>2. verify.attempt \in Int
      BY <1>1 DEF WorkerTypes, Verification
    <3>3. verify'.attempt = verify.attempt + 1
      BY <1>1, <1>12, <2>3 DEF NextVerification, WorkerTypes, Verification
    <3>4. verify'.attempt < VerifyAttempts
      BY <1>1, <2>3, <3>2, <3>3 DEF LastAttempt
    <3> QED
      BY <2>1, <3>1, <3>4 DEF VerificationAnchored
  <2> QED
    BY <2>2, <2>3
<1>13. CASE StateReadOk
  <2>1. CASE ~CompletesVerification
    BY <1>2, <1>13, <2>1 DEF StateReadOk
  <2>2. CASE CompletesVerification /\ Confirms(device, verify.expected)
    BY <1>1, <1>13, <2>2 DEF StateReadOk, VerificationAnchored
  <2>3. CASE CompletesVerification /\ ~Confirms(device, verify.expected)
    BY <1>12, <1>13, <2>3 DEF StateReadOk, CompletesVerification
  <2> QED
    BY <2>1, <2>2, <2>3
<1>14. CASE StateReadFails
  BY <1>2, <1>12, <1>14 DEF StateReadFails
<1>15. CASE VerificationElapses
  BY <1>1, <1>15 DEF VerificationElapses, VerificationAnchored, WorkerTypes, Verification
<1>16. CASE BeginClose
  BY <1>1, <1>16 DEF BeginClose, VerificationAnchored
<1>17. CASE /\ UNCHANGED <<verify, last>>
            /\ pc' = "verify" => pc = "verify" \/ verify.due # "none"
  BY <1>2, <1>17
<1>18. CASE Wake \/ Exit \/ BeginVerify \/ BeginPoll
  BY <1>2, <1>18 DEF Wake, Exit, BeginVerify, BeginPoll, WorkerGoesTo
<1> QED
  BY <1>4, <1>5, <1>7, <1>8, <1>9, <1>10, <1>11, <1>13, <1>14, <1>15, <1>16, <1>17, <1>18
     DEF Next, Caller, Worker, Choose, Finish, Environment, Closer, vars, Poll, Coalesce,
         Refuse, Call, GiveUpWaiting, TakeAbandoned, BeginResolve, BeginWrite,
         BeginMaintenance, Park, MaintenanceOk, MaintenanceFails, ResolveOk, Retry,
         DeadlinePasses, AnswersAge, VolumeAges, SetSpeakerByHand, ForceWorker, EndClose

\* Every step keeps the invariant.
LEMMA InductiveStep == Inductive /\ [Next]_vars => Inductive'
BY CallerTypesStep, WorkerTypesStep, SnapshotTypesStep, SurroundingTypesStep, QueueStep,
   VerificationStep
   DEF Inductive, TypeOK, QueueInv

\* The inductive invariant holds: the steps of runtime.py keep types, order, the
\* control in hand and the verification plan together.
THEOREM InductiveHolds == Spec => []Inductive
<1>1. Init => Inductive
  BY InitInductive
<1>2. Inductive /\ [Next]_vars => Inductive'
  BY InductiveStep
<1> QED
  BY <1>1, <1>2, PTL DEF Spec

\* Every variable keeps its type: in particular nothing the runtime shows or sends
\* is ever outside the range of its register.
THEOREM TypeCorrect == Spec => []TypeOK
<1>1. Inductive => TypeOK
  BY DEF Inductive
<1> QED
  BY <1>1, InductiveHolds, PTL

\* Controls are tried in the order in which they were accepted
\* (_submit appends, _async_worker pops, _async_control puts back at the front).
THEOREM OrderHolds == Spec => []AcceptanceOrder
<1>1. Inductive => AcceptanceOrder
  BY DEF Inductive
<1> QED
  BY <1>1, InductiveHolds, PTL

\* A scheduled verification always has a command to report on and an attempt left,
\* so the worker never reads the state in a loop (_schedule_next_verification).
THEOREM AnchorHolds == Spec => []VerificationAnchored
<1>1. Inductive => VerificationAnchored
  BY DEF Inductive
<1> QED
  BY <1>1, InductiveHolds, PTL

\* A control is in hand exactly while it is executed (the "finally" of _async_worker).
THEOREM InHandHolds == Spec => []ActiveWhileExecuting
<1>1. Inductive => ActiveWhileExecuting
  BY DEF Inductive
<1> QED
  BY <1>1, InductiveHolds, PTL

\* What is queued or in hand can be executed: it was validated before it was accepted,
\* and a power command names an input by the time it is written (_execute_control).
THEOREM WellFormedHolds == Spec => []ControlsWellFormed
<1>1. Inductive => ControlsWellFormed
  BY DEF Inductive
<1> QED
  BY <1>1, InductiveHolds, PTL
=============================================================================

------------------------------ MODULE KefRuntime ------------------------------
(***************************************************************************)
(* The runtime of one speaker: callers queue controls and ask for polls,   *)
(* one worker task owns the connection and does everything else.           *)
(*                                                                         *)
(* Everything runs on one event loop, so a step of the model is what the   *)
(* code does between two awaits.  While pc is "select" the worker holds    *)
(* the loop and nobody else moves; in the other places it awaits: an event *)
(* ("idle"), the answer of an exchange, or the delay before a retry.       *)
(*                                                                         *)
(* Time is abstracted to what has elapsed: a control's deadline, the delay *)
(* of a verification, the ages that health and volume maintenance look at. *)
(*                                                                         *)
(* Calls and polls are numbered in the order they are made (nothing else   *)
(* tells them apart) and a control is named after the call that created    *)
(* it, so the numbers of controls are their order of acceptance.           *)
(***************************************************************************)
EXTENDS KefCommands, KefHealth, Sequences, Functions

CONSTANTS QueueCapacity,   \* KefLsxRuntime.QUEUE_CAPACITY
          VerifyAttempts,  \* len(RuntimeTiming.verification_delays)
          NumCalls,        \* bound: control calls made
          NumPolls,        \* bound: polls asked for
          Kinds,           \* the commands callers use
          Devices,         \* states the speaker is found in, or set to by hand
          SetByHand,       \* whether somebody uses the speaker's own buttons
          AcksObeyed,      \* whether the speaker does what it acknowledges
          MayClose,        \* whether the integration is ever unloaded
          MayCancel,       \* whether callers give up
          Clocks           \* the spans of time that may elapse

ASSUME RuntimeAssumption ==
    /\ QueueCapacity \in Nat \ {0} /\ VerifyAttempts \in Nat \ {0}
    /\ NumCalls \in Nat /\ NumPolls \in Nat \ {0}
    /\ Kinds \subseteq ControlKind
    /\ Devices \subseteq DeviceState
    /\ SetByHand \in BOOLEAN /\ AcksObeyed \in BOOLEAN
    /\ MayClose \in BOOLEAN /\ MayCancel \in BOOLEAN
    /\ Clocks \subseteq {"deadline", "verification", "answers", "volume"}

VARIABLES
    made, fut,           \* control calls made; the future each one awaits
    pollsMade, pollFut,  \* polls asked for; the future each one awaits
    controls,            \* the queue of accepted controls
    job,                 \* what each control asks for, and the calls waiting for it
    active,              \* the control the worker has in hand, or None
    late,                \* accepted controls whose deadline has passed
    pc,                  \* where the worker is
    tries, attempted,    \* of the active control: retries made; a write was sent
    wake,                \* the event the idle worker waits for
    pollPending, maintenance, \* work other than controls and verification
    verify,              \* the verification plan of the last source command
    volumeAge,           \* of the last volume read or written
    speaker, health, last, \* the published snapshot
    ages,                \* of the last answers, for the health
    closing, closed,     \* shutdown has begun; has ended
    device               \* the speaker itself

callerVars   == <<made, fut, pollsMade, pollFut>>
queueVars    == <<controls, job, active, late>>
attemptVars  == <<tries, attempted>>
pendingVars  == <<wake, pollPending, maintenance>>
snapshotVars == <<speaker, health, last>>
closeVars    == <<closing, closed>>
vars == <<callerVars, queueVars, pc, attemptVars, pendingVars, verify, volumeAge,
          snapshotVars, ages, closeVars, device>>

Calls == 1..NumCalls
Polls == 1..NumPolls

Control == [kind : ControlKind \cup {None}, value : Sources \cup Volumes \cup {None},
            waiters : SUBSET Calls]
NoControl == [kind |-> None, value |-> None, waiters |-> {}]

CommandResult == [call : Calls, command : ControlKind, done : BOOLEAN,
                  written : BOOLEAN, acked : BOOLEAN, rejected : BOOLEAN,
                  verified : BOOLEAN \cup {None}]

ASSUME ReportAssumption == None \notin CommandResult

Confirmable == [power : BOOLEAN \cup {None}, source : Sources \cup {None}]
Verification == [attempt : -1..VerifyAttempts, due : {"none", "waiting", "due"},
                 kind : SourceKinds \cup {None}, expected : Confirmable \cup {None}]
NoVerification == [attempt |-> -1, due |-> "none", kind |-> None, expected |-> None]

Exchanges == {"poll", "verify", "volume", "resolve", "write"}
Places == Exchanges \cup {"idle", "select", "backoff", "done"}
CallStates == {"none", "pending", "result", "error", "cancelled", "refused"}
PollStates == {"none", "pending", "result", "cancelled"}

CallerTypes ==
    /\ made \in 0..NumCalls /\ fut \in [Calls -> CallStates]
    /\ pollsMade \in 0..NumPolls /\ pollFut \in [Polls -> PollStates]
QueueTypes ==
    /\ controls \in Seq(Calls) /\ job \in [Calls -> Control]
    /\ active \in Calls \cup {None} /\ late \subseteq Calls
WorkerTypes ==
    /\ pc \in Places /\ tries \in 0..1 /\ attempted \in BOOLEAN
    /\ wake \in BOOLEAN /\ pollPending \in BOOLEAN /\ maintenance \in BOOLEAN
    /\ verify \in Verification /\ volumeAge \in {"never", "fresh", "old"}
SnapshotTypes ==
    /\ speaker \in SpeakerState /\ last \in CommandResult \cup {None}
    /\ health \in Health /\ ages \in Ages
SurroundingTypes == closing \in BOOLEAN /\ closed \in BOOLEAN /\ device \in DeviceState

TypeOK == CallerTypes /\ QueueTypes /\ WorkerTypes /\ SnapshotTypes /\ SurroundingTypes

\* async_start: the worker task exists and the first poll is asked for.
Init ==
    /\ made = 0 /\ fut = [c \in Calls |-> "none"]
    /\ pollsMade = 1
    /\ pollFut = [p \in Polls |-> IF p = 1 THEN "pending" ELSE "none"]
    /\ controls = <<>> /\ job = [c \in Calls |-> NoControl]
    /\ active = None /\ late = {}
    /\ pc = "idle" /\ tries = 0 /\ attempted = FALSE
    /\ wake = TRUE /\ pollPending = TRUE /\ maintenance = FALSE
    /\ verify = NoVerification /\ volumeAge = "never"
    /\ speaker = UnknownSpeaker /\ health = InitialHealth /\ last = None
    /\ ages = JustStarted
    /\ closing = FALSE /\ closed = FALSE
    /\ device \in Devices

LoopFree == pc # "select"

\* Mutant of Settle: a future that is done is settled again.
SettleDone(waiters, outcome) ==
    fut' = [c \in Calls |-> IF c \in waiters THEN outcome ELSE fut[c]]

\* Futures that are pending end this way; one that is done keeps its outcome.
Settle(waiters, outcome) ==
    fut' = [c \in Calls |-> IF c \in waiters /\ fut[c] = "pending" THEN outcome
                                                                   ELSE fut[c]]

\* Mutant of SettlePolls: there is one future, that of the newest poll.
SettleNewestPoll(outcome) ==
    pollFut' = [p \in Polls |-> IF p = pollsMade /\ pollFut[p] = "pending" THEN outcome
                                                                          ELSE pollFut[p]]

SettlePolls(outcome) ==
    pollFut' = [p \in Polls |-> IF pollFut[p] = "pending" THEN outcome ELSE pollFut[p]]

\* The report on a control: when it was accepted, and when it ended.
Accepted(c, kind) == [call |-> c, command |-> kind, done |-> FALSE, written |-> FALSE,
                      acked |-> FALSE, rejected |-> FALSE, verified |-> None]
Completed(c, written, acked) ==
    [Accepted(c, job[c].kind) EXCEPT !.done = TRUE, !.written = written, !.acked = acked]
Rejected(c) == [Completed(c, TRUE, FALSE) EXCEPT !.rejected = TRUE]

-----------------------------------------------------------------------------
(* Callers *)

\* Mutant of Poll: the worker is not told.
SilentPoll ==
    /\ LoopFree /\ ~closing /\ pollsMade < NumPolls
    /\ pollsMade' = pollsMade + 1
    /\ pollFut' = [pollFut EXCEPT ![pollsMade + 1] = "pending"]
    /\ pollPending' = TRUE
    /\ UNCHANGED <<made, fut, queueVars, pc, attemptVars, wake, maintenance, verify,
                   volumeAge, snapshotVars, ages, closeVars, device>>

Poll ==
    /\ LoopFree /\ ~closing /\ pollsMade < NumPolls
    /\ pollsMade' = pollsMade + 1
    /\ pollFut' = [pollFut EXCEPT ![pollsMade + 1] = "pending"]
    /\ pollPending' = TRUE /\ wake' = TRUE
    /\ UNCHANGED <<made, fut, queueVars, pc, attemptVars, maintenance, verify,
                   volumeAge, snapshotVars, ages, closeVars, device>>

\* Mutant of Coalesces: the command at the tail may be any.
CoalescesWithAny(kind) == kind = "set_volume" /\ controls # <<>>

\* Only adjacent absolute volumes are merged.
Coalesces(kind) ==
    /\ kind = "set_volume" /\ controls # <<>>
    /\ job[controls[Len(controls)]].kind = kind

HasRoom == Len(controls) < QueueCapacity

Call(outcome) ==
    /\ LoopFree /\ made < NumCalls
    /\ made' = made + 1
    /\ fut' = [fut EXCEPT ![made + 1] = outcome]
    /\ UNCHANGED <<pollsMade, pollFut, active, late, pc, attemptVars, pollPending,
                   maintenance, volumeAge, speaker, health, ages, closeVars, device>>

\* The new value replaces that of the control at the tail.
Coalesce ==
    \E value \in Targets("set_volume") :
        /\ "set_volume" \in Kinds /\ ~closing /\ Coalesces("set_volume")
        /\ Call("pending")
        /\ job' = [job EXCEPT ![controls[Len(controls)]].value = value,
                              ![controls[Len(controls)]].waiters = @ \cup {made + 1}]
        /\ wake' = TRUE
        /\ UNCHANGED <<controls, verify, last>>

\* Mutant of Supersede: the report of the older command stays.
SupersedeQuietly(c, kind) == verify' = NoVerification /\ UNCHANGED last

\* An accepted command supersedes the verification of an older one, and its
\* report replaces that of the older one.
Supersede(c, kind) == verify' = NoVerification /\ last' = Accepted(c, kind)

Accept ==
    \E kind \in Kinds : \E value \in Targets(kind) :
        /\ ~closing /\ ~Coalesces(kind) /\ HasRoom
        /\ Call("pending")
        /\ job' = [job EXCEPT ![made + 1] =
                       [kind |-> kind, value |-> value, waiters |-> {made + 1}]]
        /\ controls' = Append(controls, made + 1)
        /\ Supersede(made + 1, kind)
        /\ wake' = TRUE

Refuse ==
    /\ closing \/ \E kind \in Kinds : ~Coalesces(kind) /\ ~HasRoom
    /\ Call("refused")
    /\ UNCHANGED <<controls, job, wake, verify, last>>

\* A caller of a control gives up: its own future is cancelled and nothing
\* else.  Callers of a poll await a shielded future, so they change nothing.
GiveUpWaiting ==
    \E c \in Calls :
        /\ MayCancel /\ LoopFree /\ fut[c] = "pending"
        /\ fut' = [fut EXCEPT ![c] = "cancelled"]
        /\ UNCHANGED <<made, pollsMade, pollFut, queueVars, pc, attemptVars, pendingVars,
                       verify, volumeAge, snapshotVars, ages, closeVars, device>>

-----------------------------------------------------------------------------
(* The worker chooses what to do *)

WorkerGoesTo(place) ==
    /\ pc' = place
    /\ UNCHANGED <<callerVars, queueVars, attemptVars, pendingVars, verify, volumeAge,
                   snapshotVars, ages, closeVars, device>>

\* The event was set, or the delay of the verification is over.
Wake ==
    /\ pc = "idle"
    /\ wake \/ verify.due = "due"
    /\ WorkerGoesTo("select")

\* Mutant of Exit: the worker empties its queue first.
ExitWhenEmpty == pc = "select" /\ closing /\ controls = <<>> /\ WorkerGoesTo("done")

Exit == pc = "select" /\ closing /\ WorkerGoesTo("done")

\* The control at the head of the queue, and what decides its fate.
Taken == Head(controls)
Taking == pc = "select" /\ ~closing /\ controls # <<>>

\* Mutant of Abandoned: one caller that gave up is enough.
AbandonedByOne(c) == \E w \in job[c].waiters : fut[w] = "cancelled"

Abandoned(c) == \A w \in job[c].waiters : fut[w] = "cancelled"
Timely(c) == ~Abandoned(c) /\ c \notin late

\* The control is forgotten without being tried.
Drop ==
    /\ controls' = Tail(controls)
    /\ job' = [job EXCEPT ![Taken] = NoControl] /\ late' = late \ {Taken}

TakeAbandoned ==
    /\ Taking /\ Abandoned(Taken)
    /\ Drop
    /\ UNCHANGED <<callerVars, active, pc, attemptVars, pendingVars, verify,
                   volumeAge, snapshotVars, ages, closeVars, device>>

\* The control fails before anything was sent.
TakeExpired ==
    /\ Taking /\ ~Abandoned(Taken) /\ Taken \in late
    /\ Drop
    /\ last' = Completed(Taken, FALSE, FALSE)
    /\ Settle(job[Taken].waiters, "error")
    /\ UNCHANGED <<made, pollsMade, pollFut, active, pc, attemptVars, pendingVars,
                   verify, volumeAge, speaker, health, ages, closeVars, device>>

\* The deadline passes between the two looks at the clock.
TakeExpiring ==
    /\ "deadline" \in Clocks
    /\ Taking /\ Timely(Taken) /\ ~NeedsVolume(job[Taken].kind, speaker)
    /\ Drop
    /\ health' = RecordPrimaryFailure(health, ages)
    /\ last' = Completed(Taken, FALSE, FALSE)
    /\ Settle(job[Taken].waiters, "error")
    /\ UNCHANGED <<made, pollsMade, pollFut, active, pc, attemptVars,
                   pendingVars, verify, volumeAge, speaker, ages, closeVars, device>>

BeginResolve ==
    /\ Taking /\ Timely(Taken) /\ NeedsVolume(job[Taken].kind, speaker)
    /\ active' = Taken /\ controls' = Tail(controls)
    /\ pc' = "resolve"
    /\ UNCHANGED <<callerVars, job, late, attemptVars, pendingVars, verify, volumeAge,
                   snapshotVars, ages, closeVars, device>>

Resolved(c) == [job EXCEPT ![c].value = ResolvedValue(job[c].kind, @, speaker)]

BeginWrite ==
    /\ Taking /\ Timely(Taken) /\ ~NeedsVolume(job[Taken].kind, speaker)
    /\ active' = Taken /\ controls' = Tail(controls)
    /\ job' = Resolved(Taken)
    /\ tries' = 0 /\ attempted' = FALSE
    /\ pc' = "write"
    /\ UNCHANGED <<callerVars, late, pendingVars, verify, volumeAge, snapshotVars,
                   ages, closeVars, device>>

NoControls == pc = "select" /\ ~closing /\ controls = <<>>

BeginVerify == NoControls /\ verify.due = "due" /\ WorkerGoesTo("verify")

BeginPoll == NoControls /\ verify.due # "due" /\ pollPending /\ WorkerGoesTo("poll")

BeginMaintenance ==
    /\ NoControls /\ verify.due # "due" /\ ~pollPending /\ maintenance
    /\ maintenance' = FALSE
    /\ pc' = IF speaker.power = TRUE THEN "volume" ELSE "select"
    /\ UNCHANGED <<callerVars, queueVars, attemptVars, wake, pollPending, verify,
                   volumeAge, snapshotVars, ages, closeVars, device>>

Park ==
    /\ NoControls /\ verify.due # "due" /\ ~pollPending /\ ~maintenance
    /\ wake' = FALSE
    /\ pc' = "idle"
    /\ UNCHANGED <<callerVars, queueVars, attemptVars, pollPending, maintenance, verify,
                   volumeAge, snapshotVars, ages, closeVars, device>>

-----------------------------------------------------------------------------
(* Reads end *)

\* The speaker answered: the channel is alive, the age of its state is reset
\* by an answer that carries it.
Hears(carriesState) ==
    /\ ages' = Heard(ages, carriesState)
    /\ health' = RecordSuccess(health, ages')

\* Mutant of Confirms: only the input is compared.
ConfirmsSource(source, expected) == expected # None /\ source.source = expected.source

Confirms(source, expected) ==
    expected # None /\ source.power = expected.power /\ source.source = expected.source

\* A read completes the verification plan when it is due; a poll does so too
\* for a source command.
CompletesVerification ==
    /\ verify.due = "due"
    /\ pc = "verify" \/ verify.kind \in SourceKinds
    /\ last # None /\ last.verified = None

\* Mutant of LastAttempt: off by one.
LastAttemptPassed == verify.attempt + 1 > VerifyAttempts

LastAttempt == verify.attempt + 1 >= VerifyAttempts

\* Mutant of NextVerification: attempts are not counted.
SameVerification == [verify EXCEPT !.due = "waiting"]

\* After the last attempt the plan ends; the attempt counter is left as it is.
NextVerification ==
    IF LastAttempt THEN [NoVerification EXCEPT !.attempt = verify.attempt + 1]
    ELSE [verify EXCEPT !.attempt = @ + 1, !.due = "waiting"]

\* Mutant of LastUnverified: the first failed attempt is a verdict.
LastUnverifiedAtOnce ==
    IF last # None /\ last.verified = None THEN [last EXCEPT !.verified = FALSE] ELSE last

\* last after a failed attempt.
LastUnverified ==
    IF LastAttempt /\ last # None /\ last.verified = None
    THEN [last EXCEPT !.verified = FALSE] ELSE last

\* The volume is read when it is unknown, and again now and then.
VolumeDue == volumeAge = "old" \/ (volumeAge = "never" /\ speaker.volume = None)

StateReadOk ==
    /\ pc \in {"poll", "verify"}
    /\ speaker' = [speaker EXCEPT !.power = device.power, !.source = device.source]
    /\ ages' = Heard(ages, TRUE)
    /\ LET heard == RecordSuccess(health, ages')
           confirmed == Confirms(device, verify.expected)
       IN  IF ~CompletesVerification THEN
               health' = heard /\ UNCHANGED <<verify, last>>
           ELSE IF confirmed THEN
               /\ health' = heard /\ verify' = NoVerification
               /\ last' = [last EXCEPT !.verified = TRUE]
           ELSE
               /\ health' = [heard EXCEPT !.degraded = TRUE]
               /\ verify' = NextVerification /\ last' = LastUnverified
    /\ IF pollPending THEN SettlePolls("result") ELSE UNCHANGED pollFut
    /\ pollPending' = FALSE
    /\ maintenance' = (device.power /\ (VolumeDue \/ maintenance))
    /\ wake' = (wake \/ (device.power /\ VolumeDue))
    /\ pc' = "select"
    /\ UNCHANGED <<made, fut, pollsMade, queueVars, attemptVars, volumeAge, closeVars,
                   device>>

\* A failed read answers the polls all the same, with what is known.
StateReadFails ==
    /\ pc \in {"poll", "verify"}
    /\ LET primary == pc = "poll" \/ pollPending
           counted == IF primary THEN RecordPrimaryFailure(health, ages) ELSE health
       IN  /\ health' = IF pc = "verify" THEN RecordOptionalFailure(counted, ages)
                                         ELSE counted
           /\ IF primary THEN SettlePolls("result") ELSE UNCHANGED pollFut
    /\ pollPending' = FALSE
    /\ IF pc = "verify" THEN verify' = NextVerification /\ last' = LastUnverified
                        ELSE UNCHANGED <<verify, last>>
    /\ pc' = "select"
    /\ UNCHANGED <<made, fut, pollsMade, queueVars, attemptVars, wake, maintenance,
                   volumeAge, speaker, ages, closeVars, device>>

LearnVolume ==
    /\ speaker' = [speaker EXCEPT !.volume = device.volume, !.muted = device.muted]
    /\ volumeAge' = "fresh"
    /\ Hears(FALSE)

MaintenanceOk ==
    /\ pc = "volume" /\ LearnVolume
    /\ pc' = "select"
    /\ UNCHANGED <<callerVars, queueVars, attemptVars, pendingVars, verify, last,
                   closeVars, device>>

MaintenanceFails ==
    /\ pc = "volume"
    /\ health' = RecordOptionalFailure(health, ages)
    /\ pc' = "select"
    /\ UNCHANGED <<callerVars, queueVars, attemptVars, pendingVars, verify, volumeAge,
                   speaker, last, ages, closeVars, device>>

-----------------------------------------------------------------------------
(* Controls end *)

Kind == job[active].kind

\* The worker lets go of the control and looks for more work.
Release ==
    /\ active' = None
    /\ job' = [job EXCEPT ![active] = NoControl] /\ late' = late \ {active}
    /\ tries' = 0 /\ attempted' = FALSE
    /\ pc' = "select"

\* Mutants of Requeued: the control goes to the tail, or nowhere.
RequeuedAtTail == Append(controls, active)
RequeuedNever == controls

\* The volume is known now: the control goes back to the head of the queue.
Requeued == <<active>> \o controls

ResolveOk ==
    /\ pc = "resolve" /\ LearnVolume
    /\ controls' = Requeued
    /\ active' = None /\ pc' = "select"
    /\ UNCHANGED <<callerVars, job, late, attemptVars, pendingVars, verify, last,
                   closeVars, device>>

Fails(written) ==
    /\ health' = RecordPrimaryFailure(health, ages)
    /\ last' = Completed(active, written, FALSE)
    /\ Settle(job[active].waiters, "error")
    /\ Release
    /\ UNCHANGED <<made, pollsMade, pollFut, controls, pendingVars, volumeAge,
                   speaker, ages, closeVars>>

\* The error says whether the request, here a read, was sent.
ResolveFails ==
    /\ pc = "resolve"
    /\ \E sent \in BOOLEAN : Fails(sent)
    /\ UNCHANGED <<verify, device>>

\* Mutant of StartVerification: the state from before the command is expected.
StartVerificationEarly(expected) ==
    [attempt |-> 0, due |-> "waiting", kind |-> Kind,
     expected |-> [power |-> speaker.power, source |-> speaker.source]]

StartVerification(expected) ==
    [attempt |-> 0, due |-> "waiting", kind |-> Kind,
     expected |-> [power |-> expected.power, source |-> expected.source]]

AfterCommand == ExpectedState(Kind, job[active].value, speaker)
SpeakerAfterCommand == Written(Kind, job[active].value, speaker, device)

\* Mutant of MaintenanceAfterCommand: a power-off does not cancel it.
MaintenanceKept == maintenance

\* A speaker that is switched off has no volume to read.
MaintenanceAfterCommand == maintenance /\ Kind # "turn_off"

\* The speaker acknowledges the command, which is all that is known of it: what is
\* shown then is what the command asked for.
WriteOk ==
    /\ pc = "write"
    /\ device' \in {SpeakerAfterCommand} \cup IF AcksObeyed THEN {} ELSE {device}
    /\ speaker' = AfterCommand
    /\ maintenance' = MaintenanceAfterCommand
    /\ volumeAge' = IF Kind \in SourceKinds THEN volumeAge ELSE "fresh"
    /\ Hears(FALSE)
    /\ last' = Completed(active, TRUE, TRUE)
    /\ verify' = IF Kind \in SourceKinds THEN StartVerification(speaker') ELSE verify
    /\ Settle(job[active].waiters, "result")
    /\ Release
    /\ UNCHANGED <<made, pollsMade, pollFut, controls, wake, pollPending, closeVars>>

\* The speaker refuses the command: an answer, and no reason to try again.
WriteRejected ==
    /\ pc = "write"
    /\ Hears(FALSE)
    /\ last' = Rejected(active)
    /\ Settle(job[active].waiters, "error")
    /\ Release
    /\ UNCHANGED <<made, pollsMade, pollFut, controls, pendingVars, verify, volumeAge,
                   speaker, closeVars, device>>

\* Mutant of GiveUp: only acknowledged commands are verified.
GiveUpUnverified(written) == Fails(written) /\ UNCHANGED verify

\* The control fails; one that may have switched the speaker is verified.
GiveUp(written) ==
    /\ Fails(written)
    /\ verify' = IF written /\ Kind \in SourceKinds THEN StartVerification(AfterCommand)
                                                    ELSE verify

\* The outcome of an attempt that got no answer is unknown: the request may
\* have been sent, and then may have been obeyed.
WriteFails ==
    /\ pc = "write"
    /\ \E sent \in BOOLEAN, obeyed \in BOOLEAN :
          /\ obeyed => sent
          /\ device' = IF obeyed THEN SpeakerAfterCommand ELSE device
          /\ IF tries = 0
             THEN /\ attempted' = (attempted \/ sent)
                  /\ pc' = "backoff"
                  /\ UNCHANGED <<callerVars, queueVars, tries, pendingVars, verify,
                                 volumeAge, snapshotVars, ages, closeVars>>
             ELSE GiveUp(attempted \/ sent)

\* Mutants of NoTimeLeft: a retry looks at only one of the two.
ShuttingDown == closing
TooLate == active \in late

NoTimeLeft == closing \/ active \in late

Retry ==
    /\ pc = "backoff" /\ ~NoTimeLeft
    /\ tries' = 1
    /\ job' = Resolved(active)
    /\ pc' = "write"
    /\ UNCHANGED <<callerVars, controls, active, late, attempted, pendingVars, verify,
                   volumeAge, snapshotVars, ages, closeVars, device>>

StopRetrying ==
    /\ pc = "backoff" /\ NoTimeLeft
    /\ GiveUp(attempted)
    /\ UNCHANGED device

-----------------------------------------------------------------------------
(* Time, and people near the speaker *)

Queued == Range(controls)
InPlay == Queued \cup ({active} \ {None})

\* All controls have the same budget, so deadlines pass in acceptance order.
DeadlinePasses ==
    \E c \in InPlay \ late :
        /\ "deadline" \in Clocks /\ LoopFree
        /\ \A d \in InPlay : d < c => d \in late
        /\ late' = late \cup {c}
        /\ UNCHANGED <<callerVars, controls, job, active, pc, attemptVars, pendingVars,
                       verify, volumeAge, snapshotVars, ages, closeVars, device>>

VerificationElapses ==
    /\ "verification" \in Clocks /\ LoopFree /\ verify.due = "waiting"
    /\ verify' = [verify EXCEPT !.due = "due"]
    /\ UNCHANGED <<callerVars, queueVars, pc, attemptVars, pendingVars, volumeAge,
                   snapshotVars, ages, closeVars, device>>

\* stale_after is shorter than unavailable_after, and a read of the state is an
\* answer, so the state is old before the channel is.
AnswersAge ==
    /\ "answers" \in Clocks /\ LoopFree /\ ~ages.channel
    /\ ages' = IF ages.state THEN [ages EXCEPT !.channel = TRUE]
                             ELSE [ages EXCEPT !.state = TRUE]
    /\ UNCHANGED <<callerVars, queueVars, pc, attemptVars, pendingVars, verify, volumeAge,
                   snapshotVars, closeVars, device>>

VolumeAges ==
    /\ "volume" \in Clocks /\ LoopFree /\ volumeAge = "fresh"
    /\ volumeAge' = "old"
    /\ UNCHANGED <<callerVars, queueVars, pc, attemptVars, pendingVars, verify,
                   snapshotVars, ages, closeVars, device>>

SetSpeakerByHand ==
    /\ SetByHand /\ LoopFree
    /\ device' \in Devices \ {device}
    /\ UNCHANGED <<callerVars, queueVars, pc, attemptVars, pendingVars, verify, volumeAge,
                   snapshotVars, ages, closeVars>>

-----------------------------------------------------------------------------
(* Shutdown *)

\* The first step of the shared shutdown task, up to its first await.
BeginClose ==
    /\ MayClose /\ LoopFree /\ ~closing
    /\ closing' = TRUE
    /\ Settle(UNION {job[c].waiters : c \in Queued}, "cancelled")
    /\ SettlePolls("cancelled")
    /\ controls' = <<>> /\ late' = late \cap {active}
    /\ job' = [c \in Calls |-> IF c = active THEN job[c] ELSE NoControl]
    /\ pollPending' = FALSE /\ maintenance' = FALSE
    /\ verify' = NoVerification
    /\ wake' = TRUE
    /\ UNCHANGED <<made, pollsMade, active, pc, attemptVars, volumeAge,
                   snapshotVars, ages, closed, device>>

\* The worker did not exit in time: it is cancelled where it awaits and its
\* "finally" clauses run, one of which forgets the active control.
ForceWorker ==
    /\ closing /\ pc \in Exchanges \cup {"backoff"}
    /\ pc' = "done" /\ active' = None
    /\ job' = [c \in Calls |-> IF c = active THEN NoControl ELSE job[c]]
    /\ late' = late \ {active} /\ tries' = 0 /\ attempted' = FALSE
    /\ device' \in {device} \cup IF pc = "write" THEN {SpeakerAfterCommand} ELSE {}
    /\ UNCHANGED <<callerVars, controls, pendingVars, verify, volumeAge, snapshotVars,
                   ages, closeVars>>

\* Mutant of EndClose: shutdown does not wait for the worker.
EndCloseEarly ==
    /\ closing /\ ~closed
    /\ Settle(IF active # None THEN job[active].waiters ELSE {}, "cancelled")
    /\ closed' = TRUE
    /\ UNCHANGED <<made, pollsMade, pollFut, queueVars, pc, attemptVars, pendingVars,
                   verify, volumeAge, snapshotVars, ages, closing, device>>

\* The worker is gone: what it still had in hand is cancelled.
EndClose ==
    /\ closing /\ ~closed /\ pc = "done"
    /\ Settle(IF active # None THEN job[active].waiters ELSE {}, "cancelled")
    /\ closed' = TRUE
    /\ UNCHANGED <<made, pollsMade, pollFut, queueVars, pc, attemptVars, pendingVars,
                   verify, volumeAge, snapshotVars, ages, closing, device>>

-----------------------------------------------------------------------------

Caller == Poll \/ Coalesce \/ Accept \/ Refuse \/ GiveUpWaiting

Choose ==
    \/ Wake \/ Exit
    \/ TakeAbandoned \/ TakeExpired \/ TakeExpiring \/ BeginResolve \/ BeginWrite
    \/ BeginVerify \/ BeginPoll \/ BeginMaintenance \/ Park

Finish ==
    \/ StateReadOk \/ StateReadFails \/ MaintenanceOk \/ MaintenanceFails
    \/ ResolveOk \/ ResolveFails
    \/ WriteOk \/ WriteRejected \/ WriteFails \/ Retry \/ StopRetrying

Worker == Choose \/ Finish

Environment ==
    \/ DeadlinePasses \/ VerificationElapses \/ AnswersAge \/ VolumeAges
    \/ SetSpeakerByHand

Closer == BeginClose \/ ForceWorker \/ EndClose

Next == Caller \/ Worker \/ Environment \/ Closer

Spec == Init /\ [][Next]_vars

\* Every exchange and every delay of the code is bounded, so whatever the worker
\* awaits ends; delays elapse; the shutdown task runs to its end once the worker
\* is gone.  Nothing says that the speaker answers.
Fairness == WF_vars(Worker) /\ WF_vars(VerificationElapses) /\ WF_vars(EndClose)

FairSpec == Spec /\ Fairness

-----------------------------------------------------------------------------
(* Safety *)

\* Controls are tried in the order they were accepted, also the one that goes
\* back to the queue after its volume was read: the queue is sorted and the
\* control in hand is older than all of it.
Sorted(queue) == \A i, k \in DOMAIN queue : i < k => queue[i] < queue[k]
AcceptanceOrder == Sorted(controls) /\ (active # None => \A c \in Queued : active < c)

\* A control is in hand exactly while the worker executes one, so shutdown, which
\* waits for the worker to be gone, never finds one to cancel.
ActiveWhileExecuting == active # None <=> pc \in {"resolve", "write", "backoff"}

\* What is queued or in hand was asked for and can be executed: an absolute volume
\* or an input was validated when it was accepted, and stays so when callers share
\* a control; a power command has an input to name by the time it is written.
ControlsWellFormed ==
    \A j \in InPlay :
        /\ j <= made /\ job[j].kind \in ControlKind
        /\ job[j].kind = "set_volume" => job[j].value \in Volumes
        /\ \/ job[j].kind = "select_source"
           \/ job[j].kind \in PowerKinds /\ j = active /\ pc \in {"write", "backoff"}
           => job[j].value \in Sources

\* Until shutdown every call that waits is waited for: exactly one control,
\* queued or in hand, will settle its future.
EveryCallOwned ==
    ~closing => \A c \in Calls : fut[c] = "pending" =>
        /\ \E j \in InPlay : c \in job[j].waiters
        /\ \A j, k \in InPlay :
               c \in job[j].waiters /\ c \in job[k].waiters => j = k

\* A poll that waits is a poll the worker knows of, and shutdown leaves none.
EveryPollKnown ==
    (\E p \in Polls : pollFut[p] = "pending") => pollPending /\ ~closing

\* The worker never sleeps through work or through shutdown: between its look
\* at the queues and its sleep nothing is forgotten.
NoLostWakeup ==
    pc = "idle" /\ (controls # <<>> \/ pollPending \/ maintenance \/ closing) => wake

\* A verification that is scheduled or under way has an unverified command to
\* report on and an attempt left.  Without them a due read would never be accounted
\* for and the worker would read the state over and over.
VerificationAnchored ==
    verify.due # "none" \/ pc = "verify" =>
        /\ last # None /\ last.verified = None
        /\ verify.attempt < VerifyAttempts

\* What is reported as verified is what the speaker does, as long as nobody
\* sets it by hand: a later command that may have changed it comes with a
\* report of its own.
VerifiedIsReal ==
    last # None /\ last.verified = TRUE =>
        speaker.power = device.power /\ speaker.source = device.source

\* Once nothing is in flight, the verification of an acknowledged source command
\* expects the state that command put the speaker in.
ExpectsWhatWasSent ==
    /\ InPlay = {} /\ verify.kind # None
    /\ last # None /\ last.acked /\ last.command \in SourceKinds
    => verify.expected = [power |-> device.power, source |-> device.source]

\* A source command that was sent and not rejected is verified, also when no answer
\* came and it was given up: until its report has a verdict, a plan of its own is
\* scheduled, whatever reads were in flight and whichever commands came between.
VerdictToCome ==
    /\ ~closing
    /\ last # None /\ last.command \in SourceKinds
    /\ last.done /\ last.written /\ ~last.rejected /\ last.verified = None
    => verify.due # "none" /\ verify.kind = last.command

\* Volume maintenance is for a speaker that is on, whatever happens between
\* its being planned and its being done.
MaintenanceWhenOn == maintenance \/ pc = "volume" => speaker.power = TRUE

\* The write of a relative command, retried or not, never guesses the volume
\* or the mute state it is relative to.
NeverGuesses ==
    pc \in {"write", "backoff"} /\ Kind \in RelativeKinds =>
        speaker.volume # None /\ speaker.muted # None

\* The speaker is reported unavailable only after enough failures in a row and
\* a long silence, and any answer makes it available again.
Hysteresis == ~health.available => health.failures = FailureThreshold /\ ages.channel

(* Action properties *)

\* A future is settled once, whoever is first: the worker, a caller that gave
\* up or shutdown.
SettledOnce ==
    [][\A c \in Calls : fut[c] \notin {"none", "pending"} => fut'[c] = fut[c]]_vars

\* A source command that was acknowledged is reported as verified only when the
\* speaker is found on, or off, as it asked: a plan compares the state of its
\* own command and no other, also when the speaker did not do what it acknowledged
\* or its buttons were used since.
VerdictIsReal ==
    [][/\ last # None /\ last.verified = None /\ last.acked /\ last.command \in SourceKinds
       /\ last' # None /\ last'.verified = TRUE
       => device.power = (last.command # "turn_off")]_vars

\* Once its deadline has passed a control starts nothing, be it the first
\* attempt, a retry or the read of the volume.
StartsInTime ==
    [][pc' \in {"resolve", "write"} /\ pc' # pc => active' \notin late']_vars

\* Once shutdown has begun no exchange is started; the one in flight may end.
NothingStartsAfterClosing ==
    [][closing /\ pc' \in Exchanges => pc' = pc]_vars

\* After shutdown nothing is published and the worker does not move.
ClosedIsFinal == [][closed => UNCHANGED <<snapshotVars, pc>>]_vars

(* The promise to callers *)

\* The controls in play, oldest first, as callers know them: what power and relative
\* commands resolve to is the worker's own business.
InOrder == IF active = None THEN controls ELSE <<active>> \o controls
Group(c) == [command |-> job[c].kind, waiters |-> job[c].waiters,
             value |-> IF job[c].kind \in {"select_source", "set_volume"} THEN job[c].value
                                                                        ELSE None]
Groups(queue) == [i \in DOMAIN queue |-> Group(queue[i])]

Promise == INSTANCE KefCalls WITH
    Commands <- Kinds, Values <- Sources \cup Volumes \cup {None}, Capacity <- QueueCapacity,
    backlog <- Groups(InOrder), busy <- active # None, outcome <- fut,
    shut <- IF closed THEN "closed" ELSE IF closing THEN "closing" ELSE "open"

\* The runtime keeps the promise of KefCalls: whatever the worker does in between,
\* calls are answered in order, once, with what the speaker did, and all who share a
\* command with the same answer.
CallsServed == Promise!CallsSpec

(* Liveness *)

\* A control comes to an end, though the speaker may never answer.
ControlsSettle ==
    \A c \in Calls : fut[c] = "pending" ~> fut[c] # "pending" \/ closing

\* So does a poll, whatever the controls and verifications before it.
PollsSettle == \A p \in Polls : pollFut[p] = "pending" ~> pollFut[p] # "pending"

\* A verification comes to a verdict or is superseded.
VerificationConcludes == verify.due # "none" ~> verify.due = "none" \/ closing

\* Shutdown ends.
CloseTerminates == closing ~> closed

(* Claims of the documentation *)

\* "A bounded FIFO control queue (capacity 16)", "maximum 16".
QueueWithinCapacity == Len(controls) <= QueueCapacity

\* "Every accepted future reaches result, exception, or cancellation".
AllSettledWhenClosed == closed => \A c \in Calls : fut[c] # "pending"

\* A verification marks source commands only, and only what was written: the plan of
\* an older command neither verifies a later one that failed nor a volume.
VerifiedWasWritten ==
    last # None /\ last.verified = TRUE => last.written /\ last.command \in SourceKinds

\* "New state-changing commands supersede stale generations": a scheduled
\* verification knows the command it belongs to.
VerificationHasCommand == verify.due # "none" => verify.kind # None
=============================================================================

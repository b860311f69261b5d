--------------------------- MODULE KefCoordinator ---------------------------
(***************************************************************************)
(* The runtime together with its coordinator, whose data is all that       *)
(* entities show.  The data is replaced in two ways: the runtime publishes *)
(* its snapshot at once, and the coordinator stores what a poll of its own *)
(* returned when its task goes on, after other tasks may have run.         *)
(***************************************************************************)
EXTENDS KefRuntime

VARIABLES
    shown,     \* DataUpdateCoordinator.data, None before setup has any
    onItsWay   \* per poll: the snapshot it was answered with, until it is stored

coordinatorVars == <<shown, onItsWay>>
allVars == <<vars, coordinatorVars>>

Snapshot == [speaker |-> speaker, health |-> health, last |-> last]

\* Mutant of Available: the entity goes by the last poll.
AvailableByLastPoll(data) == data.health.failures = 0

\* What entities make of the data: whether they are available, and what the sensor for
\* the communication says.  Entities also ask whether the last poll raised, which no
\* poll of an open runtime does.
Available(data) == data.health.available

CommunicationStatus(data) ==
    CASE ~Available(data) -> "unavailable"
      [] Available(data) /\ data.health.degraded -> "degraded"
      [] OTHER -> "healthy"

CoordinatorInit == Init /\ shown = None /\ onItsWay = [p \in Polls |-> None]

Delivered == \A p \in Polls : onItsWay[p] = None

\* The publisher of the runtime is async_set_updated_data.
Publishes == shown' = Snapshot'

\* Polls that are answered in this step return this snapshot.
Resolves(snapshot) ==
    onItsWay' = [p \in Polls |-> IF pollFut[p] = "pending" /\ pollFut'[p] = "result"
                                 THEN snapshot ELSE onItsWay[p]]

\* Setup waits for the first poll before the coordinator asks for others.
CoordinatorPolls ==
    /\ Poll /\ pollFut[1] = "result" /\ onItsWay[1] = None
    /\ UNCHANGED coordinatorVars

\* The speaker answers.  The task of the coordinator goes on within two rounds
\* of the event loop, and connecting alone takes more: no result is still on its
\* way when an answer comes.
StateRead == Delivered /\ StateReadOk /\ Publishes /\ Resolves(Snapshot')

VolumeRead == ResolveOk \/ MaintenanceOk

\* Mutant of AnswerPublished: the volume that was read is kept for later.
AnswerOfWritesPublished ==
    /\ Delivered /\ (VolumeRead \/ WriteOk \/ WriteRejected)
    /\ IF pc = "write" THEN Publishes ELSE UNCHANGED shown
    /\ UNCHANGED onItsWay

AnswerPublished ==
    /\ Delivered /\ (VolumeRead \/ WriteOk \/ WriteRejected)
    /\ Publishes /\ UNCHANGED onItsWay

\* Polls are answered before a verification that failed as well is accounted for.
FailedRead == [Snapshot EXCEPT !.health = RecordPrimaryFailure(health, ages)]

StateNotRead == StateReadFails /\ Publishes /\ Resolves(FailedRead)

\* Other failures, which need not wait for the network.
Ended == pc' = "select" /\ (WriteFails \/ StopRetrying)
FailurePublished ==
    /\ TakeExpired \/ TakeExpiring \/ MaintenanceFails \/ ResolveFails \/ Ended
    /\ Publishes /\ UNCHANGED onItsWay

CommandPublished == Accept /\ Publishes /\ UNCHANGED onItsWay

\* Nothing is published.
Quiet ==
    /\ \/ Coalesce \/ Refuse \/ GiveUpWaiting
       \/ Wake \/ Exit \/ TakeAbandoned \/ BeginResolve \/ BeginWrite
       \/ BeginVerify \/ BeginPoll \/ BeginMaintenance \/ Park
       \/ Retry \/ (pc' = "backoff" /\ WriteFails)
       \/ Environment \/ Closer
    /\ UNCHANGED coordinatorVars

\* The result of a poll is stored, whatever was published since.  Setup stores the
\* current snapshot when its own poll has ended.
Store(p) ==
    /\ LoopFree /\ onItsWay[p] # None
    /\ shown' = IF p = 1 THEN Snapshot ELSE onItsWay[p]
    /\ onItsWay' = [onItsWay EXCEPT ![p] = None]
    /\ UNCHANGED vars

CoordinatorNext ==
    \/ CoordinatorPolls \/ StateRead \/ AnswerPublished \/ StateNotRead
    \/ FailurePublished \/ CommandPublished \/ Quiet
    \/ \E p \in Polls : Store(p)

CoordinatorSpec == CoordinatorInit /\ [][CoordinatorNext]_allVars

-----------------------------------------------------------------------------

\* The speaker an entity shows is the one the runtime knows: a poll result that
\* is stored late never takes back a newer answer of the speaker.
SpeakerShown == shown # None => shown.speaker = speaker

\* What is shown as unavailable has failed often enough, has been silent for a
\* long time, and still is: neither one failed poll nor a poll result that was
\* overtaken by an answer makes an entity unavailable.
UnavailableForAReason ==
    shown # None /\ CommunicationStatus(shown) = "unavailable" => Unavailable(health, ages)
=============================================================================

# A verification project for hass-lsx-i

TLA+ modules, TLC configurations and TLAPS proofs about
`custom_components/kef_lsx`, the Home Assistant integration for first-generation
KEF LSX speakers. Paths below are relative to the repository; `runtime.py` and
the like are in `src/custom_components/kef_lsx/`.

## 1. The system

The speaker speaks a legacy byte protocol over TCP, accepts one connection at a
time and stops answering when it is treated badly. The integration is built
around one sentence of `docs/architecture.md`: one task owns all communication
with one speaker. Home Assistant's entities, the coordinator and shutdown only
leave intents for that task, and read what it published.

```
 services ──> media_player ──┐                       ┌──> snapshot ──> entities
 30 s timer ─> coordinator ──┤ queue, poll future,   │
 unload ─────> async_close ──┘ event                 │
                 └────────> worker ── LsxClient ── FrameParser ── TCP ── speaker
```

| Component | State it keeps | Operations | Hard about it | Correct when |
|---|---|---|---|---|
| Runtime, callers (`runtime.py:187-248`) | control queue, control in hand, poll future, command id | `async_poll`, seven control methods | callers give up, share a coalesced control, meet a full queue, miss deadlines | every call is owned by exactly one control, is tried in the order of acceptance, in time, and settled once |
| Runtime, worker (`runtime.py:250-436`) | what it does, the wakeup event | controls, verification, poll, maintenance, in this order | every `await` lets the others in: the control returns to the queue after its volume was read, a write is repeated, the volume ages between reading and writing | no work is lost or overlooked; relative commands never guess |
| Runtime, verification (`runtime.py:522-657`) | plan: kind, expected state, attempt, due time; the last report | start, read, reschedule, give up, supersede | the plan of an older command outlives the acceptance of a newer one | a verdict is about the command whose report carries it |
| Runtime, health (`runtime.py:552-614`, `models.py`) | failures in a row, times of the last answers | success, primary and optional failure | two clocks and a counter, recomputed only when an exchange ends | unavailable only after enough failures and a long silence; any answer ends it |
| Runtime, shutdown (`runtime.py:145-185`) | closing, stopped, closed | `async_close` | waits for a worker that may be anywhere, and forces it | nothing starts afterwards; everything is settled |
| Client (`client.py`) | exchange lock, active writer, closed | two GETs, two SETs, `async_close` | timeouts, cancellation at every await, cleanup, recovery time of the speaker | connections one after another; errors tell the truth about what was sent |
| Protocol (`protocol.py`) | parser buffer | encode, decode, `feed` | TCP cuts and joins frames; four facts share a byte | the right frame answers; decoding undoes encoding |
| Coordinator, entities (`coordinator.py`, `entity.py`) | last data | poll every 30 s, fan-out | a poll result stored over a newer publication | the speaker shown is the one the runtime knows; unavailable only for a reason |
| Lifecycle (`__init__.py`, `async_create_runtime`) | one runtime per entry | setup, unload, reload, removal | setup fails or is cancelled half-way; the entry changes while it is set up | an entry has a worker exactly while it may, built from what the entry says |
| Config and options flow (`config_flow.py`) | flow steps | user, reconfigure, options | flows overlap, with an await between check and change | one entry per endpoint, titles apart |
| Media player, sensors, diagnostics, constants | none | services that call the runtime, views | nothing | translation, redaction, wording |

`PROJECT.json` lists under "hazards" each place where this can go wrong in a way
that a test would hardly reach, and the properties aimed at it.

## 2. The modules

| Module | Models | Kind |
|---|---|---|
| `KefCommands` | what a command sends and what is shown afterwards | operators |
| `KefHealth` | `CommunicationHealth` and `_compute_health` | operators |
| `KefCalls` | what the runtime promises to those who call it | abstract specification |
| `KefRuntime` | callers, worker, verification, health, shutdown, time, the speaker; refines `KefCalls` | state machine; extends both operator modules |
| `KefCoordinator` | the runtime together with the coordinator's data, which entities show | composition; extends `KefRuntime` |
| `KefRegisters` | register codec and frame parser | operators |
| `KefLine` | what the client promises to the runtime | abstract specification |
| `KefClient` | `LsxClient` and the stream it reads; refines `KefLine` | state machine; extends `KefRegisters` |
| `KefEntries` | config entries, their setup, their workers, the flows that create and change them | state machine |
| `MCKefRuntime`, `MCKefCoordinator`, `MCKefClient`, `MCKefEntries` | speakers, streams and names for TLC | instances |
| `KefRuntimeProofs` | facts of the command and health operators, the inductive invariant of `KefRuntime` and what it contains | proofs |
| `KefRuntimeTheorems` | action properties, the invariants with a proof of their own, the ownership of calls, and from it the refinement of `KefCalls` | proofs |
| `KefRuntimeVerification` | plans, verdicts and the speaker they are about | proofs |
| `KefCoordinatorProofs` | the composition is the runtime, and shows what the runtime knows | proofs |
| `KefCodecProofs` | decoding undoes encoding; the parser reads the same wherever a stream is cut | proofs |
| `KefClientProofs` | exclusive use of the line, the refinement of `KefLine` | proofs |
| `KefClientAnswers` | what the parser makes of any stream, and the answers of the client | proofs |
| `KefEntriesProofs` | the inductive invariant of `KefEntries`, titles | proofs |

Operators whose comment begins "Mutant of" are deliberately wrong versions of
the definition below them. Nothing refers to them; putting one in the place of
its original must break the property that `PROJECT.json` pairs with it.

### KefRuntime and the code

A step is what the event loop runs between two awaits. The place of the worker
(`pc`) is the await it is suspended at; Python code that holds the loop runs to
its next await in one action, which is why, for instance, accepting a control
clears the verification, appends, replaces the report and sets the event in one
step (`Accept`, `runtime.py:218-244`).

| Code | Model |
|---|---|
| `_submit` | `Coalesce` (a queued volume command takes the new value and one more waiter), `Accept`, `Refuse`; `GiveUpWaiting` when the caller is cancelled |
| `async_poll` | `Poll` |
| `_async_worker`: selection | `Choose`: `Exit`, a control (`TakeAbandoned`, `TakeExpired`, `TakeExpiring`, `BeginResolve`, `BeginWrite`), `BeginVerify`, `BeginPoll`, `BeginMaintenance`, `Park`; `Wake` |
| `_async_control`: volume read | `ResolveOk` (back to the front of the queue), `ResolveFails` |
| `_async_control`: attempts | `WriteOk`, `WriteRejected`, `WriteFails`, then `NoTimeLeft`, `Retry` or `StopRetrying` |
| `_async_state_exchange` | `StateReadOk`, `StateReadFails` |
| `_async_volume_maintenance` | `MaintenanceOk`, `MaintenanceFails` |
| `_async_close_impl` | `BeginClose`, `ForceWorker`, `EndClose` |
| `self._now()` against a due time | `DeadlinePasses`, `VerificationElapses`, `AnswersAge`, `VolumeAges` set flags the code's comparisons read |
| somebody at the speaker | `SetSpeakerByHand` |

Exchanges with the speaker end with an answer, a rejection, or an error that
tells whether the request was sent; after an error with a sent write the speaker
may or may not have obeyed. This is the promise stated by `KefLine`.

`KefCalls` is what all this is for: a line of accepted commands, each with those
who wait for it, of which the first may be in execution; how each call ended; the
speaker; and whether shutdown has begun. A caller who comes last either brings a
command (`Arrive` and `Ask`) or shares the youngest one, if that is a volume nobody executes
yet (`Join`). The first command is taken in hand if somebody waits for it
(`Take`), fails untried otherwise or when it is late (`Skip`), and ends with one
answer for all who share it (`Answer`); a result means that the speaker
acknowledged the command and, where `AcksObeyed` is TRUE, obeyed it; an error that it
may have. `CallsServed` says that every step of the runtime is
one of these, or is not seen by callers, when the line is the control in hand and
then the queue (`InOrder`), and what callers know of a control is its kind, its
waiters and the value they named (`Group`). A control that goes back to the head
of the queue after its volume was read (`PutBack`) keeps its place in the line. Polls,
verification, the delay before a retry and the attempts that were not received
are not seen. `Forget` and what `PutBack` may do while shutdown is under way are
the two gaps of the first finding below.

### KefClient and the code

`stage[o]` is the await an operation is suspended at: the lock, connecting,
reading, `wait_closed`, the reconnect delay. The lock is a sequence, its holder
first, because `asyncio.Lock` is fair. When a connection is accepted the speaker
chooses what it will send, as a sequence of frames and then perhaps junk, bytes
with which no frame begins (`Described`; `EveryStreamDescribed` proves that every
sequence of bytes is one of these, so nothing is assumed of the speaker), and each
`Read` takes any number of the bytes not yet read, so that every way TCP may cut
or join frames occurs. `Parse` is the loop of `FrameParser.feed`: it works on
bytes and knows nothing of the pieces, which the properties compare it with.
Cancelling an operation is a step at each of its awaits; in the cleanup it skips
what is left of the cleanup ("cut"). So does an operation that times out or is
cancelled in the moment in which the speaker accepts its connection
(`ConnectAbandoned`): there is no writer yet, asyncio closes the socket, and the
speaker sees a connection that comes and goes.

`KefLine` keeps of all this who is on the line, which requests were received and
how each operation ended. `LineKept` says that every step of the client is one
of `KefLine` under the mapping in `KefClient` (the user is the operation whose
stage is on the line).

### KefCoordinator and the code

Entities read `coordinator.data` and nothing else (`entity.py:30-32`,
`sensor.py:84-95`). It is assigned in two places. `_publish` calls
`async_set_updated_data` in the step in which the runtime changed its snapshot
(`runtime.py:697-699`), so each action of the runtime that publishes is conjoined
with `Publishes`. And what `async_poll` returned (`coordinator.py:27-29`) is
stored by the task that awaited it, which the event loop resumes later: the
future holds the snapshot of the moment at which the poll was answered
(`runtime.py:691-695`), kept in `onItsWay` until `Store`. The first poll is
awaited by setup, which stores the snapshot of the moment it resumes
(`runtime.py:722`).

Between answer and `Store` anything may run that is ready within two rounds of
the event loop: callers, timers, the worker, and failures that need no network.
The one thing excluded (`Delivered`) is another answer of the speaker, which
takes a connection and thus more rounds than the task needs to resume. A read
that failed answers its polls before the verification is accounted for
(`runtime.py:293-300`), hence `FailedRead`.

### KefEntries and the code

Home Assistant holds an entry's setup lock while it sets the entry up, reloads
or removes it; `lock` and `phase` are what that task is doing and how far it is.
`async_setup_entry` is `Setup`, `FirstPoll` (the worker answered, whatever the
speaker said), `ForwardOk`, or `ForwardFails` with the rollback of
`__init__.py:34-36`; `async_unload_entry` is `UnloadOk` with `CloseEnds`, or
`UnloadRefused`. Cancellation may come while the first poll or the rollback is
awaited. A worker is reduced to the endpoint and the options it was built from
(`runtime.py:704-717`); what it does with them is `KefRuntime`. A worker no
entry knows of any more leaves the model.

Flows take no lock. `Submit` is the form up to the probe (normalise the host,
look for duplicates, `config_flow.py:228-242`), `ProbeOk` the rest: the title is
made unique and the entry created or updated, and reloaded if it changed
(`config_flow.py:248-259`). `reload` says that at least one task waits for the
lock to reload the entry; several that wait are merged, as the second finds what
the first left. The listener for changed options exists from the end of setup
until the entry is unloaded (`Listening`, `__init__.py:38`). Hosts are what they
name and whether they are spelled canonically; a title is the name asked for and
the numbers appended to it. Entry ids are never used twice, so a free slot is
not given to a new entry while a flow still refers to the old one (`Unused`).
What Home Assistant itself does is marked as external in `PROJECT.json`.

## 3. What TLC checks

| Run | Instance | Shows |
|---|---|---|
| `rt_power` | 3 calls of turn on, turn off and set volume; 1 poll; capacity 2; 2 verification attempts; deadlines, cancellation, shutdown; a speaker that may not do what it acknowledges | calls are owned and settled once, start in time; the promise of `KefCalls`; what was sent is verified, verdicts are anchored, about the right command and truthful about the speaker; maintenance only when on; shutdown is quiet and final |
| `rt_live` | 2 calls (turn on, unmute), 2 polls, capacity 1, 2 attempts, a preferred wake source, an ageing volume and ageing answers, deadlines, a speaker somebody may switch off, shutdown; fair | controls, polls, verification and shutdown come to an end; no poll is forgotten; nothing is guessed; order of acceptance and the promise of `KefCalls`, with controls that go back to a queue that grew |
| `shown` | the runtime with its coordinator: 2 calls (select source, volume up, volume down, mute), 2 polls, volume 0..3 with maximum 2, an ageing volume and ageing answers, threshold 2, a speaker found off or on, shutdown | verification expects what was sent; hysteresis; the speaker shown is the runtime's; entities are unavailable only for a reason; no wakeup is lost |
| `client` | 2 operations and `async_close`; streams of up to 3 pieces with payloads that look like frame bytes, junk, broken-off frames, the special values of both registers; 2 frames at most; fair | the right frame answers, an error has a reason, a reading is what was sent, little is buffered, one connection at a time, refinement of `KefLine`, termination |
| `entries` | 2 entries, 2 overlapping flows, 2 endpoints, 2 sets of options, everybody asking for one name, cancellation, refused unloads; fair | an entry has a worker exactly while it may; titles differ; a loaded entry uses its endpoint, or soon does |
| `claim_*` | 1 to 3 actors, as small as the counterexample allows | section 4 |

**Bounds.** `NumCalls`, `NumPolls`, `QueueCapacity`, `VerifyAttempts`,
`FailureThreshold`, `TopVolume`, `MaxFrames`, `ReadSize` and `BufferLimit` stand
for 16 queued controls, 3 verification attempts, 4 failures, volume 100, 16
frames, reads of 1024 and a buffer of 4096 bytes. Three calls are one in hand,
one queued and one coming; the bugs listed below need two. Capacity 1 with two
calls and 2 with three make the full queue, and its overflow by the control that
came back, ordinary states. Two attempts are a repeated one and a last one. Two
inputs are the cached one and the other one; a maximum below the top volume and
a step that overshoots both ends exercise the clamps. The failure count stops
at its threshold, where the code only compares it. Two polls are that of setup
and one of the timer; a third could only be answered together with the second.
The liveness run has no callers that give up: they settle their own future and
take work away, and what they could break, a control that is lost
(`EveryCallOwned`, `CallsServed`), is checked with them in `rt_power`; that no
wakeup is lost is proved with them. The ages of answers decide about health only
and are left out of `rt_power`. The speaker is used by hand in `rt_live`:
`VerifiedIsReal` in `rt_power` and `ExpectsWhatWasSent` in `shown` compare with
what commands alone made of it. The other properties of those two runs are proved
with somebody at the buttons too (section 5). Each of the eight commands is in a
run, and the four that need the volume are in those whose calls can be put back.
The streams contain a skipped frame, a deciding one and one beyond the limit.
Two entries and two flows are the least that can collide, in an endpoint or in a
title, and each entry goes through any number of setups, reloads and removals.
Flows in all are bounded by `Flows`, so a flow that asks again after a failed
probe is in the model and a third flow is not. What the bounded number of calls
hides is starvation: callers that never pause keep verification and polls from
being served for ever, as controls always come first (`runtime.py:255`).

**Acknowledgements.** That an acknowledgement means that the command was obeyed is
what the repository says of the speaker ("Automatic SET handling mutates state
before ACK", `docs/research/testing-fake-speaker.md:67`), not something its code
can know; verification exists because it may not be so. It is a constant,
`AcksObeyed`, which is FALSE in `rt_power`: there the speaker may acknowledge a
command and stay as it was, and everything checked there holds all the same, the
verdicts first of all. TRUE is needed by one property, `ExpectsWhatWasSent`, and
by the words "and obeyed" of `KefCalls`, whose `Answer` asks for less when
`AcksObeyed` is FALSE. The proofs are for both values.

**Deadlock** is not checked in any run (`CHECK_DEADLOCK FALSE`): a closed
runtime or client does nothing any more, nor does Home Assistant with no entry
left and no flow to come, and a used-up number of calls leaves a
worker that sleeps. Liveness and `NoLostWakeup` say what must not be stuck.

**Fairness.** `KefRuntime`: weak fairness of the worker, because each of its
awaits is bounded (exchanges by the timeouts of `client.py:150-188`, the delay
before a retry by `RuntimeTiming`) and the event loop runs a ready task; of
`VerificationElapses`, because the delays are finite; of `EndClose`, the task of
`async_close`. Nothing says that the speaker ever answers: all exchanges may
fail. `ForceWorker` is not fair, since waiting for the worker must end without
it. `KefClient`: weak fairness of each operation's own progress, which includes
its timeouts and excludes anything the speaker does, and of `Close` once the
lock is free. `KefEntries`: weak fairness of each entry's task, whose awaits end:
the first poll because a failed read answers it too (`PollsSettle` of `rt_live`),
closing because it is bounded (`CloseTerminates`), the platforms because Home
Assistant bounds them. Users, flows and cancellation are not fair.

## 4. Findings

Each is a run that ends in a counterexample to something the repository says.

* `claim_capacity`: "bounded FIFO control queue (capacity 16)"
  (`docs/architecture.md:28`), "a bounded FIFO control deque (maximum 16"
  (`docs/implementation-plan.md:59`). A control whose volume is being read is not in
  the queue, so callers may fill the queue meanwhile; then it comes back
  (`runtime.py:369`) and nobody looks at the capacity, so that 17 wait. It is one
  and no more: `OverflowIsOne`.
* `claim_close`: "Every accepted future reaches result, exception, or
  cancellation exactly once" (`docs/implementation-plan.md:90`). When shutdown
  forces the worker, the worker's own `finally` (`runtime.py:260`) forgets the
  control in hand before `runtime.py:180` can cancel its waiters. The same
  happens without force: a control whose volume is being read when shutdown clears
  the queue (`runtime.py:161`) is put back into it afterwards (`runtime.py:369`),
  and the worker exits without a look at it.
* `claim_verified`: "A wake verification cannot mark a later failed power-off as
  verified" (`tests/test_runtime.py:146`) and
  `test_volume_ack_is_not_falsely_verified_by_source_get`
  (`tests/test_runtime.py:334`). Both can happen when the later command was
  accepted while the wake was in flight: the wake starts its plan afterwards
  (`runtime.py:432`), and the read finds the report of the later command. The run
  ends with an acknowledged volume that is marked as verified by a read of the
  source register.
* `claim_superseded`: "New state-changing commands supersede stale generations"
  (`docs/implementation-plan.md:140`). A verification read that fails after its
  plan was superseded schedules an empty plan (`runtime.py:300`), which ends as
  "not verified" in the report of the newer command.
* `claim_expected`: "the state expected if a control write took effect"
  (`runtime.py:498`). A power-off sends the preferred wake source but expects
  the cached one, so a speaker that obeyed is reported as not verified.
* `claim_duplicate`: "Duplicate endpoints are rejected" (`README.md:88`). The
  check comes before the probe is awaited and is not repeated
  (`config_flow.py:235`), so two flows that overlap both create an entry, and two
  workers share one speaker. A flow that reconfigures meets the same gap.
* `claim_options`: "Reload the entry after options change" (`__init__.py:52`).
  Options that are saved while the entry is being set up find no listener yet,
  and the worker has read the old ones: they are not used until something else
  reloads the entry.

More divergences are only described here.

* When junk follows a complete answer in the same chunk, `feed` raises and the
  answer is lost; in two chunks the answer counts and the junk is never read.
  `RightAnswer` and `MalformedHasReason` state what is true of both.
* "The integration clamps commands to the configured maximum before encoding"
  (`docs/protocol.md:59`), but mute, unmute and volume down send a cached volume
  that may be above it (`runtime.py:467-478`).
* The reconnect delay (`client.py:259-262`) follows an exchange whose connection was
  handed to the client. One that is given up in the moment it connects is closed
  without it, and the next operation connects at once (`ConnectAbandoned`;
  `OneConnection` makes an exception of it).
* An attempt that got no answer may have been obeyed, but when its retry is
  rejected, the control ends as rejected and is not verified
  (`runtime.py:401-412`). `VerdictToCome` speaks of the commands that were not.
* A setup that is cancelled while it waits for the first poll leaves its worker
  running (`runtime.py:722`), though "A partial setup cannot leave the
  communication owner running" (`tests/test_init.py:56`): `CancelFirstPoll`.
* A control that all its callers gave up is dropped without a word
  (`runtime.py:347`): it has superseded the verification before it, and its
  report stays pending.
* "One controller snapshot publication callback feeds" the coordinator
  (`docs/implementation-plan.md:123`). Poll results feed it too, and late: a command
  accepted between an answer and `Store` is published and then taken back, so that
  the sensor of the last command shows the one before until the next
  publication. When the read that fails is a verification, its verdict is taken
  back in the same way, without any race. `SpeakerShown` and
  `UnavailableForAReason` say what of the data this cannot reach.

## 5. What is proved

For every value of the constants that satisfies the named assumptions of
the modules, which TLC evaluates in each run: any queue capacity, number of
calls, volume range, threshold, number of attempts, operations, entries, flows.

**The runtime.** The central theorem is `InductiveHolds`. The type invariant alone is not
inductive: that the value of a command fits its register is known because the
control in hand is well formed (`ControlsWellFormed`); that changing a queued
control leaves the one in hand alone, and that a control is taken into an empty
hand, needs `AcceptanceOrder` and `ActiveWhileExecuting`; that the attempts of a
verification stay in range needs `VerificationAnchored`. `Inductive` is the
conjunction of these five; runs check four of them. Its preservation is proved by
groups of variables (what callers see, the worker, the snapshot, the rest, the
queue, verification), each with one step per action, from lemmas about sorted
queues (`PopSorted`, `AppendSorted`, `RequeueSorted`) and about the command and
health operators.

| Theorem | States |
|---|---|
| `TypeCorrect`, `OrderHolds`, `AnchorHolds`, `InHandHolds`, `WellFormedHolds` | the five parts |
| `TimelyStarts`, `QuietClosing`, `FinalClosing`, `SettledForGood` | action properties: nothing starts late or after closing, closed is final, settled once |
| `HysteresisHolds` | unavailable only with the threshold reached and a long silence |
| `PollsKnown`, `WakeupsKept` | no poll and no wakeup is lost |
| `RelativeToKnown`, `MaintenanceOnlyWhenOn`, `OverflowIsOne` | no guesses; maintenance only when on; the queue exceeds its capacity by one control at most |
| `CallsOwned` | every call that waits is in exactly one control |
| `CallsAreServed` | the runtime implements `KefCalls` |
| `VerdictsCompareOwnPlan` | a verdict compares what its own command asked for |
| `VerdictsToCome` | what was sent and not rejected is verified, acknowledged or not |
| `VerifiedHolds` | verified is what the speaker does, if nobody sets it by hand |
| `ExpectationHolds` | what is expected is what was sent, if also acknowledgements mean obedience and no command switches off |
| `RuntimeWithin` | the runtime behind its coordinator is the runtime: all of the above holds there |
| `SpeakerIsShown`, `UnavailableIsJustified` | what entities show |
| `SourceCodec`, `VolumeCodec` | decoding undoes encoding, for every source, standby time, orientation, power state, volume and mute state |
| `ChunksJoin` | fed a stream in two parts, the parser yields the frames of the whole, wherever it is cut |
| `FramesReadBack`, `EveryStreamDescribed` | frames are read back as sent; every stream is frames and then perhaps junk |
| `ConnectionsFollow`, `PromiseKept` | connections follow one another; the client implements `KefLine` |
| `ClientTyped` | the types of the client |
| `AnswersRight`, `MalformedForAReason` | the first frame that concerns an operation decides; an error has a reason |
| `SettingsReadBack`, `BufferStaysSmall` | a reading is what was set; the parser keeps less than a frame |
| `EntriesTyped`, `WorkersOwned`, `TitlesAlwaysDiffer`, `LoadedUsesItsEndpoint` | the entries, for any number of entries and flows |

**Ownership.** `EveryCallOwned` speaks of calls that wait. Inductive is that no two
controls in play share *any* call (`WaitersApart`), since a settled call says
nothing of who waited for it, and that waiters were made (`WaitersMade`), since
otherwise the next call might be in a control before it exists. Steps are sorted
by what they do to the controls: none joins and none is new (`Kept`), one is
dropped (`HeadDropped`, `HandReleased`), a caller joins or brings one.

**The promise to callers.** A step of the runtime settles whoever of a control's
waiters is not done; a step of `KefCalls` settles whoever waits. They are the same
because nobody who waits for a control in play was told anything but that the call
was given up (`WaitersOpen`), which in turn needs that controls share no call
(`Ownership`), that a call to come has no outcome (`LaterCallsFresh`), and that a
closed runtime has nothing in hand (`ClosedMeansDone`). The conjunction
(`Serving`) is inductive. The mapping turns the queue into a sequence of records
(`GroupsOf`, `OrderOf`): taking the control at the head leaves the line as it is,
dropping or ending one takes its first, joining changes its last and nothing else
(`SameGroups`). Each action of the runtime is then shown to be one action of
`KefCalls` (`HeadTakenIsTake`, `DroppedIsSkip`, `ResolvedIsPutBack`, `OverIsAnswer`,
`CoalescedIsJoin`, `AcceptedIsAsk`, `RefusedIsRefuse`, `ClosingIsShut`,
`ForcedIsForget`) or to be unseen (`Unseen`). That a write obeys the command its
callers named, although the worker has resolved it to something else, is
`WriteObeys`.

**Verification.** Four invariants carry it. `PlanOfLast`: what a plan expects of
the power state is what the acknowledged command of the report asked for; with it
a verdict (`VerdictIsReal`) is a comparison with that. `UnverifiedWhileBusy`:
while a control waits or is in hand nothing is reported as verified, so no write
makes a verified report wrong; it needs `NoPlanWhileBusy`, that a control accepted
during a read has ended the plan the read would complete. `PlanOfDevice`: the
plan expects what the speaker does, except while a later write is tried; that a
write cancelled by shutdown is no exception is `ClosingEndsPlan`. `VerdictToCome`
is inductive once it is known that only relative commands have their volume read
first (`ResolvesRelative`): otherwise a source command could fail there with its
request sent and no plan. `VerifiedHolds` and `ExpectationHolds` state their
conditions as hypotheses: `SetByHand` is FALSE, and for `ExpectationHolds`
`AcksObeyed` is TRUE and "turn_off" is not among `Kinds`, for the reason of
`claim_expected`.

**The coordinator.** `SpeakerShown` is not inductive: what is on its way is shown
next. `AllAgree` says of the data and of every result on its way that it has the
runtime's speaker and is unavailable only if the runtime has both reasons. An
answer of the speaker finds nothing on its way and is published at once; every
other step leaves the speaker alone and takes no reason away (`Unanswered`),
which is where the monotony of a failure (`FailureLasts`) is needed. Hysteresis
of the runtime carries over by `RuntimeWithin`.

**The client.** `Control` says that the lock holds whoever wants the line, once
each, that only its first is on the line, and that the state of the line and
what the speaker received fit the stages. From it `OneConnection` follows, and
that each step is a step of `KefLine` or a stutter. The bytes that are read do
not matter to either, so these two proofs do not look into `Parse`.

**The parser.** `Parse` is a recursive function on all sequences of bytes. The
theorems of the library about recursion and induction have an operator as parameter,
which the provers cannot instantiate. In their place stands induction over a *set*
of numbers (`Induction`, from the least element of a set), and from it that `Parse`
obeys its own recursion (`ParseUnfolds`): for every length there is a function that
does so up to this length (`ParserExists`), and any two agree (`ParsersAgree`).
`ChunksJoin` follows by induction over the length of the first part, with one case
for each way the loop of `feed` can go. When the second part fails, its frames are lost in both cases, but
the whole then fails as well; the theorem says exactly what is kept.

**The answers.** `RightAnswer`, `MalformedHasReason` and `ReadsWhatWasSet` speak of
an operation that ended and say nothing of one that still reads. Inductive is what
holds between two chunks (`Underway`): every piece that the parser has passed was a
frame that does not concern the operation, the buffer is exactly what lies between
the end of the last such frame and the bytes taken so far, and that is less than
a frame. `ParseStream` carries it over a chunk: fed with the buffer and the next
bytes, the parser yields the pieces that end there, in order, and fails only at
junk. It rests on the layout of a stream (`Layout`: where each piece begins and
ends). `Quiet` says that nothing is left of an exchange when the next one
begins, `Asking` that a request is there to compare with, and `Control` that
only the holder of the lock reads.

**The entries.** `Owned`, the types and `TitlesDiffer` are inductive only with
`Vacant` (nothing is left of an entry that is not there) and `UpToDate`, which
says of an entry *from the beginning of setup on* that its worker has its
endpoint or a reload waits; `EndpointInUse` says so of loaded entries only. That
a free title exists among the suffixes tried is a pigeonhole argument over the
finite set of entries (`TitleIsUnused`).

**Only model-checked** is all liveness (`ControlsSettle`, `PollsSettle`,
`VerificationConcludes`, `CloseTerminates`, `OperationsEnd`, `CloseEnds`,
`ReconfigureTakesEffect`), since the prover handles neither ENABLED nor fairness.
Every invariant and every action property that a run checks is also proved.

## 6. What is not modelled

* Time itself. Deadlines, delays and ages are flags that may rise at any moment,
  so every order of timeouts and answers is covered, but no statement about
  durations is. In particular an answer is applied at the moment it arrives: the
  client's cleanup and reconnect delay, up to 0.45 s in which a deadline may
  pass, come after it in `KefClient` and are not a separate wait in `KefRuntime`.
* Standby time and orientation in the runtime (no decision there reads them;
  the codec has them), time stamps and error names in the snapshot, the wording
  of errors.
* An exception other than `LsxError` in the worker, for instance a `ValueError`
  of an encoder.
* The services of the media player: each calls one control method of the runtime,
  which is `Accept`, `Coalesce` or `Refuse`, and translates errors. Its views, and
  those of the sensors except availability and the status of the communication,
  are single fields of the data that `SpeakerShown` compares.
* Home Assistant's own bookkeeping: retries of a setup are reloads at any time
  (`AskReload`), a refresh of the coordinator that fails cannot happen while the
  runtime is open.
* The content of options: percentages, the choice of standby time.
* Diagnostics and constants have no behaviour.

## 7. Plan

1. Health with an integer clock, refining the flags of `KefHealth`; bounds the
   lag between growing stale and being shown as stale.
2. The mapping from the outcomes of `KefLine` to the exchanges of `KefRuntime`, so
   that the two specifications compose.

# A TLA+ development of SoapySidekiq

SoapySidekiq is a SoapySDR driver: a C++ class, `SoapySidekiq`, that maps the
SoapySDR device API to the `libsidekiq` SDK.  This directory holds TLA+ modules
that model its stateful parts, TLC configurations that check them on small
instances, and TLAPS proofs about the models for every instance.

Paths below are relative to the repository (`src/` in `PROJECT.json`).

## 1. The system

| Part | State it keeps | Operations | Hard behaviour |
|---|---|---|---|
| TX streaming (`TxStreaming.cpp`, TX half of `Streaming.cpp`) | stream token, `tx_stream_active`, admission gate and counters, PPS start result, ring of blocks with a status per slot, generation-owned completion bookkeeping, underrun baseline | `setupStream`, `activateStream`, `writeStream`, `readStreamStatus`, `deactivateStream`, `closeStream`, destructor; SDK completion callback; PPS worker | five kinds of threads, three mutexes, two condition variables; late and out-of-order callbacks; stop against admitted calls; back-pressure; failed SDK stops |
| RX queue and session (`RxSampleQueue`, `RxStreamSession`, `RxStreaming.cpp`, RX half of `Streaming.cpp`, `SidekiqRxBackend`) | bounded queue of blocks with running/failed flags, hardware ownership, worker thread, captured timing | `activate`, `deactivate`, `configureInactive`, `read`, `shutdown`; `receiveLoop` | overrun with a partly read front block, failure with sleeping readers, rollback of a half-done activation, a setter racing an activation |
| Device lifecycle (`DeviceLifecycle.cpp`) | SDK initialization, registered callback | constructor, destructor | rollback after a failure at any step; order of shutdown |
| Settings, RF controls, time and clock (`Settings.cpp`, `RFControls.cpp`, `TimeClock.cpp`) | driver caches of SDK settings; the card's rates, clocks and counters | getters and setters | a setter that writes several SDK values and compensates when one fails; a read, a write and a check against other threads' setters and RX activation; an update that waits for a PPS edge; two reads without a lock |
| Sensors (`SensorReader`) | the accelerometer's enable bit, in the card | `readSensor` | balanced enable and disable, shared by concurrent readers |
| Timestamp arithmetic (`TimestampRate.hpp`, `TimestampConversion.hpp`) | none | ticks to nanoseconds and back | overflow at 64 bits, truncation |
| Stream configuration (`StreamConfiguration.cpp`, `setupStream` … `closeStream` in `Streaming.cpp`) | the open stream of each direction, format, payload size, TX ring, I/Q order and TX settings of the card | validation, setup, activation, deactivation, close, `writeSetting("iq_swap")` | fields assigned before calls that can still fail; writes that fail after they took effect; handles known by their address |
| Discovery (`DeviceDiscovery.cpp`, `Registration.cpp`) | none that survives a call | enumeration, serial and availability of each card, filters | some cards fail, some do not, while other processes open and close them |
| Device options, sample conversion, text helpers | none | parsing, scaling, formatting | - |

How they interact.  The TX and RX halves share the device object and the SDK
card, and no lock.  RX setters go through `configureWhileRxInactive`, which holds
the RX session's lifecycle mutex; the RX worker never takes that mutex.  The SDK
calls `tx_complete_callback` on threads of its own, with a context that owns its
block and the bookkeeping (`TxCompletionState`) of the stream generation it was
accepted in, so that a callback after close, reopen or destruction still has
something to write to.  The destructor stops TX, then RX, then unregisters the
callback and leaves the SDK.

### What makes each part correct

* TX: a block belongs to the driver, the writer or the SDK, never to two of them;
  a stop ends, and when it joins the worker and stops the hardware no admitted
  call is left; nothing is sent to hardware that does not run; what a write
  returns is what the SDK accepted; each underrun is reported once; nothing runs
  without a token that can stop it.
* RX: within a session readers see one line of samples, in order and without
  repetition, and every missing sample was dropped from a full queue; a session
  never sees blocks or timing of another; every waiting reader is released by a
  stop or failure, or finds the next session already begun; nothing runs without a
  token.
* Waiting: whoever waits for something is woken when it has happened; a stop ends
  unless it has to join a PPS start whose edge does not come, and so does a write,
  if the SDK completes what it has accepted.
* Configuration: a setter either takes effect or leaves the previous values, or
  says that it could not restore them; two setters do not undo each other; no
  setter changes what RX converts timestamps with.
* Streams: an open stream is served as its own setup asked, hardware always has a
  stream that can stop it, and starts only on a card that is configured.
* Device: the SDK is initialized while anything uses it, and released by a failed
  constructor and by the destructor; the accelerometer is switched off again.
* Discovery: one card's failure neither hides nor invents another card.
* Arithmetic: the exact truncated value, or a refusal, never a wrapped one.

## 2. Modules

| Module | Models |
|---|---|
| `TxStream` | the whole transmit path, one action per critical section or SDK call |
| `TxOwnership` | what `TxStream` promises about its blocks: an abstract specification without threads or locks |
| `TxStreamMC` | model values of the TX runs |
| `TxStreamProofs` | theorems about `TxStream` |
| `RxSession` | queue, session, worker, readers, guarded setters and the RX stream token |
| `RxHandoff` | what `RxSession` promises its readers: a lossy line of samples |
| `RxSessionMC`, `RxSessionProofs` | model values of the RX runs, theorems about `RxSession` |
| `StreamSetup` | opening, starting, stopping and closing streams of both directions as sequences of SDK calls, and the I/Q order they use |
| `StreamSetupMC`, `StreamSetupProofs` | its model values, its theorems |
| `DeviceControl` | construction, rollback and destruction of a device; the setters under the lifecycle mutex (rate, bandwidth, time source, clock source, timetype, hardware time) against each other and RX activation |
| `CardReaders` | extends `DeviceControl` with the calls that use the card without that mutex: two-read getters and the accelerometer |
| `DeviceControlProofs`, `CardReadersMC`, `CardReadersProofs` | their model values and theorems |
| `SettingTransaction` | setters of several SDK writes: counter source, DC-offset mode, gain, gain mode, I/Q order |
| `SettingTransactionProofs` | its theorems |
| `Discovery`, `DiscoveryMC`, `DiscoveryProofs` | enumeration of cards and what is reported of each; its model values and theorem |
| `TimestampMath` | the portable timestamp arithmetic with words of a given width, and the time of a sample inside a block |
| `TimestampMathMC`, `TimestampMathProofs` | its constants, its theorems |

What composes what.  `CardReaders` is the composition of the device, its setters,
RX as setters see it, and the lock-free readers: its `DeviceStep` is a step of
`DeviceControl`.  `TxStream` and `RxSession` each are the composition of all threads
of one direction; they share nothing but the card.  `StreamSetup` treats both
directions together and reduces each to what opening, starting and closing can
see of it.

### TxStream and the code

The threads are one writer (`SoapySidekiq.hpp:438,470`: callers serialize
writes), the set `Pollers` of threads in `readStreamStatus`, one control thread
for setup, activation, deactivation, close and destruction, the PPS worker, and
the SDK.  `wpc`, `ppc`, `cpc` and `pps` are where they are; the names of the other
variables are the source's.

An action is what a thread does under one mutex, or one SDK call.  A mutex held
within one action needs only a guard that it is free.  The exceptions are the
threads that wait on a condition variable: between a false predicate and the
sleep they still hold the mutex, and a notification in that window finds nobody.
So `SlotTest` with a false predicate goes to `slotBlocking` (mutex held), then
`slotAsleep`; `NotifyCompleted`, `NotifyStop`, `NotifyLeft`, `NotifyPollLeft` and
`PpsNotify` wake only sleepers, and are steps of their own wherever the code has
released the mutex before `notify_all`.

| Code | Actions |
|---|---|
| `writeStream` | `WriteCall` (token checks, admission), `CheckRequest`, `PpsTest`, `SlotTest`, `PreparePacket`, `Transmit`, `ReleaseReservation` (ScopeExit), `FullTest` (QUEUE_FULL back-pressure), `Advance`, `LeaveWrite` and `NotifyLeft` (ScopeExit), `WriterDeadline`, `BlockWriter`, `WakeWriter` |
| `tx_complete_callback`, `completeTx` | `Complete`, `NotifyCompleted` |
| `readStreamStatus` | `PollCall`, `LockStatus`, `CheckStart`, `ReadUnderruns`, `CompareUnderruns`, `PaceTest`, `LeavePoll`, `NotifyPollLeft`, `PollerDeadline` |
| `tx_streaming_start` | `PpsEdge`, `PpsPublish`, `PpsNotify` |
| `setupStream` | `SetupStream` |
| `activateStream` | `ActivateStream`, `StartNow`, `ResetBaseline`, `ArmPps`, `SpawnPps`, `CloseGate`, `OpenAdmission` |
| `stopTxWrites`, `stopTxStream`, `shutdownTx` | `StopCall`, `CloseAdmission`, `NotifyStop`, `Drain`, `JoinPps`, `StopHardware`, `FinishStop` |
| the card | `Underrun`, `CounterReset`, the outcomes of `Transmit`, `StartNow`, `PpsEdge`, `StopHardware` |

Stream generations: `tx_completion` is the number of the current bookkeeping
(0 is the constructor's), `slots[g]` the statuses of generation g, and `inflight`
the contexts `<<g, i>>` the SDK owns.

What is abstracted: the payload (a block is its index in the request); calls that
are refused and change nothing (closed gate, refused activation or close); the
completion counter, of which only "has changed since the reservation" is kept
(`progressed`; `sdk_completed` names, for the properties, the generations that
completed a block since then, while the writer was in its attempt); the callbacks
between their last store and `notify_all`, of which `unnotified` keeps whether the
current generation has one (a late notification of a closed generation wakes nobody,
for its sleepers have left); the poller's wait of at most 1 ms, one step; SDK
configuration calls before a start, any of which may fail (`ActivateStream` then has
no effect beyond what the code has already written).

For the properties only, `accepted` lists the blocks of a call that the SDK took, and
`unread`, `fell_back` and `due` say what a reading of the underrun counter calls for:
whether an underrun has happened, and whether the counter has fallen back, since the
reading before.  Only with both can the driver not tell, and its comment claims no
more (`TxStreaming.cpp:477`: it rebases so that future increments remain visible).

### RxSession and the code

The lifecycle thread is whoever holds `lifecycle_mutex_`; `cpc` and `cop` are its
step and operation.  The worker's `wpc` follows `receiveLoop`; a reader's `rpc`
follows `RxSampleQueue::read`, with the same blocking/asleep pair as above.
Samples are numbered in push order; a block is its first number, its read offset
and, for the properties only, its session.  `timing` stands for all device
settings that timestamps depend on, with values in `Timings`, and `Configure` for
every setter wrapped in `configureWhileRxInactive`.  A read that may have a deadline
returns a timeout whenever it finds no samples; one without sleeps on.

Left out: sample values and their conversion; the timestamp computed for a read,
which is a function of the position `first` and is the subject of `BlockTime` in
`TimestampMath`.  `ReadTest` has the branch in which `blockTime` finds that time
unrepresentable and throws out of the read.  `Requests` is the set of sample counts
a read may ask for, and `ended` records, for the properties, in which session a
sleeping reader was when it failed.  A read request of 0 elements returns at once
and is not an action.

### DeviceControl and the code

`stage` counts through `ConstructorSteps`, the SDK calls of the constructor in
their order (reads of one kind are one step).  Each may fail: `ConstructFails`
before `skiq_init` has succeeded leaves nothing, later it goes to `Unwind`, which
runs the two `ScopeExit` guards in reverse, in two steps.  The last step is the log call after
the registration, whose sink may throw.  `DestroyStep` follows the destructor.

`lock` is `lifecycle_mutex_`.  A setter is `SetterCall` (`configureInactive`: lock
and RX test; a refused call changes nothing and is not an action), then its SDK
calls one by one, then `Unlock` at the end of the scope.  RX is reduced to what
setters can see: `starting` under the mutex, `active`, and `owned` after a stop
that failed; `RxSession` has the detail.  `timing` is the card's configuration,
one rate and bandwidth for both directions because their clocks may be coupled.
A failed SDK write may have taken effect; `Configured` says the same of the
constructor's optional sources.

| Code | Actions |
|---|---|
| constructor, `initializeTxCallbacks` | `Construct`, `ConstructStep`, `ConstructFails`, `Unwind` |
| destructor | `Destroy`, `DestroyStep` |
| `activateConfigured`, `deactivate` | `ActivateRx`, `RxStarted`, `DeactivateRx` |
| `setSampleRate`, `setBandwidth` | `SetterCall`, `ReadPrevious`, `SetterWrite`, `Observe` (the readback), `Unlock` |
| `setTimeSource`, `check_1pps` | `SetterCall`, `SetterWrite`, `KernelWrite` (the fallback), `Observe` (two readings a second apart), `Unlock` |
| `setClockSource`, `writeSetting("timetype")` | `SetterCall`, `SetterWrite`, `Unlock` |
| `setHardwareTime` | `SetterCall`, `ReadPrevious` (the frequency), `SetterWrite` (at once, or scheduled), `Unlock`; `PpsEdge` is the edge a scheduled update waits for |
| `getHardwareTime`, `getReferenceClockRate` | `FirstRead`, `SecondRead` |
| `readAccelerometer` | `EnableAccelerometer`, `ReadAccelerometer`, `DisableAccelerometer` |

`counters` keeps of the timestamp counters whether an update is scheduled and, for
the property, whether one was when RX was activated and whether they have been
set since.  `seen` and `owned` of a reader say what its first read found and whether
RX has owned its hardware since; `alone` names the sensor readers no other has
overlapped, for the enable bit is shared and overlapping readers do switch it off
under each other (`SensorReader.cpp` takes no lock).

### StreamSetup and the code

One thread makes the calls; between two of them the receive worker may fail and a
PPS start may end.  A token is an address: `Publish` allocates one that is not in
use, also that of a stream closed before.

| Code | Actions |
|---|---|
| `validateStreamRequest` and the checks of `setupStream` | `Admitted` |
| `setupStream` | `SetupRx`, `SetupTx`: fields are assigned before the calls that can fail |
| `activateStream` | `ActivateRx`, `ActivateTx` (four settings in order, then the start) |
| `deactivateStream`, `closeStream` | `DeactivateRx`, `CloseRx`, `DeactivateTx`, `CloseTx` |
| `writeSetting("iq_swap")` | `WriteIqSwap` |
| receive worker, PPS thread | `WorkerFails`, `PpsStartEnds` |

`card.order` and `card.tx` are what the card has been told; a write that fails may
have reached it or not.  For the properties, `asked` is what the setup of the open
stream asked for and found, and `doubted` says that the last write of the I/Q order
has failed.  Setup and activation write the order only when `iq_swap` is TRUE
(`Streaming.cpp:162,435`), so a failed `writeSetting("iq_swap", "true")` over a
setting of FALSE can leave the card in the other order, and streams then open and
start on it: `StartsConfigured` names this case as its exception
(`OrderUnnoticed`).

### Discovery and the code

`Find` is `findSidekiq` up to the list of cards, which the SDK gives in any order;
`ReadSerial` and `CheckAvailability` are the two calls of the loop for the card in
hand, each of which may fail; `Return` logs and returns.  `OthersMove` lets other
processes open and close cards while it runs.  `truth` remembers, for the property,
what each answer was about.

### SettingTransaction and the code

A setter is the list of writes it will make, its `plan`, computed from what it
reads first.  `Write` makes one; it may fail, and a failed write may have reached
the register.  The counter and DC-offset setters then undo the attempted writes,
newest first (`Restore`), and throw an exception that names a failed restoration
(`Throw`); `setGain`, `setGainMode` and `iq_swap` throw at once.  `Commit` is the
end of a call all of whose writes succeeded, where the caches take their value.
The registers of one channel stand for those of all, except the counter source,
which one call writes on every channel.

Three variables are for the property `CacheAgrees`.  `standing` is the source of each
channel that the last successful counter call selected or, before the first, that the
card came up with: the constructor does not write it, and `readSetting` then answers
FALSE whatever it is (`selected`, `SelectedSource`).  `doubtful` names the cached
settings whose last failed call left the card in doubt: a counter call whose
restoration failed, which its exception says, and any failed write of the I/Q order,
which nothing undoes.  A register is what the SDK was told; a counter source takes
effect at the next RX start (`README.md:250`).

### TimestampMath and the code

A step of `DivideStep` is an iteration of the loop of `multiplyDivide`, and of its
copy in `ticksToNanoseconds`, with every intermediate reduced modulo
`2^Width`; `Convert`, `AddFraction` and `AddNanoseconds` are the code between the
divisions; `NanosecondsToTicks` has no loop and is one step; `BlockTime` and
`CarryNanosecond` are `RxSampleQueue::blockTime` for a block whose time `pushTicks`
has converted, with the two conversions by their exact values and the division of
the carry step by step.  `Width`, `Billion` and
`BillionBits` are constants so that TLC can try every input with small words;
`TimestampAssumption` says what the source's values 64, 10^9 and 30 satisfy.

### The caller's contract

The models keep what the code documents as the caller's part: writes and
activation are serialized, and `setupStream`, `closeStream` and the destructor
never run while another call on the same stream has not returned
(`NoCallInProgress`, `NoReader`).  `deactivateStream` may come at any time.
Setters that take no mutex (`SettingTransaction`) run one at a time; those under
the lifecycle mutex run from any thread.  A process has one device at a time,
because `skiq_exit` is process-wide (`docs/SDK_LIFETIME.md`), and destroys it when
no call is in progress.

## 3. What the runs check

| Run | Instance | Shows |
|---|---|---|
| `tx_ring` | no poller, 2 slots, 1 block per request, 2 generations, with fairness | `TypeOK`, `SlotOwnership`, `SubmitsToRunningHardware`, `HardwareOwned`, `NoWakeupLost`, `OwnCompletionsSeen`, `WriteReturns`, and that `TxStream` implements `TxOwnership` |
| `tx_status` | 2 pollers, no data, 1 generation, 2 underruns per start | `UnderrunsReportedOnce` |
| `tx_drain` | 1 poller, 1 slot, 2 blocks per request, 1 generation, with fairness | `Drained`, `AcceptedPrefix`, `StopCompletes`, with pollers and a writer inside their calls and the ring full |
| `tx_reopen` | 1 slot, 2 generations | `FullWaitSeesCompletions` is violated across a reopen (section 6) |
| `rx_queue` | 1 reader, 2 blocks of 2 samples, requests up to 3, 2 timings, 4 pushes, 2 sessions | `QueueWellFormed`, `TimingStable`, `HardwareOwned`, `FailureEndsWait`, and that `RxSession` implements `RxHandoff` |
| `rx_waits` | 2 readers of 1 block, capacity 2, 2 pushes, 2 sessions, with fairness | `NoWakeupLost`, `ReadersReleased`, `StopCompletes` |
| `rx_slow_wake` | 1 reader, 2 sessions | `FailureSeenByWaiters` is violated across a restart (section 6) |
| `streams` | 3 addresses, 2 channels, 2 payload sizes | `ServedAsAsked`, `HardwareHasStream`, `StartsConfigured` |
| `device` | 2 threads that set, 2 that read, 2 rates | `TypeOK`, `SdkLifetime`, `SuccessHolds`, `TimingAsCaptured`, `SetOnlyIfArmed`, `ReadsAgree`, `AccelerometerBracketed`, `OnlyRateSettersChangeRate` |
| `settings` | 3 RX channels, 2 gain indices | `TypeOK`, `FailureRestores`, `CacheAgrees`, `SharedCalibrationKept` |
| `discovery` | 3 cards | `EveryCardReported` |
| `timestamps` | words of 7 bits, 10 nanoseconds to the second | `TypeOK`, `DivisionExact`, `ExactOrRefused` for every input, `BlockTimeExact` for 6 rates and 5 offsets at every time |

Why the bounds are enough.  Two slots are the smallest ring that wraps and has a
slot in flight beside the writer's, which a request of one block after another
fills; two blocks are the smallest request with a proper prefix, and with one slot
the second waits for the first; two generations are the smallest with a late
callback of a closed stream (a third adds only another one that is closed).  A stop
drains a poller and a writer, the two kinds of call there are.  Two pollers race for
one underrun; two underruns let one be reported while the other is new, and lie on
both sides of a reset of the counter.  RX:
with capacity 2 and 2 samples per block, requests of 3 end inside a block, at its
end and across two; 4 pushes overrun the queue twice; two sessions give stale
blocks, timing and failures somewhere to go.  Two readers and two
blocks are the smallest case in which one notification has to find a second
sleeper, and which one is already awake matters; with a second session a reader can
be slow enough to find its wait begun anew.  Two threads are enough for a
read-modify-write race, two rates for one to undo the other; two readers overlap
on the accelerometer.  Three addresses let both directions be open and one token
be stale; the second payload size and channel are what a refused setup could
leave behind.  Three channels give a failing write one handle before and one after
it, and two restorations of which either may fail; three cards put a failing card
before, between and after others.  Seven bits leave `Billion * Billion` below a
word, as 10^18 is below 2^64, and let every sum of two words wrap; the block rates
are above and below the scaled billion, fractional, and near the limit of the
word.

Symmetry is used for the two pollers of `tx_status`, the two threads of each kind
of `device` and the addresses of `streams`: no action or property singles one out,
and none of these runs checks liveness.  Deadlock is checked in every run.  In the
stream models a destroyed device with no context in flight (`Quiet`) is the only
state without further steps.

### Fairness

`Fairness` in `TxStream` says: threads run and SDK calls return (weak fairness of
the writer, and of the wake-up by a deadline that has passed); a thread that finds a
mutex free again and again gets it, and a notification due is given (strong fairness
of the pollers, the PPS worker after its edge and the control thread).  That the SDK
completes each block it has accepted is a further assumption, made by
`CompletingSpec` and only for `WriteReturns`: `docs/SDK_LIFETIME.md:35-40` leaves open
whether it does after a stop.  `StopCompletes` is checked without it: a stop wakes the
waits itself, whatever becomes of the blocks in flight.

What nobody owes: a call, a deadline, a spurious wake-up, an underrun, and the PPS
edge.  `README.md:319-320` and `docs/RELEASE_NOTES.md:77-83` say that a pending PPS start can keep
a stop waiting, so `StopCompletes` and `WriteReturns` say it too: a stop ends or is at
the join of a worker still in the SDK (`AwaitingEdge`); a write returns, or waits for
that edge.  `WriteReturns` has a second exception, `Stranded`: a QUEUE_FULL wait with
no block of the writer's own stream in flight and none completed since its
reservation, where blocks of closed streams fill the queue and only a stop or the
deadline ends the wait.  The `tx_reopen` run shows a way there; with one stream it
cannot arise, for a full queue then holds blocks of that stream.

`Fairness` in `RxSession` is the same for readers, the worker (whose receive has a
finite SDK timeout) and the lifecycle thread; blocks are not owed.  `ReadersReleased`
says that a reader asleep in a queue that has ended returns, or wakes to find that
the next session has begun, which `rx_slow_wake` shows to happen.

## 4. What is proved

All theorems hold for every value of the constants that the named assumption of the
module admits; `tlapm` checks every leaf.  Liveness under fairness is out of the
prover's reach and is only model-checked.

### The transmit path (`TxStreamAssumption`)

For every finite set of pollers, ring size, request size, number of stream
generations and number of underruns:

| Theorem | States | Argument |
|---|---|---|
| `TypeCorrect` | `TypeOK` | not inductive alone: a decremented counter stays natural only because it counts the admitted calls, and `curr_block` stays in the request only because a call at work has a block left. `TypeInv` adds both |
| `AdmissionCorrect` | `AdmissionCounts` | part of `TypeInv` |
| `StopsAlone` | `Drained` | `DrainInv`: the gate a stop has shut stays shut until it ends (`GateShut`), so nobody enters between `Drain` and `FinishStop`; `Drain` reads counters that by `AdmissionCounts` are zero only when nobody is inside |
| `BlocksOwned` | `SlotOwnership` | the writer reserves a free slot, which the SDK does not own; a callback clears the slot of its own generation, which the writer does not hold |
| `KeepsOwnershipProtocol` | `ImplementsOwnership` | the refinement: on `SlotOwnership` and `GenerationInv` (writes and contexts belong to a stream that was set up), each action of the writer or of a callback is one step of `TxOwnership`, and everything else leaves `Owner` alone (`UnseenFrame`) |
| `TxHardwareKeepsOwner` | `HardwareOwned` | `HardwareInv` follows hardware and worker through an activation and a stop, step by step; a failed stop keeps `tx_stream_active`, which refuses the next start and the close |
| `SubmitsOnlyWhileRunning` | `SubmitsToRunningHardware` | `SubmitInv`: an open gate means that a start has succeeded or `first_transmit` still has to be tested; the PPS result is final until a stop, and a stop reaches the hardware only after the drain |
| `WritesAnswerForAccepted` | `AcceptedPrefix` | `PrefixInv`: between its steps a call has exactly the blocks before `curr_block` accepted |
| `UnderrunsAccounted` | `UnderrunsReportedOnce` | `CountInv`: between readings the baseline is what the counter was last read as, or 0 before the first reading of a start; the counter is above it if an underrun has come since and it has not fallen back, and not above it without one (`Agrees`).  A poller that compares holds `tx_status_mutex`, so neither the baseline nor a start comes between its reading and its comparison (`ReadingInv`) |
| `EveryWaitIsWoken` | `NoWakeupLost` | one invariant per condition (`PpsWait`, `RingWait`, `DrainWait`): a thread falls asleep one step after its test, and the mutex it holds meanwhile keeps the test false |
| `NoCompletionSleptThrough` | `OwnCompletionsSeen` | `SeenInv`: a completion of the writer's generation since the reservation is in the count it compares; `RingWait`: it goes to sleep only with that count unchanged |
| `OneStreamSeesCompletions` | `FullWaitSeesCompletions`, for `MaxStreams = 1` | with one generation no completion is foreign (`ForeignInv`, `GenerationInv`), so the theorem before covers all |

### The receive path (`RxSessionAssumption`)

For every finite set of readers, capacity, block size, set of request sizes, number of
pushes and of sessions:

| Theorem | States | Argument |
|---|---|---|
| `HardwareKeepsOwner` | `HardwareOwned` | `OwnerInv` ties hardware, `active` and the worker to the step of the activation or stop in progress; a rollback or stop that fails keeps `active` |
| `SessionTimingStable` | `TimingStable` | part of `OwnerInv`: setters need the lifecycle mutex and rest |
| `QueueKeepsLine` | `QueueWellFormed` | `QueueInv` on the queue as a sequence of consecutive blocks (`EmptyLine` and its companions say what push, drop and read do to one) |
| `HandsSamplesOver` | `ImplementsHandoff` | the refinement: push, read and restart are the three steps of `RxHandoff`, the number of blocks it computes from `head` and `tail` is the length of the queue, and no other action moves either |
| `EveryEndAnnounced` | `EndsAnnounced` | `BlockedInv`: a reader that is about to sleep still finds its predicate false; `SleepInv`: one that sleeps in an ended queue did so before the end was announced, and the thread that ended it is still on its way to `notify_all` |
| `FailureEndsEveryWait` | `FailureEndsWait` | `EndedInv`: the session a sleeper saw fail is over or its failed flag still stands, for only the next start clears it |
| `OneSessionFailureSeen` | `FailureSeenByWaiters`, for `MaxSessions = 1` | with one session there is no later one to wait on into |
| `EveryBlockAnnounced` | `SamplesAnnounced` | each push adds one block and one notification, each read of whole blocks takes at least one block for the reader it puts to rest; `WholeInv` keeps the front block whole |
| `NoReaderLeftAsleep` | `NoWakeupLost` | the conjunction of the two before |

### Devices, settings, streams, discovery, arithmetic

| Theorem | States | Argument |
|---|---|---|
| `CapturedTimingHolds` | `TimingAsCaptured` | `MutexInv`: exactly the thread inside a setter, or an activation, holds the mutex; a setter finds RX inactive; so none writes while anything is captured |
| `SuccessfulSettersHold` | `SuccessHolds` | `WroteInv` extends success to the time from the write to the return: asking again for what was written changes nothing (`RequestedAgain`), and nobody else is inside |
| `BandwidthKeepsRate` | `OnlyRateSettersChangeRate` | `RateInv`: the rate a bandwidth setter has read is still the card's when it writes it back |
| `UpdatesArmedBefore` | `SetOnlyIfArmed` | an update scheduled while RX is inactive is remembered by the activation; none can be scheduled later |
| `SdkBracketsUse` | `SdkLifetime` | `CallbackInv` and `SdkInv` tie what is acquired to the step reached; the callback's guard has run before the SDK is left |
| `DeviceTyped` | `TypeOK` | `CallerInv`: a rate or bandwidth setter at its write has read a pair of rates the card can do, and only the time source reaches the kernel; with it the typing of the card (`CardInv`) and of the host (`HostInv`) is inductive |
| `ReadersKeepDevice` | `ReadersSpec => Spec` | every reader's step leaves the variables of `DeviceControl` alone, so the theorems above hold in `CardReaders`, the specification that the `device` run checks |
| `UnlockedReadsAgree` | `ReadsAgree` | while RX owns hardware no setter can hold the mutex, so the basis of both reads stays |
| `SensorBracketed` | `AccelerometerBracketed` | a successful enable always leads to the disable; a thread is in `alone` only while no other is in its cycle |
| `StreamsServedAsAsked`, `HardwareKeepsStream`, `StartsOnConfiguredCard` | `ServedAsAsked`, `HardwareHasStream`, `StartsConfigured` | a setup needs a closed direction, hence assigns fields only when no stream uses them; a token is dropped only with the hardware at rest; the settings are written in order and a start follows the last; `CardInv`: an order of FALSE without a failed write stands on the card, and one of TRUE is written again before use |
| `SettingsTyped` | `TypeOK` | `CardTyped` and `Fitting`: what a plan and a snapshot hold fits the register they name, so a write or a restoration keeps every register in its kind |
| `RestoresOrReports` | `FailureRestores` | `RestoreInv`: registers no attempted write names are as in the snapshot; a restoring write shrinks the attempted part by one and puts that register back, or sets `lost` |
| `CalibrationShared` | `SharedCalibrationKept` | `PlanInv`: what each setter may write (`Fits`), computed from what it has read |
| `CachesTrue` | `CacheAgrees` | `CacheInv`: the cache agrees with the card between calls and with the snapshot during one; the part of the plan already written agrees with the new value; registers a plan does not name are untouched (`Elsewhere`) |
| `EveryCardIsReported` | `EveryCardReported` | `ReportInv` says of the cards before the one in hand what the property says of all, and that no answer concerns a card not asked yet; no card comes twice in the list |
| `WordsTyped` | `TypeOK` | part of `ArithmeticInv`: that an intermediate is a word follows from what it stands for (`DivisionInv`, `ConversionInv`, `BlockInv`), not from its reduction alone |
| `LongDivisionExact` | `DivisionExact` | `DivisionInv` relates quotient and remainder to the part of the multiplier already seen and bounds the quotient by the product it stands for, so that no intermediate wraps; for every word width |
| `ConversionsExact` | `ExactOrRefused` | `ConversionInv`: whole seconds and the division under way stand for the argument exactly, and the seconds stay within the limit that keeps their nanoseconds in range (`TooManySeconds`: above it nothing fits); `nanosecondsToTicks` splits at `Billion` so that no product reaches the word |
| `SampleTimesExact` | `BlockTimeExact` | the carry is due exactly when the two phases reach one, which the rounded-up quotient decides without their common denominator; for every word width, all rates and offsets |

### Only model-checked

* Liveness: `WriteReturns`, both `StopCompletes`, `ReadersReleased`.  The two
  `NoWakeupLost`, which are proved, are their safety part: fairness only has to
  bring a notification that is still due.

Every safety property of a passing run is a theorem.  Two have a hypothesis of
their own.  `FullWaitSeesCompletions` and `FailureSeenByWaiters`, which two comments
of the code state, are proved for one generation or session and violated by two
(section 6); what holds for any number is `OwnCompletionsSeen` and
`FailureEndsWait`.  `SamplesAnnounced` is about readers that ask for whole blocks
(`WholeRequests`, as `getStreamMTU` invites them to): a reader that takes part of a
block leaves the rest behind, and `notify_one` has been spent on the reader that
took the first part, so another may sleep beside the rest until the next push.

## 5. Not modelled

* Device options: a pure parse of strings to bounded numbers, finished before the
  constructor acquires anything.
* Sample conversion and scale, the conversion between decibels and gain index, the
  long-double branch of `ticksToNanosecondsAtRate`, `fromActualRate` and the checked
  narrowing of doubles: floating point.
* Formatting and logging, except where a log sink may throw out of a step
  (constructor, rollback).
* Frequency and TX gain, temperature, and getters of one read: one SDK call each and
  no state of the driver.
* Two device objects in one process: `skiq_exit` is process-wide
  (`docs/SDK_LIFETIME.md` lists it as planned work).
* Whether a token the application passes is the one it was given: addresses may be
  reused and the driver cannot tell.  `StreamSetup` makes such calls possible; its
  properties hold in spite of them.
* The order in which a stop, a close and a read or write of the same stream are
  called beyond the caller's contract of section 2.

## 6. Findings

* `tx_reopen`: `TxStreaming.cpp:353` says a completion during `skiq_transmit` must
  satisfy the back-pressure predicate at once.  The counter it reads belongs to
  the current generation.  After a close and a reopen the SDK queue can still hold
  blocks of the old stream; one of them completing during the call frees the
  queue but counts elsewhere, and the writer goes to sleep.  It wakes at a stop,
  at its deadline, or when a block of its own generation completes, and has none
  in flight when it is the first.  A completion of its own stream is never slept
  through (`NoCompletionSleptThrough`).
* `rx_slow_wake`: `RxSampleQueue.cpp:52` says a failure must be visible to every
  reader.  It is a flag that the next `start` clears, so a reader that is notified
  but gets the mutex only after a deactivation and a new activation waits on, though
  never in the session that failed (`FailureEndsEveryWait`).

## 7. Plan

The order followed: the transmit path and its ownership, the receive path and its
hand-off, the configuration transactions, the arithmetic, the device and its
guarded setters, the lock-free readers, stream setup, discovery; then the proofs of
every safety property that holds for all constants.  What is left:

1. Rate and gain range checks, with an integer scale in place of the doubles.
2. That an open stream's calls reach only its own direction, as a refinement of
   `StreamSetup` by an abstract pair of tokens.

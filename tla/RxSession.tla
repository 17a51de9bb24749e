----------------------------- MODULE RxSession -----------------------------
(***************************************************************************)
(* The receive path: RxSampleQueue.cpp, RxStreamSession.cpp and their use  *)
(* in Streaming.cpp, RxStreaming.cpp and DeviceLifecycle.cpp.              *)
(*   - The lifecycle thread is whichever caller holds lifecycle_mutex_ in  *)
(*     activate, deactivate, close, shutdown or a guarded setter.          *)
(*   - The worker runs receiveLoop.                                        *)
(*   - Readers call readStream, which waits in RxSampleQueue::read.        *)
(* One action is one critical section, one atomic store or one SDK call.   *)
(* Samples are numbered in the order they are pushed within a session.     *)
(***************************************************************************)
EXTENDS Integers, Sequences, FiniteSets

CONSTANTS Readers,       \* threads that call readStream
          Capacity,      \* capacity_blocks_
          BlockSamples,  \* samples in a hardware block
          Requests,      \* the sample counts a read asks for
          Timings,       \* the settings of rate, clock and time a setter chooses from
          MaxPushes,     \* bound: blocks received in one session
          MaxSessions    \* bound: successful hardware starts

ASSUME RxSessionAssumption ==
  /\ IsFiniteSet(Readers)
  /\ Capacity \in Nat \ {0} /\ BlockSamples \in Nat \ {0}
  /\ Requests \subseteq Nat \ {0} /\ Timings # {}
  /\ MaxPushes \in Nat /\ MaxSessions \in Nat \ {0}

VARIABLES
  device_alive,
  open,            \* active_rx_stream, the token
  cpc, cop,        \* holder of lifecycle_mutex_: next step, operation
  active,          \* active_: hardware ownership
  hw,              \* the SDK is streaming
  timing, session_timing,    \* device rate settings; those the session captured
  session,         \* successful starts so far
  running,         \* running_ of the session, the worker's loop gate
  q_running, q_failed, blocks,           \* the queue, under its mutex
  wpc, wresult, wsession,                \* receiveLoop and its session
  rpc, rrequest, rresult,      \* the readers' calls
  (* history, read by properties only *)
  pushed,     \* blocks pushed in this session
  ended       \* per reader: the session that failed while it slept, or 0

controlVars == <<device_alive, open, cpc, cop, active, hw, timing, session_timing, session>>
queueVars   == <<q_running, q_failed, blocks>>
workerVars  == <<wpc, wresult, wsession>>
readerVars  == <<rpc, rrequest, rresult>>
vars == <<controlVars, running, queueVars, workerVars, readerVars, pushed, ended>>

Joinable == wpc # "none"
NoRead   == [status |-> "none", first |-> 0, samples |-> 0]

\* Mutated: the queue changes between the test of a reader and its sleep.
NoQueueMutex == TRUE

\* A reader whose predicate was false holds the queue mutex until it sleeps.
QueueMutexFree == \A r \in Readers : rpc[r] # "blocking"

Init ==
  /\ device_alive = TRUE /\ open = FALSE /\ cpc = "idle" /\ cop = "none"
  /\ active = FALSE /\ hw = FALSE
  /\ timing \in Timings /\ session_timing = timing /\ session = 0 /\ running = FALSE
  /\ q_running = FALSE /\ q_failed = FALSE /\ blocks = <<>>
  /\ wpc = "none" /\ wresult = "none" /\ wsession = 0
  /\ rpc = [r \in Readers |-> "idle"]
  /\ rrequest = [r \in Readers |-> 0]
  /\ rresult = [r \in Readers |-> NoRead]
  /\ pushed = 0 /\ ended = [r \in Readers |-> 0]

----------------------------------------------------------------------------
(* RxSampleQueue *)

\* A block remembers its first sample, what has been read of it and, for the
\* properties, the session whose worker pushed it.
Block(s, k) == [start |-> k * BlockSamples, offset |-> 0, session |-> s]

Unread(q) == IF q = <<>> THEN 0
             ELSE Len(q) * BlockSamples - Head(q).offset

\* Mutated: the newest block is given up instead of the oldest.
DropNewest(q, b) == IF Len(q) = Capacity THEN q ELSE Append(q, b)

\* A full queue gives up its oldest block.
PushBlock(q, b) == Append(IF Len(q) = Capacity THEN Tail(q) ELSE q, b)

\* The copy loop of read: n samples off the front, across blocks.
Take(q, n) ==
  LET end  == Head(q).offset + n
      rest == SubSeq(q, end \div BlockSamples + 1, Len(q))
  IN  IF rest = <<>> THEN rest
      ELSE [rest EXCEPT ![1].offset = end % BlockSamples]

\* Mutated: start keeps the blocks of the session before.
StartKeepingBlocks == blocks' = blocks

StartEmpty == blocks' = <<>>

Sleepers == {r \in Readers : rpc[r] = "asleep"}

NotifyAll == rpc' = [r \in Readers |-> IF r \in Sleepers THEN "test" ELSE rpc[r]]

\* Mutated: only the block that ends an empty queue is announced.
NotifyFirst == IF Len(blocks) = 1 /\ Sleepers # {}
               THEN \E r \in Sleepers : rpc' = [rpc EXCEPT ![r] = "test"]
               ELSE UNCHANGED rpc

\* notify_one wakes some sleeper, if there is any.
NotifyOne == \/ Sleepers = {} /\ UNCHANGED rpc
             \/ \E r \in Sleepers : rpc' = [rpc EXCEPT ![r] = "test"]

----------------------------------------------------------------------------
(* readStream *)

ReaderFrame == UNCHANGED <<controlVars, running, q_running, q_failed, workerVars,
                           pushed>>

ReaderAt(r, pc) == rpc[r] = pc
ReaderGoto(r, pc) == rpc' = [rpc EXCEPT ![r] = pc]
Answer(r, status, first, n) ==
  /\ ReaderGoto(r, "returned")
  /\ rresult' = [rresult EXCEPT ![r] =
                   [status |-> status, first |-> first, samples |-> n]]

\* Past the token and argument checks; a request of 0 returns at once.
ReadCall(r, n) ==
  /\ ReaderAt(r, "idle") /\ open /\ cop \notin {"close", "shutdown"}
  /\ ReaderGoto(r, "test")
  /\ rrequest' = [rrequest EXCEPT ![r] = n]
  /\ ReaderFrame /\ UNCHANGED <<blocks, rresult, ended>>

\* Mutated: only samples end a wait.
ReadyOnlyWithBlocks == blocks # <<>>

Ready == blocks # <<>> \/ q_failed \/ ~ q_running

\* One test of the wait predicate and, when it holds, the rest of read.  When
\* it does not, the deadline may have passed by now, or the reader sleeps.  The
\* time of a sample inside a block may not fit, which throws before any copy.
ReadTest(r) ==
  /\ ReaderAt(r, "test") /\ QueueMutexFree
  /\ \/ /\ ~ Ready
        /\ \/ Answer(r, "timeout", 0, 0)
           \/ ReaderGoto(r, "blocking") /\ UNCHANGED rresult
        /\ UNCHANGED blocks
     \/ /\ Ready /\ blocks = <<>>
        /\ Answer(r, IF q_failed THEN "error" ELSE "stopped", 0, 0)
        /\ UNCHANGED blocks
     \/ /\ blocks # <<>>
        /\ LET n == IF rrequest[r] < Unread(blocks) THEN rrequest[r]
                                                   ELSE Unread(blocks)
           IN  /\ Answer(r, "samples", Head(blocks).start + Head(blocks).offset, n)
               /\ blocks' = Take(blocks, n)
     \/ /\ blocks # <<>> /\ Head(blocks).offset # 0
        /\ Answer(r, "error", 0, 0) /\ UNCHANGED blocks
  /\ ReaderFrame /\ UNCHANGED <<rrequest, ended>>

ReadSleep(r) ==
  /\ ReaderAt(r, "blocking") /\ ReaderGoto(r, "asleep")
  /\ ReaderFrame /\ UNCHANGED <<blocks, rrequest, rresult, ended>>

\* A passed deadline or a spurious wake-up.
ReadWake(r) ==
  /\ ReaderAt(r, "asleep") /\ ReaderGoto(r, "test")
  /\ ReaderFrame /\ UNCHANGED <<blocks, rrequest, rresult, ended>>

ReadReturn(r) ==
  /\ ReaderAt(r, "returned") /\ ReaderGoto(r, "idle")
  /\ rrequest' = [rrequest EXCEPT ![r] = 0]
  /\ rresult' = [rresult EXCEPT ![r] = NoRead]
  /\ ended' = [ended EXCEPT ![r] = 0]
  /\ ReaderFrame /\ UNCHANGED blocks

ReaderStep(r) == ReadTest(r) \/ ReadSleep(r) \/ ReadReturn(r)

----------------------------------------------------------------------------
(* receiveLoop *)

WorkerAt(pc) == wpc = pc
WorkerFrame == UNCHANGED <<controlVars, rrequest, rresult>>

LoopTest ==
  /\ WorkerAt("loop")
  /\ wpc' = IF running THEN "receive" ELSE "exited"
  /\ WorkerFrame
  /\ UNCHANGED <<running, queueVars, wresult, wsession, rpc, pushed, ended>>

\* "skip" is no data, an overrun or another handle's block; "bad" an SDK error
\* or a block of the wrong size; an exception goes straight to the catch.
Receive ==
  /\ WorkerAt("receive")
  /\ \/ /\ wresult' \in {"skip", "bad"} \cup
                        (IF pushed < MaxPushes THEN {"block"} ELSE {})
        /\ wpc' = "check"
     \/ wpc' = "fail" /\ wresult' = "none"
  /\ WorkerFrame
  /\ UNCHANGED <<running, queueVars, wsession, rpc, pushed, ended>>

\* running_ is tested again before the result is used.
CheckResult ==
  /\ WorkerAt("check")
  /\ wpc' = CASE ~ running          -> "exited"
              [] wresult = "skip"   -> "loop"
              [] wresult = "bad"    -> "fail"
              [] wresult = "block"  -> "push"
  /\ wresult' = "none"
  /\ WorkerFrame
  /\ UNCHANGED <<running, queueVars, wsession, rpc, pushed, ended>>

\* pushTicks: an unrepresentable timestamp or a failed allocation throws.
Push ==
  /\ WorkerAt("push") /\ QueueMutexFree
  /\ \/ /\ q_running /\ ~ q_failed
        /\ blocks' = PushBlock(blocks, Block(wsession, pushed))
        /\ pushed' = pushed + 1
        /\ wpc' = "notify"
     \/ /\ ~ (q_running /\ ~ q_failed)
        /\ wpc' = "loop" /\ UNCHANGED <<blocks, pushed>>
     \/ wpc' = "fail" /\ UNCHANGED <<blocks, pushed>>
  /\ WorkerFrame
  /\ UNCHANGED <<running, q_running, q_failed, wresult, wsession, rpc, ended>>

NotifyPushed ==
  /\ WorkerAt("notify") /\ wpc' = "loop" /\ NotifyOne
  /\ WorkerFrame
  /\ UNCHANGED <<running, queueVars, wresult, wsession, pushed, ended>>

\* The atomics first, then queue_.fail(), then its notify_all.
Fail ==
  /\ WorkerAt("fail") /\ wpc' = "failQueue"
  /\ running' = FALSE
  /\ WorkerFrame
  /\ UNCHANGED <<queueVars, wresult, wsession, rpc, pushed, ended>>

FailQueue ==
  /\ WorkerAt("failQueue") /\ QueueMutexFree /\ wpc' = "failNotify"
  /\ q_running' = FALSE /\ q_failed' = TRUE
  /\ ended' = [r \in Readers |-> IF r \in Sleepers THEN wsession ELSE ended[r]]
  /\ WorkerFrame
  /\ UNCHANGED <<running, blocks, wresult, wsession, rpc, pushed>>

NotifyFailed ==
  /\ WorkerAt("failNotify") /\ wpc' = "exited" /\ NotifyAll
  /\ WorkerFrame
  /\ UNCHANGED <<running, queueVars, wresult, wsession, pushed, ended>>

WorkerStep == \/ LoopTest \/ Receive \/ CheckResult \/ Push \/ NotifyPushed
              \/ Fail \/ FailQueue \/ NotifyFailed

----------------------------------------------------------------------------
(* Stream token, activation, guarded setters, deactivation *)

LifecycleFree == cpc = "idle" /\ device_alive
Inactive == ~ active /\ ~ Joinable
NoReader == \A r \in Readers : rpc[r] = "idle"

ControlFrame == UNCHANGED <<rrequest, rresult, ended>>
Quietly == UNCHANGED <<running, queueVars, workerVars, rpc, pushed>> /\ ControlFrame

SetupStream ==
  /\ LifecycleFree /\ ~ open /\ NoReader
  /\ open' = TRUE
  /\ Quietly
  /\ UNCHANGED <<device_alive, cpc, cop, active, hw, timing, session_timing, session>>

\* Mutated: the setter looks at the worker only, outside the lifecycle lock.
ConfigureUnguarded ==
  /\ ~ Joinable
  /\ timing' \in Timings
  /\ Quietly
  /\ UNCHANGED <<device_alive, open, cpc, cop, active, hw, session_timing, session>>

\* configureWhileRxInactive around a rate, bandwidth, clock or time setter.
Configure ==
  /\ LifecycleFree /\ Inactive
  /\ timing' \in Timings
  /\ Quietly
  /\ UNCHANGED <<device_alive, open, cpc, cop, active, hw, session_timing, session>>

MayActivate == Inactive

\* activateConfigured: refuse, or capture the timing and keep the lock.
Activate ==
  /\ LifecycleFree /\ open /\ MayActivate
  /\ session < MaxSessions
  /\ session_timing' = timing
  /\ cpc' = "start" /\ cop' = "activate"
  /\ Quietly /\ UNCHANGED <<device_alive, open, active, hw, timing, session>>

StartHardware ==
  /\ cpc = "start"
  /\ \/ /\ hw' = TRUE /\ active' = TRUE /\ session' = session + 1
        /\ cpc' = "startQueue" /\ UNCHANGED cop
     \/ cpc' = "idle" /\ cop' = "none" /\ UNCHANGED <<hw, active, session>>
  /\ Quietly /\ UNCHANGED <<device_alive, open, timing, session_timing>>

StartQueue ==
  /\ cpc = "startQueue" /\ QueueMutexFree
  /\ StartEmpty /\ q_running' = TRUE /\ q_failed' = FALSE
  /\ pushed' = 0
  /\ cpc' = "spawn"
  /\ ControlFrame
  /\ UNCHANGED <<device_alive, open, cop, active, hw, timing, session_timing, session, running,
                 workerVars, rpc>>

\* running_ opens before the thread exists; without a thread all is undone.
Spawn ==
  /\ cpc = "spawn"
  /\ \/ /\ running' = TRUE
        /\ wpc' = "loop" /\ wsession' = session
        /\ cpc' = "idle" /\ cop' = "none"
     \/ /\ running' = FALSE
        /\ cpc' = "resetQueue" /\ UNCHANGED <<wpc, wsession, cop>>
  /\ ControlFrame
  /\ UNCHANGED <<device_alive, open, active, hw, timing, session_timing, session, queueVars,
                 wresult, rpc, pushed>>

ResetQueue ==
  /\ cpc = "resetQueue" /\ QueueMutexFree
  /\ blocks' = <<>> /\ q_running' = FALSE /\ q_failed' = FALSE
  /\ pushed' = 0
  /\ cpc' = "resetNotify"
  /\ ControlFrame
  /\ UNCHANGED <<device_alive, open, cop, active, hw, timing, session_timing, session, running,
                 workerVars, rpc>>

\* closeStream refuses while running_; it and the destructor run alone.
StopCall(op) ==
  /\ LifecycleFree
  /\ op # "shutdown" => open
  /\ op = "close" => ~ running
  /\ op # "deactivate" => NoReader
  /\ cop' = op
  /\ IF Inactive THEN cpc' = "finish" ELSE cpc' = "stop"
  /\ Quietly /\ UNCHANGED <<device_alive, open, active, hw, timing, session_timing, session>>

\* Mutated: the worker is never told to end.
LeaveLoopGate == running' = running

CloseLoopGate == running' = FALSE

StopRunning ==
  /\ cpc = "stop" /\ cpc' = "stopQueue"
  /\ CloseLoopGate
  /\ ControlFrame
  /\ UNCHANGED <<device_alive, open, cop, active, hw, timing, session_timing, session, queueVars,
                 workerVars, rpc, pushed>>

StopQueue ==
  /\ cpc = "stopQueue" /\ QueueMutexFree /\ cpc' = "stopNotify"
  /\ q_running' = FALSE
  /\ ControlFrame
  /\ UNCHANGED <<device_alive, open, cop, active, hw, timing, session_timing, session, running,
                 q_failed, blocks, workerVars, rpc, pushed>>

NotifyStopped ==
  /\ cpc \in {"stopNotify", "resetNotify"} /\ NotifyAll
  /\ cpc' = "stopHardware"
  /\ ControlFrame
  /\ UNCHANGED <<device_alive, open, cop, active, hw, timing, session_timing, session, running,
                 queueVars, workerVars, pushed>>

\* Mutated: a failed stop gives the hardware up.
ForgetFailedStop == active' = FALSE /\ UNCHANGED hw

KeepFailedStop == UNCHANGED <<active, hw>>

\* A deactivation whose earlier stop succeeded only joins.
StopHardware ==
  /\ cpc = "stopHardware" /\ cpc' = "join"
  /\ \/ active /\ active' = FALSE /\ hw' = FALSE
     \/ active /\ KeepFailedStop
     \/ ~ active /\ UNCHANGED <<active, hw>>
  /\ Quietly /\ UNCHANGED <<device_alive, open, cop, timing, session_timing, session>>

WorkerGone == wpc \in {"none", "exited"}

Join ==
  /\ cpc = "join" /\ WorkerGone
  /\ cpc' = "finish" /\ wpc' = "none"
  /\ ControlFrame
  /\ UNCHANGED <<device_alive, open, cop, active, hw, timing, session_timing, session, running,
                 queueVars, wresult, wsession, rpc, pushed>>

\* close keeps the token of hardware that could not be stopped; the
\* destructor releases it, and skiq_exit stops the card.
KeepsToken == open /\ (cop = "close" => active) /\ cop # "shutdown"

Finish ==
  /\ cpc = "finish" /\ cpc' = "idle" /\ cop' = "none"
  /\ open' = KeepsToken /\ device_alive' = (cop # "shutdown")
  /\ hw' = (hw /\ cop # "shutdown") /\ active' = (active /\ cop # "shutdown")
  /\ Quietly /\ UNCHANGED <<timing, session_timing, session>>

ControlStep == \/ StartHardware \/ StartQueue \/ Spawn \/ ResetQueue
               \/ StopRunning \/ StopQueue \/ NotifyStopped \/ StopHardware
               \/ Join \/ Finish

----------------------------------------------------------------------------
Quiet == ~ device_alive /\ UNCHANGED vars

Next ==
  \/ \E r \in Readers : \/ \E n \in Requests : ReadCall(r, n)
                        \/ ReadWake(r) \/ ReaderStep(r)
  \/ WorkerStep
  \/ SetupStream \/ Configure \/ Activate \/ ControlStep
  \/ \E op \in {"deactivate", "close", "shutdown"} : StopCall(op)
  \/ Quiet

Spec == Init /\ [][Next]_vars

\* Threads run and SDK calls return (receive within its configured timeout);
\* a thread that finds a mutex free again and again gets it.  Nobody owes a
\* call, a deadline or a block.
Fairness == /\ \A r \in Readers : SF_vars(ReaderStep(r))
            /\ SF_vars(WorkerStep)
            /\ SF_vars(ControlStep)

FairSpec == Spec /\ Fairness

----------------------------------------------------------------------------
(* Properties *)

\* The queue never exceeds its capacity, holds blocks in the order received
\* without a hole, never a block that is read up, only the front one partly
\* read, and only blocks of the session whose hardware start came last.
QueueWellFormed ==
  /\ Len(blocks) <= Capacity
  /\ \A k \in 1 .. Len(blocks) :
       /\ blocks[k].start = (pushed - Len(blocks) + k - 1) * BlockSamples
       /\ blocks[k].offset < BlockSamples
       /\ k > 1 => blocks[k].offset = 0
       /\ cpc # "startQueue" => blocks[k].session = session

\* The timing a running session converts timestamps with is the device's: no
\* setter gets between capture and start, or in while RX owns anything.
TimingStable == (active \/ Joinable \/ cpc = "start") => session_timing = timing

\* Running hardware and a worker thread have one owner: a stop that failed,
\* also as the rollback of a failed activation, keeps them for a retry, so the
\* SDK is started only from rest and no close leaves either behind.
HardwareOwned == cpc = "start" \/ ~ open => ~ hw /\ ~ Joinable

\* RxSampleQueue.cpp:52: a failure is visible to every reader that waits when
\* it happens, so none of them waits on.  It holds for one session only: a
\* reader that is slow to wake can find the next session already started.
FailureSeenByWaiters == \A r \in Readers : rpc[r] = "blocking" => ended[r] = 0

\* What does hold, over any number of sessions: a reader that was asleep when
\* its session failed waits on at most into a later one, never in its own.
FailureEndsWait ==
  \A r \in Readers : rpc[r] = "blocking" /\ ended[r] # 0 => ended[r] < session

\* stop, fail and reset: between the test of a reader and its sleep the queue
\* does not end, so nobody sleeps in an ended queue once it is announced.
EndsAnnounced ==
  (\E r \in Readers : rpc[r] = "asleep") /\ (q_failed \/ ~ q_running) =>
     wpc = "failNotify" \/ cpc \in {"stopNotify", "resetNotify"}

WholeRequests == \A n \in Requests : n % BlockSamples = 0

Awake == {r \in Readers : rpc[r] = "test"}

\* RxSampleQueue.cpp:143 announces a block to one reader.  That is enough for
\* readers that ask for whole blocks (getStreamMTU): none sleeps beside a block
\* that no awake reader and no notification stands for.
SamplesAnnounced ==
  WholeRequests /\ Sleepers # {} =>
     Len(blocks) <= Cardinality(Awake) + (IF wpc = "notify" THEN 1 ELSE 0)

\* No reader sleeps on over the end of its queue, nor over samples it could read,
\* with nobody left to wake it.
NoWakeupLost == EndsAnnounced /\ SamplesAnnounced

\* Readers asleep in a queue that has stopped or failed are awoken by the
\* notification alone, without their deadline, and return, unless they test
\* their wait only once the next session has begun and belong to that one
\* (FailureSeenByWaiters).
ReadersReleased ==
  \A r \in Readers :
    rpc[r] = "asleep" /\ ~ q_running ~> \/ rpc[r] = "idle"
                                        \/ rpc[r] = "test" /\ q_running

\* Deactivation always ends: the worker it joins never needs its lock.
StopCompletes == cpc = "stop" ~> cpc = "idle"

\* Reads, pushes and restarts are those of the lossy line of samples.
Handoff == INSTANCE RxHandoff WITH
  head <- IF blocks = <<>> THEN pushed * BlockSamples
                           ELSE Head(blocks).start + Head(blocks).offset,
  tail <- pushed * BlockSamples

ImplementsHandoff == Handoff!Spec
=============================================================================

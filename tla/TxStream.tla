------------------------------ MODULE TxStream ------------------------------
(***************************************************************************)
(* The transmit path of the driver: TxStreaming.cpp and the TX half of     *)
(* Streaming.cpp.  The threads are                                         *)
(*   - one writer calling writeStream (callers serialize writes),          *)
(*   - a set of pollers calling readStreamStatus,                          *)
(*   - one control thread calling setupStream, activateStream,             *)
(*     deactivateStream, closeStream and, last, the destructor,            *)
(*   - the PPS worker running tx_streaming_start,                          *)
(*   - the SDK, which completes accepted blocks on threads of its own.     *)
(*                                                                         *)
(* An action is one critical section or one SDK call.  A mutex that is     *)
(* held within one action only needs a guard that it is free.  A thread    *)
(* whose wait predicate was false keeps the mutex for a step of its own    *)
(* ("...Blocking") and then sleeps ("...Asleep"), so a notification sent   *)
(* without the mutex can be lost exactly where it can be in the code.      *)
(* notify_all sends a sleeper back to its test; so does a passed deadline. *)
(* Counts are in blocks: numElems / current_tx_block_size.                 *)
(***************************************************************************)
EXTENDS Integers, Sequences, FiniteSets

CONSTANTS Pollers,        \* threads that call readStreamStatus
          TxBufferCount,  \* tx_buffer_count
          MaxBlocks,      \* bound: blocks in one writeStream request
          MaxStreams,     \* bound: setupStream calls in one device lifetime
          MaxUnderruns    \* bound: underruns the hardware has in one start

ASSUME TxStreamAssumption ==
  /\ IsFiniteSet(Pollers)
  /\ TxBufferCount \in Nat \ {0}
  /\ MaxBlocks \in Nat
  /\ MaxStreams \in Nat \ {0}
  /\ MaxUnderruns \in Nat

TIMEOUT      == -1
STREAM_ERROR == -2
UNDERFLOW    == -7
NoResult     == -100
Malformed    == -50   \* a request with a bad size or a null buffer

Slots   == 0 .. TxBufferCount - 1
Streams == 0 .. MaxStreams        \* generation 0 is the constructor's

VARIABLES
  device_alive, active_tx_stream, tx_stream_active,  \* ownership flags
  tx_completion,            \* the generation whose bookkeeping is current
  hw,                       \* the SDK is streaming
  cpc, cop,                 \* control thread: next step, operation
  tx_writes_stopping, active_tx_writers, active_tx_status_readers,
  first_transmit, tx_start_finished, tx_start_status,
  pps,                      \* _tx_streaming_thread
  slots, tx_block_index,
  inflight,                 \* contexts the SDK owns: <<generation, slot>>
  unnotified,               \* a callback of this generation is before notify_all
  wpc, wn, curr_block, wexpired, wstatus, wret,    \* the writer's call
  progressed,               \* completed # observed_completions
  ppc, pexpired, perrors, pret,                    \* the pollers' calls
  tx_underruns, sdk_underruns,
  (* history, read by properties only *)
  accepted,       \* request blocks the SDK accepted in this call, in order
  sdk_completed,  \* generations with a completion during this transmit
  underrun_events,        \* underruns since the hardware was started
  unread, fell_back,      \* since the SDK's counter was last read: an
                          \* underrun happened, the counter fell back
  due                     \* what the reading a poller holds calls for

streamVars  == <<device_alive, active_tx_stream, tx_stream_active,
                 tx_completion, hw>>
controlVars == <<cpc, cop>>
countVars   == <<active_tx_writers, active_tx_status_readers>>
startVars   == <<first_transmit, tx_start_finished, tx_start_status, pps>>
ringVars    == <<slots, tx_block_index, inflight, unnotified>>
progressVars == <<progressed, sdk_completed>>
writerVars  == <<wpc, wn, curr_block, wexpired, wstatus, wret, accepted>>
pollerVars  == <<ppc, pexpired, perrors, pret>>
historyVars == <<unread, fell_back, due>>
statusVars  == <<tx_underruns, sdk_underruns, underrun_events, historyVars>>

vars == <<streamVars, controlVars, tx_writes_stopping, countVars, startVars,
          ringVars, progressVars, writerVars, pollerVars, statusVars>>

----------------------------------------------------------------------------
(* Mutexes, condition variables and the caller's contract *)

\* Mutated: the stop flag and the start result are written without tx_mutex.
NoTxMutex == TRUE

TxMutexFree == wpc # "ppsBlocking"

CompletionMutexFree == /\ wpc \notin {"slotBlocking", "fullBlocking"}
                       /\ cpc # "drainBlocking"

\* Mutated: pollers are not serialized.
NoStatusMutex == TRUE

StatusMutexFree == \A p \in Pollers : ppc[p] \notin {"check", "read", "compare"}

\* notify_all on tx_cv and on tx_completion->changed, as seen by a sleeper.
WokenByTxCv(pc) == IF pc = "ppsAsleep" THEN "ppsTest" ELSE pc

WokenByChanged(pc) == CASE pc = "slotAsleep"  -> "slotTest"
                        [] pc = "fullAsleep"  -> "fullTest"
                        [] pc = "drainAsleep" -> "drain"
                        [] OTHER -> pc

\* The ring position after i.
NextSlotUnwrapped(i) == i + 1   \* mutated: the ring never wraps
NextSlot(i) == (i + 1) % TxBufferCount

\* A token is used only between setup and the start of close or destruction.
Callable == /\ device_alive
            /\ active_tx_stream
            /\ cop \notin {"close", "destroy"}

NoCallInProgress == wpc = "idle" /\ \A p \in Pollers : ppc[p] = "idle"

----------------------------------------------------------------------------
Init ==
  /\ device_alive = TRUE /\ active_tx_stream = FALSE /\ tx_stream_active = FALSE
  /\ tx_completion = 0 /\ hw = FALSE
  /\ cpc = "idle" /\ cop = "none"
  /\ tx_writes_stopping = TRUE
  /\ active_tx_writers = 0 /\ active_tx_status_readers = 0
  /\ first_transmit = FALSE /\ tx_start_finished = FALSE /\ tx_start_status = 0
  /\ pps = "none"
  /\ slots = [g \in Streams |-> [i \in Slots |-> 0]]
  /\ tx_block_index = 0 /\ inflight = {} /\ unnotified = FALSE
  /\ wpc = "idle" /\ wn = 0 /\ curr_block = 0 /\ wexpired = FALSE
  /\ wstatus = "ok" /\ wret = NoResult /\ accepted = <<>>
  /\ progressed = FALSE /\ sdk_completed = {}
  /\ ppc = [p \in Pollers |-> "idle"]
  /\ pexpired = [p \in Pollers |-> FALSE]
  /\ perrors = [p \in Pollers |-> 0]
  /\ pret = [p \in Pollers |-> NoResult]
  /\ tx_underruns = 0 /\ sdk_underruns = 0
  /\ underrun_events = 0 /\ unread = FALSE /\ fell_back = FALSE
  /\ due = [p \in Pollers |-> "none"]

----------------------------------------------------------------------------
(* writeStream *)

WriterAt(pc) == wpc = pc

WriterFrame == UNCHANGED <<streamVars, controlVars, tx_writes_stopping,
                           pollerVars, statusVars>>

\* Past the token checks and through the admission gate.  A call that finds
\* the gate closed returns STREAM_ERROR and changes nothing.
WriteCall(n) ==
  /\ WriterAt("idle") /\ Callable
  /\ CompletionMutexFree /\ ~ tx_writes_stopping
  /\ active_tx_writers' = active_tx_writers + 1
  /\ wpc' = "check" /\ wn' = n /\ curr_block' = 0 /\ accepted' = <<>>
  /\ wexpired' = FALSE /\ wstatus' = "ok"
  /\ WriterFrame
  /\ UNCHANGED <<active_tx_status_readers, startVars, ringVars, progressVars, wret>>

WriterOnly == /\ WriterFrame
              /\ UNCHANGED <<countVars, startVars, ringVars, progressVars>>

WriterLocals == <<wn, curr_block, wexpired, wstatus, accepted>>

Return(value) == wpc' = "leave" /\ wret' = value
Resume(pc)    == wpc' = pc /\ wret' = wret
\* Mutated: an error hides the blocks already accepted.
AlwaysTheError(value) == value

PrefixOr(value) == IF curr_block = 0 THEN value ELSE curr_block

CheckRequest ==
  /\ WriterAt("check")
  /\ \/ wn = Malformed /\ Return(STREAM_ERROR)
     \/ wn = 0 /\ Return(0)
     \/ wn > 0 /\ Resume(IF first_transmit THEN "ppsTest" ELSE "slotTest")
  /\ WriterOnly /\ UNCHANGED WriterLocals

\* The deadline of the call passes.
WriterDeadline ==
  /\ wpc \notin {"idle", "leave", "leaveNotify"} /\ ~ wexpired
  /\ wexpired' = TRUE
  /\ WriterOnly /\ UNCHANGED <<wpc, wn, curr_block, wstatus, wret, accepted>>

\* Mutated: a finished start is taken for a successful one.
AnyFinishedStart == ~ tx_writes_stopping

StartSucceeded == ~ tx_writes_stopping /\ tx_start_status = 0

\* tx_cv.wait_until for the PPS result, one test of the predicate.
PpsTest ==
  /\ WriterAt("ppsTest") /\ TxMutexFree
  /\ \/ /\ tx_start_finished \/ tx_writes_stopping
        /\ \/ ~ StartSucceeded /\ Return(STREAM_ERROR) /\ UNCHANGED first_transmit
           \/ StartSucceeded /\ Resume("slotTest") /\ first_transmit' = FALSE
     \/ /\ ~ tx_start_finished /\ ~ tx_writes_stopping
        /\ IF wexpired THEN Return(TIMEOUT) ELSE Resume("ppsBlocking")
        /\ UNCHANGED first_transmit
  /\ WriterFrame
  /\ UNCHANGED <<countVars, tx_start_finished, tx_start_status, pps, ringVars,
                 progressVars, WriterLocals>>

\* Mutated: the writer does not wait for the SDK to give the block back.
AnySlot == TRUE

SlotFree == slots[tx_completion][tx_block_index] = 0

\* Wait for the next ring slot, then reserve it.
SlotTest ==
  /\ WriterAt("slotTest") /\ CompletionMutexFree
  /\ \/ /\ tx_writes_stopping /\ Return(PrefixOr(STREAM_ERROR))
        /\ UNCHANGED <<slots, progressVars>>
     \/ /\ ~ tx_writes_stopping /\ SlotFree
        /\ slots' = [slots EXCEPT ![tx_completion][tx_block_index] = 1]
        /\ progressed' = FALSE /\ sdk_completed' = {}
        /\ Resume("prepare")
     \/ /\ ~ tx_writes_stopping /\ ~ SlotFree
        /\ IF wexpired THEN Return(PrefixOr(TIMEOUT)) ELSE Resume("slotBlocking")
        /\ UNCHANGED <<slots, progressVars>>
  /\ WriterFrame
  /\ UNCHANGED <<countVars, startVars, tx_block_index, inflight, unnotified,
                 WriterLocals>>

\* A wait releases its mutex and sleeps in one step; a passed deadline or a
\* spurious wake-up sends the sleeper back to the test.
BlockWriter ==
  /\ \/ WriterAt("ppsBlocking")  /\ Resume("ppsAsleep")
     \/ WriterAt("slotBlocking") /\ Resume("slotAsleep")
     \/ WriterAt("fullBlocking") /\ Resume("fullAsleep")
  /\ WriterOnly /\ UNCHANGED WriterLocals

WakeWriter ==
  /\ wpc \in {"ppsAsleep", "slotAsleep", "fullAsleep"}
  /\ Resume(WokenByTxCv(WokenByChanged(wpc)))
  /\ WriterOnly /\ UNCHANGED WriterLocals

\* Build the context and copy or convert the payload into the block; any
\* exception releases the reservation on the way out.
PreparePacket ==
  /\ WriterAt("prepare")
  /\ \/ Resume("submit") /\ UNCHANGED wstatus
     \/ Resume("release") /\ wstatus' = "exception"
  /\ WriterOnly /\ UNCHANGED <<wn, curr_block, wexpired, accepted>>

\* skiq_transmit.  Accepting passes the context to the SDK, whose callback
\* may run before the call returns.  QUEUE_FULL needs an earlier send that
\* has not completed.
Transmit ==
  /\ WriterAt("submit")
  /\ \/ /\ inflight' = inflight \cup {<<tx_completion, tx_block_index>>}
        /\ accepted' = Append(accepted, curr_block)
        /\ Resume("accepted")
        /\ UNCHANGED wstatus
     \/ /\ \/ inflight # {} /\ wstatus' = "full"
           \/ wstatus' = "hard"
        /\ Resume("release")
        /\ UNCHANGED <<inflight, accepted>>
  /\ WriterFrame
  /\ UNCHANGED <<countVars, startVars, slots, tx_block_index, unnotified,
                 progressVars, wn, curr_block, wexpired>>

\* Nothing is accepted: the ScopeExit guard gives the slot back, silently.
ReleaseReservation ==
  /\ WriterAt("release") /\ CompletionMutexFree
  /\ slots' = [slots EXCEPT ![tx_completion][tx_block_index] = 0]
  /\ IF wstatus = "full" THEN Resume("fullEnter")
                         ELSE Return(PrefixOr(STREAM_ERROR))
  /\ wstatus' = "ok"
  /\ WriterFrame
  /\ UNCHANGED <<countVars, startVars, tx_block_index, inflight, unnotified,
                 progressVars, wn, curr_block, wexpired, accepted>>

\* Back-pressure: retry after a completion, a stop or the deadline.  Once the
\* deadline has passed, the first test does not look at the completions.
FullTest ==
  /\ wpc \in {"fullEnter", "fullTest"} /\ CompletionMutexFree
  /\ \/ tx_writes_stopping /\ Return(PrefixOr(STREAM_ERROR))
     \/ /\ ~ tx_writes_stopping
        /\ IF progressed /\ ~ (wpc = "fullEnter" /\ wexpired) THEN Resume("slotTest")
           ELSE IF wexpired THEN Return(PrefixOr(TIMEOUT))
           ELSE Resume("fullBlocking")
  /\ WriterOnly /\ UNCHANGED WriterLocals

Advance ==
  /\ WriterAt("accepted")
  /\ curr_block' = curr_block + 1
  /\ tx_block_index' = NextSlot(tx_block_index)
  /\ IF curr_block' < wn THEN Resume("slotTest") ELSE Return(wn)
  /\ progressed' = FALSE /\ sdk_completed' = {}
  /\ WriterFrame
  /\ UNCHANGED <<countVars, startVars, slots, inflight, unnotified, wn, wexpired,
                 wstatus, accepted>>

\* The writer ScopeExit: leave under the mutex, notify without it.
LeaveWrite ==
  /\ WriterAt("leave") /\ CompletionMutexFree
  /\ active_tx_writers' = active_tx_writers - 1
  /\ wpc' = "leaveNotify" /\ wret' = NoResult
  /\ wn' = 0 /\ curr_block' = 0 /\ wexpired' = FALSE /\ accepted' = <<>>
  /\ progressed' = FALSE /\ sdk_completed' = {}
  /\ WriterFrame
  /\ UNCHANGED <<active_tx_status_readers, startVars, ringVars, wstatus>>

NotifyLeft ==
  /\ WriterAt("leaveNotify")
  /\ wpc' = "idle"
  /\ cpc' = WokenByChanged(cpc)
  /\ UNCHANGED <<streamVars, cop, tx_writes_stopping, countVars, startVars, ringVars,
                 progressVars, wret, WriterLocals, pollerVars, statusVars>>

WriterStep == \/ CheckRequest \/ PpsTest \/ SlotTest \/ BlockWriter
              \/ PreparePacket \/ Transmit \/ ReleaseReservation \/ FullTest
              \/ Advance \/ LeaveWrite \/ NotifyLeft

----------------------------------------------------------------------------
(* tx_complete_callback and completeTx *)

\* The writer owns a reservation it has not passed to the SDK.
Holding == wpc \in {"prepare", "submit", "release"}

\* Mutated: observed_completions is read when the wait begins.
AfterTransmit == wpc \in {"fullEnter", "fullTest", "fullBlocking", "fullAsleep"}

\* observed_completions is in scope.
InAttempt == wpc \in {"prepare", "submit", "release", "fullEnter", "fullTest",
                      "fullBlocking", "fullAsleep"}

\* Mutated: the callback looks up the device's current bookkeeping.
CurrentSlotsAfter(g, i) == [slots EXCEPT ![tx_completion][i] = 0]

SlotsAfter(g, i) == [slots EXCEPT ![g][i] = 0]

\* Mutated: a callback publishes without the mutex of its bookkeeping.
NoCallbackMutex(g) == TRUE

CallbackMutexFree(g) == g = tx_completion => CompletionMutexFree

\* The callback of one accepted context, under its own generation's mutex.
Complete(g, i) ==
  /\ <<g, i>> \in inflight
  /\ CallbackMutexFree(g)
  /\ inflight' = inflight \ {<<g, i>>}
  /\ slots' = SlotsAfter(g, i)
  /\ unnotified' = (unnotified \/ g = tx_completion)
  /\ progressed' = (progressed \/ (InAttempt /\ g = tx_completion))
  /\ sdk_completed' = IF Holding THEN sdk_completed \cup {g} ELSE sdk_completed
  /\ UNCHANGED <<streamVars, controlVars, tx_writes_stopping, countVars, startVars,
                 tx_block_index, writerVars, pollerVars, statusVars>>

\* notify_all on that condition.  A callback of a replaced generation has a
\* condition of its own, which nobody sleeps on.
NotifyCompleted ==
  /\ unnotified
  /\ unnotified' = FALSE
  /\ wpc' = WokenByChanged(wpc) /\ cpc' = WokenByChanged(cpc)
  /\ UNCHANGED <<streamVars, cop, tx_writes_stopping, countVars, startVars, slots,
                 tx_block_index, inflight, progressVars, wret, WriterLocals,
                 pollerVars, statusVars>>

----------------------------------------------------------------------------
(* readStreamStatus *)

PollerFrame == UNCHANGED <<streamVars, tx_writes_stopping, startVars, ringVars,
                           progressVars, writerVars, sdk_underruns, underrun_events>>

PollerAt(p, pc) == ppc[p] = pc
PollerGoto(p, pc) == ppc' = [ppc EXCEPT ![p] = pc]
PollerReturn(p, value) == /\ PollerGoto(p, "leave")
                          /\ pret' = [pret EXCEPT ![p] = value]

PollCall(p) ==
  /\ PollerAt(p, "idle") /\ Callable
  /\ CompletionMutexFree /\ ~ tx_writes_stopping
  /\ active_tx_status_readers' = active_tx_status_readers + 1
  /\ PollerGoto(p, "lock")
  /\ pexpired' = [pexpired EXCEPT ![p] = FALSE]
  /\ PollerFrame
  /\ UNCHANGED <<controlVars, active_tx_writers, perrors, pret, tx_underruns, historyVars>>

PollerOnly == /\ PollerFrame
              /\ UNCHANGED <<controlVars, countVars>>

PollerDeadline(p) ==
  /\ ppc[p] \notin {"idle", "leave", "leaveNotify"} /\ ~ pexpired[p]
  /\ pexpired' = [pexpired EXCEPT ![p] = TRUE]
  /\ PollerOnly /\ UNCHANGED <<ppc, perrors, pret, tx_underruns, historyVars>>

\* tx_status_mutex.try_lock_until(deadline)
LockStatus(p) ==
  /\ PollerAt(p, "lock")
  /\ \/ StatusMutexFree /\ PollerGoto(p, "check") /\ UNCHANGED pret
     \/ ~ StatusMutexFree /\ pexpired[p] /\ PollerReturn(p, TIMEOUT)
  /\ PollerOnly /\ UNCHANGED <<pexpired, perrors, tx_underruns, historyVars>>

\* Under tx_mutex and the completion mutex: is the start still pending?
CheckStart(p) ==
  /\ PollerAt(p, "check") /\ TxMutexFree /\ CompletionMutexFree
  /\ \/ /\ \/ tx_writes_stopping
           \/ first_transmit /\ tx_start_finished /\ tx_start_status # 0
        /\ PollerReturn(p, STREAM_ERROR)
     \/ /\ ~ tx_writes_stopping
        /\ first_transmit /\ ~ tx_start_finished
        /\ PollerGoto(p, "pace") /\ UNCHANGED pret
     \/ /\ ~ tx_writes_stopping
        /\ first_transmit => tx_start_finished /\ tx_start_status = 0
        /\ PollerGoto(p, "read") /\ UNCHANGED pret
  /\ PollerOnly /\ UNCHANGED <<pexpired, perrors, tx_underruns, historyVars>>

\* History: no report without an underrun since the last reading, one report
\* for any number of them, and either answer if the counter fell back too.
CalledFor == CASE ~ unread             -> "none"
               [] unread /\ fell_back   -> "either"
               [] unread /\ ~ fell_back -> "report"

\* skiq_read_tx_num_underruns, without the TX locks.
ReadUnderruns(p) ==
  /\ PollerAt(p, "read")
  /\ \/ /\ perrors' = [perrors EXCEPT ![p] = sdk_underruns]
        /\ due' = [due EXCEPT ![p] = CalledFor]
        /\ unread' = FALSE /\ fell_back' = FALSE
        /\ PollerGoto(p, "compare") /\ UNCHANGED pret
     \/ PollerReturn(p, STREAM_ERROR) /\ UNCHANGED <<perrors, historyVars>>
  /\ PollerOnly /\ UNCHANGED <<pexpired, tx_underruns>>

\* Rebase, then report an increase; tx_status_mutex is released either way.
CompareUnderruns(p) ==
  /\ PollerAt(p, "compare")
  /\ tx_underruns' = perrors[p]
  /\ perrors' = [perrors EXCEPT ![p] = 0]
  /\ IF perrors[p] > tx_underruns
     THEN PollerReturn(p, UNDERFLOW)
     ELSE PollerGoto(p, "pace") /\ UNCHANGED pret
  /\ due' = [due EXCEPT ![p] = "none"]
  /\ PollerOnly /\ UNCHANGED <<pexpired, unread, fell_back>>

\* Deadline test, then a wait of at most 1 ms that only a stop cuts short.
PaceTest(p) ==
  /\ PollerAt(p, "pace")
  /\ \/ pexpired[p] /\ PollerReturn(p, TIMEOUT)
     \/ /\ CompletionMutexFree
        /\ IF tx_writes_stopping THEN PollerReturn(p, STREAM_ERROR)
                                 ELSE PollerGoto(p, "lock") /\ UNCHANGED pret
  /\ PollerOnly /\ UNCHANGED <<pexpired, perrors, tx_underruns, historyVars>>

LeavePoll(p) ==
  /\ PollerAt(p, "leave") /\ CompletionMutexFree
  /\ active_tx_status_readers' = active_tx_status_readers - 1
  /\ PollerGoto(p, "leaveNotify")
  /\ pret' = [pret EXCEPT ![p] = NoResult]
  /\ pexpired' = [pexpired EXCEPT ![p] = FALSE]
  /\ PollerFrame
  /\ UNCHANGED <<controlVars, active_tx_writers, perrors, tx_underruns, historyVars>>

NotifyPollLeft(p) ==
  /\ PollerAt(p, "leaveNotify")
  /\ PollerGoto(p, "idle")
  /\ wpc' = WokenByChanged(wpc) /\ cpc' = WokenByChanged(cpc)
  /\ UNCHANGED <<streamVars, cop, tx_writes_stopping, countVars, startVars, ringVars,
                 progressVars, wret, WriterLocals, pexpired, perrors, pret, statusVars>>

PollerStep(p) == \/ LockStatus(p) \/ CheckStart(p) \/ ReadUnderruns(p)
                 \/ CompareUnderruns(p) \/ PaceTest(p)
                 \/ LeavePoll(p) \/ NotifyPollLeft(p)

----------------------------------------------------------------------------
(* tx_streaming_start, and the hardware *)

OthersFrame == UNCHANGED <<controlVars, tx_writes_stopping, countVars, ringVars,
                           progressVars, pollerVars>>

\* A successful start also clears the SDK's underrun counter.
HardwareStarts == /\ hw' = TRUE
                  /\ sdk_underruns' = 0 /\ underrun_events' = 0
                  /\ unread' = FALSE /\ fell_back' = FALSE /\ UNCHANGED due

\* skiq_start_tx_streaming_on_1pps returns: the edge came, or an error.
PpsEdge ==
  /\ pps = "starting"
  /\ \/ pps' = "started" /\ HardwareStarts
     \/ pps' = "failed" /\ UNCHANGED <<hw, sdk_underruns, underrun_events, historyVars>>
  /\ OthersFrame
  /\ UNCHANGED <<device_alive, active_tx_stream, tx_stream_active, tx_completion,
                 first_transmit, tx_start_finished, tx_start_status, writerVars,
                 tx_underruns>>

\* scoped_lock(tx_mutex, tx_status_mutex)
PpsPublish ==
  /\ pps \in {"started", "failed"} /\ TxMutexFree /\ StatusMutexFree
  /\ tx_underruns' = IF pps = "started" THEN 0 ELSE tx_underruns
  /\ tx_start_status' = IF pps = "started" THEN 0 ELSE STREAM_ERROR
  /\ tx_start_finished' = TRUE
  /\ pps' = "published"
  /\ OthersFrame
  /\ UNCHANGED <<streamVars, first_transmit, writerVars, sdk_underruns,
                 underrun_events, historyVars>>

PpsNotify ==
  /\ pps = "published"
  /\ pps' = "done"
  /\ wpc' = WokenByTxCv(wpc)
  /\ OthersFrame
  /\ UNCHANGED <<streamVars, first_transmit, tx_start_finished, tx_start_status,
                 wret, WriterLocals, statusVars>>

Underrun ==
  /\ hw /\ underrun_events < MaxUnderruns
  /\ sdk_underruns' = sdk_underruns + 1 /\ underrun_events' = underrun_events + 1
  /\ unread' = TRUE
  /\ OthersFrame
  /\ UNCHANGED <<streamVars, startVars, writerVars, tx_underruns, fell_back, due>>

\* The SDK counter may also fall back, which the poller rebases on.
CounterReset ==
  /\ hw /\ sdk_underruns > 0
  /\ sdk_underruns' = 0
  /\ fell_back' = TRUE
  /\ OthersFrame
  /\ UNCHANGED <<streamVars, startVars, writerVars, tx_underruns, underrun_events,
                 unread, due>>

----------------------------------------------------------------------------
(* setupStream, activateStream *)

ControlIdle == cpc = "idle" /\ device_alive

ControlFrame == UNCHANGED <<countVars, progressVars, pollerVars>>

\* A second TX stream is refused; initializeTxBuffers replaces the pool and
\* the bookkeeping, and leaves whatever the SDK still owns to its contexts.
\* A notification of the replaced bookkeeping finds nobody asleep.
SetupStream ==
  /\ ControlIdle /\ ~ active_tx_stream /\ NoCallInProgress
  /\ tx_completion < MaxStreams
  /\ tx_completion' = tx_completion + 1
  /\ tx_block_index' = 0
  /\ active_tx_stream' = TRUE
  /\ unnotified' = FALSE
  /\ ControlFrame
  /\ UNCHANGED <<controlVars, device_alive, tx_stream_active, hw, tx_writes_stopping,
                 startVars, slots, inflight, writerVars, statusVars>>

\* The refusals and the five SDK configuration calls, any of which may fail
\* and leave everything as it was; then the PPS gate of an earlier start goes.
ActivateStream ==
  /\ ControlIdle /\ active_tx_stream
  /\ ~ tx_stream_active /\ pps = "none"
  /\ first_transmit' = FALSE
  /\ cpc' \in {"start", "arm"} /\ cop' = "activate"
  /\ ControlFrame
  /\ UNCHANGED <<streamVars, tx_writes_stopping, tx_start_finished, tx_start_status,
                 pps, ringVars, writerVars, statusVars>>

\* skiq_start_tx_streaming
StartNow ==
  /\ cpc = "start"
  /\ \/ /\ HardwareStarts /\ tx_stream_active' = TRUE
        /\ cpc' = "baseline" /\ UNCHANGED cop
     \/ /\ UNCHANGED <<hw, sdk_underruns, underrun_events, historyVars,
                       tx_stream_active>>
        /\ cpc' = "idle" /\ cop' = "none"
  /\ ControlFrame
  /\ UNCHANGED <<device_alive, active_tx_stream, tx_completion, tx_writes_stopping,
                 startVars, ringVars, writerVars, tx_underruns>>

ResetBaseline ==
  /\ cpc = "baseline" /\ StatusMutexFree
  /\ tx_underruns' = 0
  /\ cpc' = "open"
  /\ ControlFrame
  /\ UNCHANGED <<streamVars, cop, tx_writes_stopping, startVars, ringVars, writerVars,
                 sdk_underruns, underrun_events, historyVars>>

ArmPps ==
  /\ cpc = "arm" /\ TxMutexFree
  /\ tx_start_finished' = FALSE /\ tx_start_status' = 0
  /\ cpc' = "spawn"
  /\ ControlFrame
  /\ UNCHANGED <<streamVars, cop, tx_writes_stopping, first_transmit, pps, ringVars,
                 writerVars, statusVars>>

\* The thread may fail to start, which activateStream turns into an error.
SpawnPps ==
  /\ cpc = "spawn"
  /\ \/ pps' = "starting" /\ cpc' = "gate" /\ UNCHANGED cop
     \/ cpc' = "idle" /\ cop' = "none" /\ UNCHANGED pps
  /\ ControlFrame
  /\ UNCHANGED <<streamVars, tx_writes_stopping, first_transmit, tx_start_finished,
                 tx_start_status, ringVars, writerVars, statusVars>>

CloseGate ==
  /\ cpc = "gate"
  /\ first_transmit' = TRUE /\ tx_stream_active' = TRUE
  /\ cpc' = "open"
  /\ ControlFrame
  /\ UNCHANGED <<device_alive, active_tx_stream, tx_completion, hw, cop,
                 tx_writes_stopping, tx_start_finished, tx_start_status, pps,
                 ringVars, writerVars, statusVars>>

OpenAdmission ==
  /\ cpc = "open" /\ TxMutexFree /\ CompletionMutexFree
  /\ tx_writes_stopping' = FALSE
  /\ cpc' = "idle" /\ cop' = "none"
  /\ ControlFrame
  /\ UNCHANGED <<streamVars, startVars, ringVars, writerVars, statusVars>>

----------------------------------------------------------------------------
(* deactivateStream, closeStream, the destructor: stopTxStream *)

MayStop(op) == /\ op = "deactivate" => active_tx_stream
               /\ op = "close" => active_tx_stream /\ ~ tx_stream_active

\* closeStream refuses an active stream; it and the destructor are never
\* called while another call on the stream has not returned.
StopCall(op) ==
  /\ ControlIdle
  /\ MayStop(op)
  /\ op # "deactivate" => NoCallInProgress
  /\ cop' = op /\ cpc' = "stop"
  /\ ControlFrame
  /\ UNCHANGED <<streamVars, tx_writes_stopping, startVars, ringVars, writerVars,
                 statusVars>>

\* stopTxWrites: shut the gate under both mutexes, then notify both.
CloseAdmission ==
  /\ cpc = "stop" /\ TxMutexFree /\ CompletionMutexFree
  /\ tx_writes_stopping' = TRUE
  /\ cpc' = "notifyTxCv"
  /\ ControlFrame
  /\ UNCHANGED <<streamVars, cop, startVars, ringVars, writerVars, statusVars>>

NotifyStop ==
  /\ \/ cpc = "notifyTxCv" /\ cpc' = "notifyChanged" /\ wpc' = WokenByTxCv(wpc)
     \/ cpc = "notifyChanged" /\ cpc' = "drain" /\ wpc' = WokenByChanged(wpc)
  /\ ControlFrame
  /\ UNCHANGED <<streamVars, cop, tx_writes_stopping, startVars, ringVars, wret,
                 WriterLocals, statusVars>>

\* Mutated: status calls are not waited for.
NoWriters == active_tx_writers = 0

NoneAdmitted == active_tx_writers = 0 /\ active_tx_status_readers = 0

\* changed.wait until both admission counts are zero.
Drain ==
  /\ \/ /\ cpc = "drain" /\ CompletionMutexFree
        /\ cpc' = IF NoneAdmitted THEN "join" ELSE "drainBlocking"
     \/ cpc = "drainBlocking" /\ cpc' = "drainAsleep"
  /\ ControlFrame
  /\ UNCHANGED <<streamVars, cop, tx_writes_stopping, startVars, ringVars, writerVars,
                 statusVars>>

JoinPps ==
  /\ cpc = "join" /\ pps \in {"none", "done"}
  /\ pps' = "none"
  /\ cpc' = IF tx_stream_active /\ active_tx_stream THEN "sdkStop" ELSE "finish"
  /\ ControlFrame
  /\ UNCHANGED <<streamVars, cop, tx_writes_stopping, first_transmit,
                 tx_start_finished, tx_start_status, ringVars, writerVars, statusVars>>

\* Mutated: a failed stop gives up the responsibility to stop.
ForgetFailedStop == hw' = hw /\ tx_stream_active' = FALSE

KeepFailedStop == UNCHANGED <<hw, tx_stream_active>>

\* skiq_stop_tx_streaming: 0 and -ENODEV mean stopped.  Any other status
\* leaves tx_stream_active and the closed gate for a retry.
StopHardware ==
  /\ cpc = "sdkStop"
  /\ \/ hw' = FALSE /\ tx_stream_active' = FALSE
     \/ KeepFailedStop
  /\ cpc' = "finish"
  /\ ControlFrame
  /\ UNCHANGED <<device_alive, active_tx_stream, tx_completion, cop, tx_writes_stopping,
                 startVars, ringVars, writerVars, statusVars>>

\* closeStream drops the token and the pool; the destructor does so whatever
\* the SDK answered, and then skiq_exit stops the card.
FinishStop ==
  /\ cpc = "finish"
  /\ cpc' = "idle" /\ cop' = "none"
  /\ active_tx_stream' = (cop = "deactivate" /\ active_tx_stream)
  /\ device_alive' = (cop # "destroy")
  /\ hw' = (hw /\ cop # "destroy")
  /\ ControlFrame
  /\ UNCHANGED <<tx_stream_active, tx_completion, tx_writes_stopping, startVars,
                 ringVars, writerVars, statusVars>>

StopStep == \/ CloseAdmission \/ NotifyStop \/ Drain \/ JoinPps \/ StopHardware
            \/ FinishStop

ControlStep == \/ StartNow \/ ResetBaseline \/ ArmPps \/ SpawnPps \/ CloseGate
               \/ OpenAdmission \/ StopStep

----------------------------------------------------------------------------
\* Nothing is left to do once the device is gone and the SDK is quiet.
Quiet == ~ device_alive /\ inflight = {} /\ ~ unnotified /\ UNCHANGED vars

Requests == {Malformed} \cup 0 .. MaxBlocks

Next ==
  \/ \E n \in Requests : WriteCall(n)
  \/ WriterDeadline \/ WakeWriter \/ WriterStep
  \/ \E p \in Pollers : PollCall(p) \/ PollerDeadline(p) \/ PollerStep(p)
  \/ \E g \in Streams, i \in Slots : Complete(g, i)
  \/ NotifyCompleted
  \/ PpsEdge \/ PpsPublish \/ PpsNotify \/ Underrun \/ CounterReset
  \/ SetupStream \/ ActivateStream \/ ControlStep
  \/ \E op \in {"deactivate", "close", "destroy"} : StopCall(op)
  \/ Quiet

Spec == Init /\ [][Next]_vars

CompletionStep == NotifyCompleted \/ \E g \in Streams, i \in Slots : Complete(g, i)

\* Threads run, SDK calls return, a passed deadline ends a wait, and a thread
\* that finds its mutexes free again and again gets them (strong fairness).
\* Nobody owes a call, a deadline, a spurious wake-up, a PPS edge or a callback.
Fairness == /\ WF_vars(WriterStep \/ (wexpired /\ WakeWriter))
            /\ \A p \in Pollers : SF_vars(PollerStep(p))
            /\ SF_vars(PpsPublish \/ PpsNotify)
            /\ SF_vars(ControlStep)

FairSpec == Spec /\ Fairness

\* With an assumption about the SDK: it completes each block it has accepted.  Its
\* documentation leaves open what becomes of them once streaming stops.
CompletingSpec == FairSpec /\ SF_vars(CompletionStep)

----------------------------------------------------------------------------
(* Properties *)

WriterPcs == {"idle", "check", "ppsTest", "ppsBlocking", "ppsAsleep", "slotTest",
              "slotBlocking", "slotAsleep", "prepare", "submit", "release",
              "fullEnter", "fullTest", "fullBlocking", "fullAsleep", "accepted",
              "leave", "leaveNotify"}
PollerPcs == {"idle", "lock", "check", "read", "compare", "pace", "leave",
              "leaveNotify"}
ControlPcs == {"idle", "start", "baseline", "arm", "spawn", "gate", "open", "stop",
               "notifyTxCv", "notifyChanged", "drain", "drainBlocking",
               "drainAsleep", "join", "sdkStop", "finish"}
StopPcs == {"stop", "notifyTxCv", "notifyChanged", "drain", "drainBlocking",
            "drainAsleep", "join", "sdkStop", "finish"}

StreamTypeOK ==
  /\ device_alive \in BOOLEAN /\ active_tx_stream \in BOOLEAN
  /\ tx_stream_active \in BOOLEAN /\ hw \in BOOLEAN
  /\ tx_completion \in Streams

ControlTypeOK ==
  /\ cpc \in ControlPcs
  /\ cop \in {"none", "activate", "deactivate", "close", "destroy"}
  /\ tx_writes_stopping \in BOOLEAN
  /\ active_tx_writers \in Nat /\ active_tx_status_readers \in Nat

StartTypeOK ==
  /\ first_transmit \in BOOLEAN /\ tx_start_finished \in BOOLEAN
  /\ tx_start_status \in {0, STREAM_ERROR}
  /\ pps \in {"none", "starting", "started", "failed", "published", "done"}

RingTypeOK ==
  /\ slots \in [Streams -> [Slots -> {0, 1}]]
  /\ tx_block_index \in Slots
  /\ inflight \subseteq Streams \X Slots
  /\ unnotified \in BOOLEAN
  /\ progressed \in BOOLEAN /\ sdk_completed \subseteq Streams

WriterTypeOK ==
  /\ wpc \in WriterPcs
  /\ wn \in Requests /\ curr_block \in 0 .. MaxBlocks
  /\ wexpired \in BOOLEAN /\ wstatus \in {"ok", "full", "hard", "exception"}
  /\ wret \in {NoResult, STREAM_ERROR, TIMEOUT} \cup 0 .. MaxBlocks
  /\ accepted \in Seq(Nat)

PollerTypeOK ==
  /\ ppc \in [Pollers -> PollerPcs]
  /\ pexpired \in [Pollers -> BOOLEAN]
  /\ perrors \in [Pollers -> Nat]
  /\ pret \in [Pollers -> {NoResult, STREAM_ERROR, TIMEOUT, UNDERFLOW}]
  /\ tx_underruns \in Nat /\ sdk_underruns \in Nat
  /\ underrun_events \in Nat /\ unread \in BOOLEAN /\ fell_back \in BOOLEAN
  /\ due \in [Pollers -> {"none", "either", "report"}]

\* Every variable has its type: the slots are 0 or 1, the ring index is inside
\* the ring, results are the API's codes or a number of blocks.
TypeOK == /\ StreamTypeOK /\ ControlTypeOK /\ StartTypeOK
          /\ RingTypeOK /\ WriterTypeOK /\ PollerTypeOK

\* A slot is marked exactly while its block is reserved by the writer or owned
\* by the SDK, in its own generation, never both: the writer does not touch a
\* block the SDK still reads, completions never find a slot unreserved, and
\* callbacks of a closed stream never free a slot of the stream after it.
SlotOwnership ==
  /\ \A g \in Streams, i \in Slots :
        slots[g][i] = 1 <=> \/ <<g, i>> \in inflight
                            \/ Holding /\ g = tx_completion /\ i = tx_block_index
  /\ Holding => <<tx_completion, tx_block_index>> \notin inflight

WriterAdmitted == wpc \notin {"idle", "leaveNotify"}
PollerAdmitted(p) == ppc[p] \notin {"idle", "leaveNotify"}
AdmittedPollers   == {p \in Pollers : PollerAdmitted(p)}

\* The admission counters that stopTxWrites drains on count the calls that may
\* still touch the stream, whichever way each call ends.
AdmissionCounts ==
  /\ active_tx_writers = IF WriterAdmitted THEN 1 ELSE 0
  /\ active_tx_status_readers = Cardinality(AdmittedPollers)

\* From the join on, a stop runs alone: the gate is shut and no write or status
\* call is admitted, so none uses the SDK handle while or after it is stopped.
Drained ==
  /\ cpc \in {"join", "sdkStop", "finish"} => ~ WriterAdmitted
  /\ cpc \in {"join", "sdkStop", "finish"} =>
        \A p \in Pollers : ~ PollerAdmitted(p)
  /\ cpc \in {"sdkStop", "finish"} => pps = "none"

\* A block is submitted only to hardware that runs: never before a PPS start
\* has succeeded, after one has failed, or after a stop, also a failed one.
SubmitsToRunningHardware ==
  wpc \in {"prepare", "submit"} => hw /\ tx_stream_active

\* Running hardware and a PPS worker have one owner: a failed stop keeps them
\* for a retry, so the SDK is started only from rest, and a stream without a
\* token, closed or destroyed, leaves neither behind.
HardwareOwned ==
  cpc \in {"start", "arm", "spawn"} \/ ~ active_tx_stream => ~ hw /\ pps = "none"

\* What writeStream returns is what the SDK accepted: the first blocks of the
\* request, each once and in order, and an error or timeout only for none.
AcceptedPrefix ==
  wpc = "leave" =>
    /\ Len(accepted) = IF wret > 0 THEN wret ELSE 0
    /\ \A k \in 1 .. Len(accepted) : accepted[k] = k - 1
    /\ wret = 0 => wn = 0

\* The step that leaves a comparison answers what its reading called for.
AnswersAsDue(p) ==
  ppc[p] = "compare" /\ ppc'[p] # "compare" =>
    /\ due[p] = "report" => pret'[p] = UNDERFLOW
    /\ due[p] = "none"   => pret'[p] # UNDERFLOW

\* readStreamStatus: an underrun since the SDK's counter was last read is
\* reported by the poll that reads it next, and no poll reports without one: of
\* two concurrent pollers one reports it, the other does not, and none of a
\* start is lost in or counted against the baseline of the start before.  If
\* the counter also fell back between the two readings the code cannot tell,
\* and may report or not: it rebases "so future increments remain visible".
UnderrunsReportedOnce == [][\A p \in Pollers : AnswersAsDue(p)]_vars

\* The comment at TxStreaming.cpp:353: a completion during skiq_transmit
\* satisfies the back-pressure predicate at once, so a writer never goes to
\* sleep for QUEUE_FULL after one.  It holds for one stream generation only:
\* a completion of a closed stream is counted in that stream's bookkeeping.
FullWaitSeesCompletions == wpc = "fullBlocking" => sdk_completed = {}

\* What does hold, over any number of reopened streams: a completion of the
\* writer's own stream between its reservation and its wait for QUEUE_FULL,
\* also one inside skiq_transmit, is never slept through.
OwnCompletionsSeen == wpc = "fullBlocking" => tx_completion \notin sdk_completed

\* A notification of the completion condition is under way.
WakeUpComing == unnotified \/ cpc \in {"notifyTxCv", "notifyChanged"}

\* stopTxWrites, writeStream, tx_streaming_start: a thread whose wait is over
\* never sleeps on with nobody left to wake it.  Between the test of a wait
\* and its sleep no flag, slot or count changes that the test has read.
NoWakeupLost ==
  /\ wpc = "ppsAsleep" /\ (tx_start_finished \/ tx_writes_stopping) =>
        pps = "published" \/ cpc = "notifyTxCv"
  /\ wpc = "slotAsleep" /\ (SlotFree \/ tx_writes_stopping) => WakeUpComing
  /\ wpc = "fullAsleep" /\ (progressed \/ tx_writes_stopping) => WakeUpComing
  /\ cpc = "drainAsleep" /\ NoneAdmitted =>
        wpc = "leaveNotify" \/ \E p \in Pollers : ppc[p] = "leaveNotify"

\* The PPS start has been handed to the SDK, which blocks until the edge.
AwaitingEdge == pps = "starting"

\* QUEUE_FULL with no block of the writer's own stream left to complete, and
\* none completed since its reservation: the queue was full of blocks of closed
\* streams, and only a stop or the deadline ends this wait.
Stranded == /\ wpc = "fullAsleep" /\ ~ progressed /\ tx_completion \notin sdk_completed
            /\ \A i \in Slots : <<tx_completion, i>> \notin inflight

\* A deactivation, close or destruction ends, whatever the writer and the
\* pollers were doing, unless it has to join a worker whose PPS edge never
\* comes; once the edge, or an error, has come it ends then too.
StopCompletes ==
  cpc \in StopPcs ~> cpc = "idle" \/ (cpc = "join" /\ AwaitingEdge)

\* A write ends, also one that waits for ever, provided the SDK completes
\* every block it has accepted, unless it waits for a PPS edge that does not
\* come or for room in a queue that only blocks of closed streams fill.
WriteReturns ==
  wpc # "idle" ~> \/ wpc = "idle"
                  \/ wpc = "ppsAsleep" /\ AwaitingEdge
                  \/ Stranded

\* The blocks, seen without threads: who owns each one.
Owner(g, i) == IF <<g, i>> \in inflight THEN "sdk"
               ELSE IF slots[g][i] = 1 THEN "writer" ELSE "driver"

Ownership == INSTANCE TxOwnership WITH
  owner <- [g \in 1 .. MaxStreams |-> [i \in Slots |-> Owner(g, i)]],
  current <- tx_completion,
  next <- IF wpc = "accepted" THEN NextSlot(tx_block_index) ELSE tx_block_index

\* Every step of the TX path is a step of the ownership protocol or none.
ImplementsOwnership == Ownership!Spec
=============================================================================

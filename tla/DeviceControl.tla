---------------------------- MODULE DeviceControl ----------------------------
(***************************************************************************)
(* The life of a device object (DeviceLifecycle.cpp) and the setters that  *)
(* change what timestamps depend on (RFControls.cpp, TimeClock.cpp,        *)
(* Settings.cpp).  The constructor acquires the SDK step by step and undoes*)
(* what it acquired when a step fails.  The setters read, write and check  *)
(* the card under the RX session's lifecycle mutex, from any thread, while *)
(* RX is inactive.  One process opens one device at a time.                *)
(***************************************************************************)
EXTENDS Naturals, Sequences

CONSTANTS
  Callers,   \* application threads that use setters
  SampleRates \* rates and bandwidths the card can be set to

\* A thread is not one of the other values of the mutex.
ASSUME CallersAssumption == {"free", "rx"} \cap Callers = {}

VARIABLES
  life,      \* "none", "constructing", "unwinding", "unwound" (the callback's guard has
             \* run), "open" or "closing"
  stage,     \* the constructor's or destructor's next step
  sdk,       \* skiq_init has succeeded and skiq_exit has not been called
  callback,  \* tx_complete_callback is registered with the SDK
  timing,    \* what the card does: rates, clocks and the choice of timestamp
  counters,  \* the timestamp counters: is an update scheduled for the next PPS edge;
             \* for the properties, was one at RX activation (armed), and have the
             \* counters been set since (jumped)
  lock,      \* who holds lifecycle_mutex_: "free", "rx" or a caller
  pc, req, previous, result,  \* where each caller is and what it knows
  rx,        \* "inactive", "starting", "active", "owned" (the stop failed)
  captured   \* the timing the receive worker converts timestamps with

deviceVars == <<life, stage, sdk, callback>>
callerVars == <<pc, req, previous, result>>
rxVars == <<rx, captured>>
vars == <<deviceVars, timing, counters, lock, callerVars, rxVars>>

ClockSources == {"internal", "external"}
PpsSources == {"unavailable", "external", "host"}
Timings == [rate : SampleRates, bandwidth : SampleRates, clock : ClockSources,
            pps : PpsSources, rfTimeSource : BOOLEAN]

Requests == {<<"rate", r>> : r \in SampleRates} \cup {<<"bandwidth", b>> : b \in SampleRates}
              \cup {<<"time_source", s>> : s \in PpsSources}
              \cup {<<"clock_source", s>> : s \in ClockSources}
              \cup {<<"timetype", t>> : t \in BOOLEAN}
              \cup {<<"hardware_time", h>> : h \in {"now", "1pps"}}
NoRequest == <<"none", 0>>
\* Nothing read, nothing captured: the value before a read and after its scope.
NoRates == [rate |-> 0, bandwidth |-> 0]
NoTiming == [rate |-> 0, bandwidth |-> 0, clock |-> "none", pps |-> "none",
             rfTimeSource |-> FALSE]
Op(c) == req[c][1]
Arg(c) == req[c][2]

ConstructorSteps ==
  <<"init", "topology", "read_parameters", "iq_order", "channels", "resolution",
    "chan_mode", "rates", "clock_source", "time_source", "register", "log">>

DestructorSteps == <<"shutdownTx", "shutdownRx", "unregister", "exit">>

TypeOK ==
  /\ life \in {"none", "constructing", "unwinding", "unwound", "open", "closing"}
  /\ stage \in 0..Len(ConstructorSteps)
  /\ sdk \in BOOLEAN /\ callback \in BOOLEAN
  /\ counters \in [scheduled : BOOLEAN, armed : BOOLEAN, jumped : BOOLEAN]
  /\ timing \in Timings /\ captured \in Timings \cup {NoTiming}
  /\ lock \in {"free", "rx"} \cup Callers
  /\ \A c \in Callers :
       /\ pc[c] \in {"idle", "read", "write", "readback", "kernel", "observe", "leave"}
       /\ req[c] \in Requests \cup {NoRequest}
       /\ previous[c] \in [rate : SampleRates, bandwidth : SampleRates] \cup {NoRates}
       /\ result[c] \in {"none", "ok", "error"}
  /\ rx \in {"inactive", "starting", "active", "owned"}

Init ==
  /\ life = "none" /\ stage = 0 /\ sdk = FALSE /\ callback = FALSE
  /\ timing \in {t \in Timings : t.rfTimeSource} /\ captured = NoTiming
  /\ counters = [scheduled |-> FALSE, armed |-> FALSE, jumped |-> FALSE]
  /\ lock = "free"
  /\ pc = [c \in Callers |-> "idle"] /\ req = [c \in Callers |-> NoRequest]
  /\ previous = [c \in Callers |-> NoRates] /\ result = [c \in Callers |-> "none"]
  /\ rx = "inactive"

-----------------------------------------------------------------------------
(* The constructor and the destructor.  Nobody else has the device. *)

\* Malformed options are refused before anything is acquired.
Construct ==
  /\ life = "none"
  /\ life' = "constructing" /\ stage' = 1
  /\ timing' = [timing EXCEPT !.rfTimeSource = TRUE]
  /\ UNCHANGED <<sdk, callback, counters, lock, callerVars, rxVars>>

Step == ConstructorSteps[stage]

\* What a step of the constructor does to the card; the optional sources may be
\* absent, and one that fails may have been written.
Configured ==
  CASE Step = "clock_source" ->
         \E s \in ClockSources : timing' \in {timing, [timing EXCEPT !.clock = s]}
    [] Step = "time_source" ->
         \E s \in PpsSources : timing' \in {timing, [timing EXCEPT !.pps = s]}
    [] OTHER -> UNCHANGED timing

ConstructStep ==
  /\ life = "constructing"
  /\ sdk' = (sdk \/ Step = "init")
  /\ callback' = (callback \/ Step = "register")
  /\ Configured
  /\ IF stage < Len(ConstructorSteps)
     THEN stage' = stage + 1 /\ UNCHANGED life
     ELSE stage' = 0 /\ life' = "open"
  /\ UNCHANGED <<counters, lock, callerVars, rxVars>>

\* A step fails or throws: what has been acquired is released.
ConstructFails ==
  /\ life = "constructing"
  /\ IF Step = "init"
     THEN life' = "none" /\ stage' = 0
     ELSE life' = "unwinding" /\ UNCHANGED stage
  /\ Configured
  /\ UNCHANGED <<sdk, callback, counters, lock, callerVars, rxVars>>

\* mutated: the registration is not undone when the last log call throws
RollbackSdkOnly == UNCHANGED callback

CallbackRollback == callback' = (callback /\ Step # "log")

\* The rollback guards run one after the other, in reverse: the callback's, if
\* initializeTxCallbacks has armed it, then skiq_exit.
Unwind ==
  /\ \/ /\ life = "unwinding" /\ CallbackRollback
        /\ life' = "unwound" /\ UNCHANGED <<sdk, stage>>
     \/ /\ life = "unwound" /\ sdk' = FALSE
        /\ life' = "none" /\ stage' = 0 /\ UNCHANGED callback
  /\ UNCHANGED <<timing, counters, lock, callerVars, rxVars>>

\* Callers serialize destruction with API calls.
Destroy ==
  /\ life = "open" /\ lock = "free" /\ \A c \in Callers : pc[c] = "idle"
  /\ life' = "closing" /\ stage' = 1
  /\ UNCHANGED <<sdk, callback, timing, counters, lock, callerVars, rxVars>>

\* The worker is joined even when the hardware does not stop; nothing is left
\* of the session afterwards.
DestroyStep ==
  /\ life = "closing"
  /\ LET step == DestructorSteps[stage] IN
       /\ IF step = "shutdownRx" THEN rx' = "inactive" /\ captured' = NoTiming
          ELSE UNCHANGED rxVars
       /\ callback' = (callback /\ step # "unregister")
       /\ sdk' = (sdk /\ step # "exit")
  /\ IF stage < Len(DestructorSteps)
     THEN stage' = stage + 1 /\ UNCHANGED life
     ELSE stage' = 0 /\ life' = "none"
  /\ UNCHANGED <<timing, counters, lock, callerVars>>

-----------------------------------------------------------------------------
(* RX activation, from one lifecycle thread, as the setters see it. *)

\* mutated: the mutex is not taken
NoMutex == TRUE
LockFree == lock = "free"

\* The timing is read and captured under the mutex, the hardware started.
ActivateRx ==
  /\ life = "open" /\ LockFree /\ rx = "inactive"
  /\ lock' = "rx" /\ rx' = "starting" /\ captured' = timing
  /\ counters' = [counters EXCEPT !.armed = counters.scheduled, !.jumped = FALSE]
  /\ UNCHANGED <<deviceVars, timing, callerVars>>

\* What was captured is gone with the worker.
Kept == IF rx' = "inactive" THEN NoTiming ELSE captured

RxStarted ==
  /\ rx = "starting"
  /\ rx' \in {"active", "inactive", "owned"}
  /\ captured' = Kept
  /\ lock' = "free"
  /\ UNCHANGED <<deviceVars, timing, counters, callerVars>>

\* A stop that fails leaves the hardware owned; a retry may succeed.
DeactivateRx ==
  /\ life = "open" /\ LockFree /\ rx \in {"active", "owned"}
  /\ rx' \in {"inactive", "owned"}
  /\ captured' = Kept
  /\ UNCHANGED <<deviceVars, timing, counters, lock, callerVars>>

-----------------------------------------------------------------------------
(* The guarded setters. *)

Go(c, where) == pc' = [pc EXCEPT ![c] = where]
Leave(c, how) == Go(c, "leave") /\ result' = [result EXCEPT ![c] = how]

\* mutated: only running hardware refuses a change, not hardware still owned
RxNotRunning == rx # "active"
RxInactive == rx = "inactive"

\* configureInactive takes the mutex; with RX active it throws and changes nothing.
SetterCall(c) ==
  /\ life = "open" /\ pc[c] = "idle" /\ LockFree /\ RxInactive
  /\ lock' = c
  /\ \E r \in Requests :
       /\ req' = [req EXCEPT ![c] = r]
       /\ Go(c, IF r[1] \in {"rate", "bandwidth", "hardware_time"} THEN "read" ELSE "write")
  /\ UNCHANGED <<deviceVars, timing, counters, previous, result, rxVars>>

\* mutated: the SDK's answer is not stored
KeptPrevious(c) == UNCHANGED previous
FreshPrevious(c) ==
  previous' = [previous EXCEPT ![c] =
                 [rate |-> timing.rate, bandwidth |-> timing.bandwidth]]

\* readRateAndBandwidth before the write; a hardware-time update only needs the
\* frequency of the system counter, which is the card's and never changes.
ReadPrevious(c) ==
  /\ pc[c] = "read"
  /\ \/ /\ IF Op(c) = "hardware_time" THEN UNCHANGED previous ELSE FreshPrevious(c)
        /\ Go(c, "write") /\ UNCHANGED result
     \/ Leave(c, "error") /\ UNCHANGED previous
  /\ UNCHANGED <<deviceVars, timing, counters, lock, req, rxVars>>

Smaller(a, b) == IF a < b THEN a ELSE b

\* What the SDK is asked to do.
Requested(c) ==
  CASE Op(c) = "rate" ->
         [timing EXCEPT !.rate = Arg(c),
                        !.bandwidth = Smaller(previous[c].bandwidth, Arg(c))]
    [] Op(c) = "bandwidth" ->
         [timing EXCEPT !.rate = previous[c].rate, !.bandwidth = Arg(c)]
    [] Op(c) = "time_source" -> [timing EXCEPT !.pps = Arg(c)]
    [] Op(c) = "clock_source" -> [timing EXCEPT !.clock = Arg(c)]
    [] Op(c) = "timetype" -> [timing EXCEPT !.rfTimeSource = Arg(c)]
    [] Op(c) = "hardware_time" -> timing

\* skiq_update_timestamps, or an update that waits for the next PPS edge.
Updated(c) ==
  CASE Op(c) # "hardware_time" -> counters
    [] Op(c) = "hardware_time" /\ Arg(c) = "now" -> [counters EXCEPT !.jumped = TRUE]
    [] OTHER -> [counters EXCEPT !.scheduled = TRUE]

\* Where a setter goes on after its write.
AfterWrite(c) ==
  CASE Op(c) \in {"rate", "bandwidth"} -> Go(c, "readback") /\ UNCHANGED result
    [] Op(c) = "time_source" /\ Arg(c) # "unavailable" -> Go(c, "observe") /\ UNCHANGED result
    [] OTHER -> Leave(c, "ok")

\* One SDK write.  A failed one may have taken effect; a time source then goes to
\* the kernel attribute.  The driver's own timetype cannot fail.
SetterWrite(c) ==
  /\ pc[c] = "write"
  /\ \/ timing' = Requested(c) /\ counters' = Updated(c) /\ AfterWrite(c)
     \/ /\ Op(c) # "timetype"
        /\ timing' \in {timing, Requested(c)} /\ counters' \in {counters, Updated(c)}
        /\ IF Op(c) = "time_source" THEN Go(c, "kernel") /\ UNCHANGED result
           ELSE Leave(c, "error")
  /\ UNCHANGED <<deviceVars, lock, req, previous, rxVars>>

\* writeKernel1PpsSource; it has no value for "unavailable".
KernelWrite(c) ==
  /\ pc[c] = "kernel"
  /\ \/ /\ Arg(c) # "unavailable"
        /\ timing' = Requested(c) /\ AfterWrite(c)
     \/ UNCHANGED timing /\ Leave(c, "error")
  /\ UNCHANGED <<deviceVars, counters, lock, req, previous, rxVars>>

\* The post-write readback, or check_1pps's two observations a second apart: a
\* failure is reported although the card has changed.
Observe(c) ==
  /\ pc[c] \in {"readback", "observe"}
  /\ \E how \in {"ok", "error"} : Leave(c, how)
  /\ UNCHANGED <<deviceVars, timing, counters, lock, req, previous, rxVars>>

Unlock(c) ==
  /\ pc[c] = "leave"
  /\ Go(c, "idle") /\ lock' = "free"
  /\ req' = [req EXCEPT ![c] = NoRequest] /\ result' = [result EXCEPT ![c] = "none"]
  /\ previous' = [previous EXCEPT ![c] = NoRates]
  /\ UNCHANGED <<deviceVars, timing, counters, rxVars>>

Setter(c) ==
  \/ SetterCall(c) \/ ReadPrevious(c) \/ SetterWrite(c) \/ KernelWrite(c)
  \/ Observe(c) \/ Unlock(c)

\* The edge a scheduled update waits for: RX may have been activated since, and
\* the device that scheduled it may be gone.
PpsEdge ==
  /\ counters.scheduled /\ timing.pps # "unavailable"
  /\ counters' = [counters EXCEPT !.scheduled = FALSE, !.jumped = TRUE]
  /\ UNCHANGED <<deviceVars, timing, lock, callerVars, rxVars>>

Next ==
  \/ Construct \/ ConstructStep \/ ConstructFails \/ Unwind
  \/ Destroy \/ DestroyStep
  \/ ActivateRx \/ RxStarted \/ DeactivateRx
  \/ \E c \in Callers : Setter(c)
  \/ PpsEdge

Spec == Init /\ [][Next]_vars

-----------------------------------------------------------------------------
\* The SDK's lifetime spans all use of it.  It is left last: while it may call
\* back, receive or serve a setter it is initialized; and whenever no device
\* exists, after a constructor that failed at any step or a destructor, it is
\* released and holds no callback, so that the next constructor can start
\* (DeviceLifecycle.cpp:146-162, 198-208, 388-405).
SdkLifetime ==
  /\ callback \/ rx # "inactive" \/ (\E c \in Callers : pc[c] # "idle") => sdk
  /\ life = "none" => ~sdk /\ ~callback

\* A setter that returns without an exception leaves the card as requested: no
\* other setter comes between its write and its check, not even in the second
\* that check_1pps sleeps (RFControls.cpp:672-690, TimeClock.cpp:226-252).
SuccessHolds ==
  \A c \in Callers :
    pc[c] = "leave" /\ result[c] = "ok" => timing = Requested(c)

\* A bandwidth change never undoes a rate change made by another thread or
\* direction (RFControls.cpp:692-705): only a rate setter changes the rate.
OnlyRateSettersChangeRate ==
  [][timing'.rate # timing.rate =>
       \E c \in Callers : pc[c] = "write" /\ Op(c) = "rate"]_vars

\* While RX owns its hardware, the card does what the activation captured, also
\* after a failed stop (RxStreamSession.cpp:43-50).
TimingAsCaptured == rx # "inactive" => timing = captured

\* The timestamp counters are not set under an RX session, except by an update that
\* was scheduled for a PPS edge before the session began (TimeClock.cpp:323-340).
SetOnlyIfArmed == rx # "inactive" /\ counters.jumped => counters.armed
=============================================================================

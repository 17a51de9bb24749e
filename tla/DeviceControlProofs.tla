------------------------- MODULE DeviceControlProofs -------------------------
(***************************************************************************)
(* Proofs about DeviceControl for any set of threads and any rates: the    *)
(* lifecycle mutex makes every guarded setter atomic against the others,   *)
(* against RX activation and against the life of the device.               *)
(***************************************************************************)
EXTENDS DeviceControl, TLAPS

USE CallersAssumption
USE DEF vars, deviceVars, callerVars, rxVars

Places == {"idle", "read", "write", "readback", "kernel", "observe", "leave"}

PlacesInv == pc \in [Callers -> Places]

\* Exactly the thread inside a setter, or RX activation, holds the mutex.
LockInv ==
  /\ lock \in {"free", "rx"} \cup Callers
  /\ \A c \in Callers : pc[c] # "idle" <=> lock = c
  /\ rx = "starting" <=> lock = "rx"

\* Setters and RX use an open device; a setter finds RX inactive; the destructor
\* starts when nobody is inside and leaves RX behind with its second step.
LifeInv ==
  /\ lock # "free" => life = "open"
  /\ lock \in Callers => rx = "inactive"
  /\ rx # "inactive" => life \in {"open", "closing"}
  /\ stage \in Nat
  /\ life = "closing" /\ stage > 2 => rx = "inactive"

\* The write is done, and no failure has been seen.
Wrote(c) == pc[c] \in {"readback", "observe"} \/ (pc[c] = "leave" /\ result[c] = "ok")

\* A setter past its write holds what it has written.
WroteInv ==
  /\ result = [c \in Callers |-> result[c]]
  /\ \A c \in Callers : Wrote(c) => timing = Requested(c)

MutexInv == LockInv /\ LifeInv /\ PlacesInv

-----------------------------------------------------------------------------
LEMMA MutexInit == Init => MutexInv
  BY DEF Init, MutexInv, LockInv, LifeInv, PlacesInv, Places

\* The mutex is held by exactly one side, whatever step is taken.
LEMMA MutexStep == MutexInv /\ [Next]_vars => MutexInv'
<1> SUFFICES ASSUME MutexInv, [Next]_vars PROVE MutexInv'
  OBVIOUS
<1> USE DEF MutexInv, LockInv, LifeInv, PlacesInv, Places
<1>1. CASE Construct
  BY <1>1 DEF Construct
<1>2. CASE ConstructStep
  BY <1>2 DEF ConstructStep
<1>3. CASE ConstructFails
  BY <1>3 DEF ConstructFails
<1>4. CASE Unwind
  BY <1>4 DEF Unwind
<1>5. CASE Destroy
  BY <1>5 DEF Destroy
<1>6. CASE DestroyStep
  BY <1>6 DEF DestroyStep, DestructorSteps
<1>7. CASE ActivateRx
  BY <1>7 DEF ActivateRx, LockFree
<1>8. CASE RxStarted
  BY <1>8 DEF RxStarted
<1>9. CASE DeactivateRx
  BY <1>9 DEF DeactivateRx, LockFree
<1>10. ASSUME NEW c \in Callers, Setter(c) PROVE MutexInv'
  <2>1. CASE SetterCall(c)
    BY <2>1 DEF SetterCall, Go, LockFree, RxInactive
  <2>2. CASE ReadPrevious(c)
    BY <2>2 DEF ReadPrevious, Go, Leave
  <2>3. CASE SetterWrite(c)
    BY <2>3 DEF SetterWrite, AfterWrite, Go, Leave
  <2>4. CASE KernelWrite(c)
    BY <2>4 DEF KernelWrite, AfterWrite, Go, Leave
  <2>5. CASE Observe(c)
    BY <2>5 DEF Observe, Go, Leave
  <2>6. CASE Unlock(c)
    BY <2>6 DEF Unlock, Go
  <2> QED
    BY <1>10, <2>1, <2>2, <2>3, <2>4, <2>5, <2>6 DEF Setter
<1>11. CASE PpsEdge \/ UNCHANGED vars
  BY <1>11 DEF PpsEdge
<1> QED
  BY <1>1, <1>2, <1>3, <1>4, <1>5, <1>6, <1>7, <1>8, <1>9, <1>10, <1>11 DEF Next


-----------------------------------------------------------------------------
\* While RX owns hardware no setter is inside and no constructor runs.
LEMMA CapturedStep ==
  MutexInv /\ TimingAsCaptured /\ [Next]_vars => TimingAsCaptured'
<1> SUFFICES ASSUME MutexInv, TimingAsCaptured, [Next]_vars PROVE TimingAsCaptured'
  OBVIOUS
<1> USE DEF MutexInv, LockInv, LifeInv, PlacesInv, Places, TimingAsCaptured
<1>1. CASE Construct
  BY <1>1 DEF Construct
<1>2. CASE ConstructStep
  BY <1>2 DEF ConstructStep
<1>3. CASE ConstructFails
  BY <1>3 DEF ConstructFails
<1>4. CASE Unwind \/ Destroy
  BY <1>4 DEF Unwind, Destroy
<1>5. CASE DestroyStep
  BY <1>5 DEF DestroyStep
<1>6. CASE ActivateRx \/ RxStarted \/ DeactivateRx
  BY <1>6 DEF ActivateRx, RxStarted, DeactivateRx, Kept
<1>7. ASSUME NEW c \in Callers, Setter(c) PROVE TimingAsCaptured'
  <2>1. rx' = rx /\ captured' = captured
    BY <1>7 DEF Setter, SetterCall, ReadPrevious, SetterWrite, KernelWrite, Observe, Unlock
  <2>2. CASE pc[c] = "idle"
    BY <1>7, <2>1, <2>2
      DEF Setter, SetterCall, ReadPrevious, SetterWrite, KernelWrite, Observe, Unlock
  <2>3. CASE pc[c] # "idle"
    BY <2>1, <2>3
  <2> QED
    BY <2>2, <2>3
<1>8. CASE PpsEdge \/ UNCHANGED vars
  BY <1>8 DEF PpsEdge
<1> QED
  BY <1>1, <1>2, <1>3, <1>4, <1>5, <1>6, <1>7, <1>8 DEF Next

\* While RX owns its hardware, also after a failed stop, the card does what the
\* activation captured, with any number of threads that use setters
\* (RxStreamSession.cpp:43-50).
THEOREM CapturedTimingHolds == Spec => []TimingAsCaptured
<1>1. Init => MutexInv /\ TimingAsCaptured
  BY MutexInit DEF Init, TimingAsCaptured
<1>2. MutexInv /\ TimingAsCaptured /\ [Next]_vars => (MutexInv /\ TimingAsCaptured)'
  BY MutexStep, CapturedStep
<1> QED
  BY <1>1, <1>2, PTL DEF Spec


-----------------------------------------------------------------------------
\* An update scheduled before RX activation is on record: the setters schedule none
\* while RX owns hardware.
ArmedInv ==
  /\ counters = [scheduled |-> counters.scheduled, armed |-> counters.armed,
                 jumped |-> counters.jumped]
  /\ rx # "inactive" /\ (counters.scheduled \/ counters.jumped) => counters.armed

LEMMA ArmedStep == MutexInv /\ ArmedInv /\ [Next]_vars => ArmedInv'
<1> SUFFICES ASSUME MutexInv, ArmedInv, [Next]_vars PROVE ArmedInv'
  OBVIOUS
<1> USE DEF ArmedInv
<1>1. CASE Construct \/ ConstructStep \/ ConstructFails \/ Unwind \/ Destroy
  BY <1>1 DEF Construct, ConstructStep, ConstructFails, Unwind, Destroy
<1>2. CASE DestroyStep
  BY <1>2 DEF DestroyStep
<1>3. CASE ActivateRx
  BY <1>3 DEF ActivateRx
<1>4. CASE RxStarted \/ DeactivateRx
  BY <1>4 DEF RxStarted, DeactivateRx
<1>5. ASSUME NEW c \in Callers, Setter(c) PROVE ArmedInv'
  <2>1. rx' = rx
    BY <1>5 DEF Setter, SetterCall, ReadPrevious, SetterWrite, KernelWrite, Observe, Unlock
  <2>2. CASE SetterWrite(c)
    <3>1. rx = "inactive"
      BY <2>2 DEF SetterWrite, MutexInv, LockInv, LifeInv
    <3>2. counters' \in {counters, Updated(c)}
      BY <2>2 DEF SetterWrite
    <3>3. counters' = [scheduled |-> counters'.scheduled, armed |-> counters'.armed,
                       jumped |-> counters'.jumped]
      BY <3>2 DEF Updated
    <3> QED
      BY <2>1, <3>1, <3>3
  <2>3. CASE ~SetterWrite(c)
    BY <1>5, <2>1, <2>3 DEF Setter, SetterCall, ReadPrevious, KernelWrite, Observe, Unlock
  <2> QED
    BY <2>2, <2>3
<1>6. CASE PpsEdge
  BY <1>6 DEF PpsEdge
<1>7. CASE UNCHANGED vars
  BY <1>7
<1> QED
  BY <1>1, <1>2, <1>3, <1>4, <1>5, <1>6, <1>7 DEF Next

\* No hardware-time update reaches the counters under an RX session unless it was
\* scheduled before, with any number of threads (TimeClock.cpp:323-340).
THEOREM UpdatesArmedBefore == Spec => []SetOnlyIfArmed
<1>1. Init => MutexInv /\ ArmedInv
  BY MutexInit DEF Init, ArmedInv
<1>2. MutexInv /\ ArmedInv /\ [Next]_vars => (MutexInv /\ ArmedInv)'
  BY MutexStep, ArmedStep
<1>3. ArmedInv => SetOnlyIfArmed
  BY DEF ArmedInv, SetOnlyIfArmed
<1> QED
  BY <1>1, <1>2, <1>3, PTL DEF Spec

-----------------------------------------------------------------------------
Fields == {"rate", "bandwidth", "clock", "pps", "rfTimeSource"}

\* The timing of the card has its five fields, and every call in progress is one
\* of the six setters.
ShapeInv ==
  /\ timing = [f \in Fields |-> timing[f]]
  /\ \A c \in Callers :
       pc[c] # "idle" => Op(c) \in {"rate", "bandwidth", "time_source", "clock_source",
                                    "timetype", "hardware_time"}
  /\ req = [c \in Callers |-> req[c]]

\* Asking again for what has been written changes nothing.
LEMMA RequestedAgain ==
  ASSUME NEW c \in Callers, ShapeInv, pc[c] # "idle",
         timing' = Requested(c), req'[c] = req[c], previous'[c] = previous[c]
  PROVE Requested(c)' = timing'
<1> USE DEF ShapeInv, Fields
<1>1. CASE Op(c) = "rate"
  BY <1>1 DEF Requested, Op, Arg
<1>2. CASE Op(c) = "bandwidth"
  BY <1>2 DEF Requested, Op, Arg
<1>3. CASE Op(c) = "time_source"
  BY <1>3 DEF Requested, Op, Arg
<1>4. CASE Op(c) = "clock_source"
  BY <1>4 DEF Requested, Op, Arg
<1>5. CASE Op(c) = "timetype"
  BY <1>5 DEF Requested, Op, Arg
<1>6. CASE Op(c) = "hardware_time"
  BY <1>6 DEF Requested, Op, Arg
<1> QED
  BY <1>1, <1>2, <1>3, <1>4, <1>5, <1>6

\* A setter's request keeps the shape of the timing.
LEMMA RequestedShape ==
  ASSUME NEW c \in Callers, ShapeInv, pc[c] # "idle"
  PROVE Requested(c) = [f \in Fields |-> Requested(c)[f]]
  BY DEF ShapeInv, Requested, Fields

LEMMA ShapeInit == Init => ShapeInv
<1> SUFFICES ASSUME Init PROVE ShapeInv
  OBVIOUS
<1>1. timing \in Timings
  BY DEF Init
<1>2. timing = [f \in Fields |-> timing[f]]
  BY <1>1 DEF Timings, Fields
<1> QED
  BY <1>2 DEF ShapeInv, Init

LEMMA ShapeStep == MutexInv /\ ShapeInv /\ [Next]_vars => ShapeInv'
<1> SUFFICES ASSUME MutexInv, ShapeInv, [Next]_vars PROVE ShapeInv'
  OBVIOUS
<1> USE DEF ShapeInv, Op, MutexInv, PlacesInv, Places
<1>1. CASE Construct
  BY <1>1 DEF Construct, Fields
<1>2. CASE ConstructStep
  BY <1>2 DEF ConstructStep, Configured, Fields
<1>3. CASE ConstructFails
  BY <1>3 DEF ConstructFails, Configured, Fields
<1>4. CASE Unwind \/ Destroy \/ DestroyStep
  BY <1>4 DEF Unwind, Destroy, DestroyStep
<1>5. CASE ActivateRx \/ RxStarted \/ DeactivateRx
  BY <1>5 DEF ActivateRx, RxStarted, DeactivateRx
<1>6. ASSUME NEW c \in Callers, Setter(c) PROVE ShapeInv'
  <2>1. CASE SetterCall(c)
    BY <2>1 DEF SetterCall, Go, Requests
  <2>2. CASE ReadPrevious(c)
    BY <2>2 DEF ReadPrevious, Go, Leave
  <2>3. CASE SetterWrite(c)
    <3>1. timing' \in {timing, Requested(c)} /\ req' = req
      BY <2>3 DEF SetterWrite
    <3>2. timing' = [f \in Fields |-> timing'[f]]
      BY <2>3, <3>1, RequestedShape DEF SetterWrite
    <3>3. \A d \in Callers : pc'[d] # "idle" => pc[d] # "idle"
      BY <2>3 DEF SetterWrite, AfterWrite, Go, Leave
    <3> QED
      BY <3>1, <3>2, <3>3
  <2>4. CASE KernelWrite(c)
    <3>1. timing' \in {timing, Requested(c)} /\ req' = req
      BY <2>4 DEF KernelWrite
    <3>2. timing' = [f \in Fields |-> timing'[f]]
      BY <2>4, <3>1, RequestedShape DEF KernelWrite
    <3>3. \A d \in Callers : pc'[d] # "idle" => pc[d] # "idle"
      BY <2>4 DEF KernelWrite, AfterWrite, Go, Leave
    <3> QED
      BY <3>1, <3>2, <3>3
  <2>5. CASE Observe(c)
    BY <2>5 DEF Observe, Go, Leave
  <2>6. CASE Unlock(c)
    BY <2>6 DEF Unlock, Go
  <2> QED
    BY <1>6, <2>1, <2>2, <2>3, <2>4, <2>5, <2>6 DEF Setter
<1>7. CASE PpsEdge \/ UNCHANGED vars
  BY <1>7 DEF PpsEdge
<1> QED
  BY <1>1, <1>2, <1>3, <1>4, <1>5, <1>6, <1>7 DEF Next


-----------------------------------------------------------------------------
\* With nobody inside a setter there is nothing to hold.
LEMMA NobodyWrote ==
  ASSUME \A c \in Callers : pc'[c] = "idle", result' = result, WroteInv
  PROVE WroteInv'
  BY DEF WroteInv, Wrote

LEMMA WroteStep == MutexInv /\ ShapeInv /\ WroteInv /\ [Next]_vars => WroteInv'
<1> SUFFICES ASSUME MutexInv, ShapeInv, WroteInv, [Next]_vars PROVE WroteInv'
  OBVIOUS
<1>1. CASE Construct \/ ConstructStep \/ ConstructFails \/ Unwind \/ DestroyStep
  <2>1. life # "open"
    BY <1>1 DEF Construct, ConstructStep, ConstructFails, Unwind, DestroyStep
  <2>2. \A c \in Callers : pc[c] = "idle"
    BY <2>1 DEF MutexInv, LockInv, LifeInv
  <2>3. pc' = pc /\ result' = result
    BY <1>1 DEF Construct, ConstructStep, ConstructFails, Unwind, DestroyStep
  <2> QED
    BY <2>2, <2>3, NobodyWrote
<1>2. CASE Destroy \/ ActivateRx \/ RxStarted \/ DeactivateRx \/ PpsEdge \/ UNCHANGED vars
  <2>1. UNCHANGED <<timing, pc, req, previous, result>>
    BY <1>2 DEF Destroy, ActivateRx, RxStarted, DeactivateRx, PpsEdge
  <2> QED
    BY <2>1 DEF WroteInv, Wrote, Requested, Op, Arg
<1>3. ASSUME NEW c \in Callers, Setter(c) PROVE WroteInv'
  <2> USE DEF MutexInv, PlacesInv, Places
  <2>1. \A d \in Callers \ {c} : pc[d] = "idle"
    BY <1>3 DEF LockInv, Setter, SetterCall, LockFree, ReadPrevious, SetterWrite,
      KernelWrite, Observe, Unlock
  <2>2. \A d \in Callers \ {c} : pc'[d] = "idle"
    BY <1>3, <2>1 DEF Setter, SetterCall, ReadPrevious, SetterWrite, AfterWrite,
      KernelWrite, Observe, Unlock, Go, Leave
  <2>3. result' = [d \in Callers |-> result'[d]]
    BY <1>3 DEF WroteInv, Setter, SetterCall, ReadPrevious, SetterWrite, AfterWrite,
      KernelWrite, Observe, Unlock, Leave
  <2>4. SUFFICES ASSUME Wrote(c)' PROVE timing' = Requested(c)'
    BY <2>2, <2>3 DEF WroteInv, Wrote
  <2>5. CASE SetterCall(c) \/ ReadPrevious(c) \/ Unlock(c)
    <3>1. pc'[c] \in {"idle", "read", "write"} \/ (pc'[c] = "leave" /\ result'[c] = "error")
      BY <2>5 DEF SetterCall, ReadPrevious, Unlock, Go, Leave, WroteInv
    <3> QED
      BY <2>4, <3>1 DEF Wrote
  <2>6. CASE SetterWrite(c)
    <3>1. timing' = Requested(c)
      BY <2>4, <2>6 DEF SetterWrite, Wrote, Go, Leave, WroteInv
    <3> QED
      BY <2>6, <3>1, RequestedAgain DEF SetterWrite
  <2>7. CASE KernelWrite(c)
    <3>1. timing' = Requested(c)
      BY <2>4, <2>7 DEF KernelWrite, Wrote, Go, Leave, WroteInv
    <3> QED
      BY <2>7, <3>1, RequestedAgain DEF KernelWrite
  <2>8. CASE Observe(c)
    BY <2>8 DEF Observe, WroteInv, Wrote, Requested, Op, Arg
  <2> QED
    BY <1>3, <2>5, <2>6, <2>7, <2>8 DEF Setter
<1> QED
  BY <1>1, <1>2, <1>3 DEF Next

\* A setter that returns without an exception leaves the card as it asked, with
\* any number of threads: nothing comes between its write and its check
\* (RFControls.cpp:672-690, TimeClock.cpp:226-252).
THEOREM SuccessfulSettersHold == Spec => []SuccessHolds
<1>1. Init => MutexInv /\ ShapeInv /\ WroteInv
  BY MutexInit, ShapeInit DEF Init, WroteInv, Wrote
<1>2. MutexInv /\ ShapeInv /\ WroteInv /\ [Next]_vars => (MutexInv /\ ShapeInv /\ WroteInv)'
  BY MutexStep, ShapeStep, WroteStep
<1>3. WroteInv => SuccessHolds
  BY DEF WroteInv, Wrote, SuccessHolds
<1> QED
  BY <1>1, <1>2, <1>3, PTL DEF Spec


-----------------------------------------------------------------------------
\* What a bandwidth setter writes back is the rate the card still has; only a time
\* source goes to the kernel attribute.
RateInv ==
  /\ previous = [c \in Callers |-> previous[c]]
  /\ \A c \in Callers :
       /\ pc[c] = "write" /\ Op(c) = "bandwidth" => previous[c].rate = timing.rate
       /\ pc[c] = "kernel" => Op(c) = "time_source"

OnlyRate == timing'.rate # timing.rate => \E c \in Callers : pc[c] = "write" /\ Op(c) = "rate"

\* What each setter but that of the rate asks for leaves the rate alone.
LEMMA RateRequested ==
  ASSUME NEW c \in Callers, ShapeInv, RateInv, Op(c) # "rate", pc[c] \in {"write", "kernel"}
  PROVE  Requested(c).rate = timing.rate
<1>1. Op(c) \in {"bandwidth", "time_source", "clock_source", "timetype", "hardware_time"}
  BY DEF ShapeInv
<1>2. timing = [f \in Fields |-> timing[f]]
  BY DEF ShapeInv
<1>3. CASE Op(c) = "bandwidth"
  BY <1>2, <1>3 DEF Requested, RateInv, Fields
<1>4. CASE Op(c) # "bandwidth"
  BY <1>1, <1>2, <1>4 DEF Requested, Fields
<1> QED
  BY <1>3, <1>4

\* When nobody is between a read and its write there is nothing to keep.
LEMMA RateIdle ==
  ASSUME RateInv, UNCHANGED <<pc, req, previous>>,
         UNCHANGED timing \/ \A c \in Callers : pc[c] = "idle"
  PROVE  RateInv'
  BY DEF RateInv, Op

LEMMA RateStep ==
  ASSUME MutexInv, ShapeInv, RateInv, [Next]_vars
  PROVE  RateInv' /\ OnlyRate
<1>1. CASE Construct \/ ConstructStep \/ ConstructFails
  <2>1. \A c \in Callers : pc[c] = "idle"
    BY <1>1 DEF Construct, ConstructStep, ConstructFails, MutexInv, LockInv, LifeInv
  <2>2. UNCHANGED <<pc, req, previous>>
    BY <1>1 DEF Construct, ConstructStep, ConstructFails
  <2>3. timing'.rate = timing.rate
    BY <1>1 DEF Construct, ConstructStep, ConstructFails, Configured, ShapeInv, Fields
  <2> QED
    BY <2>1, <2>2, <2>3, RateIdle DEF OnlyRate
<1>2. CASE \/ Unwind \/ Destroy \/ DestroyStep
           \/ ActivateRx \/ RxStarted \/ DeactivateRx \/ PpsEdge \/ UNCHANGED vars
  <2>1. UNCHANGED <<timing, pc, req, previous>>
    BY <1>2 DEF Unwind, Destroy, DestroyStep, ActivateRx, RxStarted, DeactivateRx, PpsEdge
  <2> QED
    BY <2>1, RateIdle DEF OnlyRate
<1>3. ASSUME NEW c \in Callers, Setter(c) PROVE RateInv' /\ OnlyRate
  <2> USE DEF MutexInv, PlacesInv, Places
  <2>1. \A d \in Callers \ {c} : pc[d] = "idle" /\ pc'[d] = "idle"
    BY <1>3 DEF LockInv, Setter, SetterCall, LockFree, ReadPrevious, SetterWrite,
      AfterWrite, KernelWrite, Observe, Unlock, Go, Leave
  <2>2. previous' = [d \in Callers |-> previous'[d]]
    BY <1>3 DEF RateInv, Setter, SetterCall, ReadPrevious, FreshPrevious, SetterWrite,
      KernelWrite, Observe, Unlock
  <2>3. SUFFICES /\ pc'[c] = "write" /\ Op(c)' = "bandwidth" =>
                      previous'[c].rate = timing'.rate
                 /\ pc'[c] = "kernel" => Op(c)' = "time_source"
                 /\ OnlyRate
    BY <2>1, <2>2 DEF RateInv
  <2>4. CASE SetterCall(c)
    BY <2>4 DEF SetterCall, Go, Op, ShapeInv, OnlyRate
  <2>5. CASE ReadPrevious(c)
    BY <2>5 DEF ReadPrevious, FreshPrevious, Go, Leave, Op, RateInv, OnlyRate
  <2>6. CASE SetterWrite(c)
    <3>1. pc'[c] \notin {"write"} /\ (pc'[c] = "kernel" => Op(c)' = "time_source")
      BY <2>6 DEF SetterWrite, AfterWrite, Go, Leave, Op
    <3>2. timing' \in {timing, Requested(c)} /\ pc[c] = "write"
      BY <2>6 DEF SetterWrite
    <3> QED
      BY <3>1, <3>2, RateRequested DEF OnlyRate
  <2>7. CASE KernelWrite(c)
    <3>1. pc'[c] \notin {"write", "kernel"}
      BY <2>7 DEF KernelWrite, AfterWrite, Go, Leave
    <3>2. timing' \in {timing, Requested(c)} /\ pc[c] = "kernel" /\ Op(c) = "time_source"
      BY <2>7 DEF KernelWrite, RateInv
    <3> QED
      BY <3>1, <3>2, RateRequested DEF OnlyRate
  <2>8. CASE Observe(c) \/ Unlock(c)
    BY <2>8 DEF Observe, Unlock, Go, Leave, OnlyRate
  <2> QED
    BY <1>3, <2>4, <2>5, <2>6, <2>7, <2>8 DEF Setter
<1> QED
  BY <1>1, <1>2, <1>3 DEF Next

\* One SDK call sets rate and bandwidth, and still no bandwidth change undoes a rate
\* change of another thread: the mutex covers its read and its write
\* (RFControls.cpp:692-703).
THEOREM BandwidthKeepsRate == Spec => OnlyRateSettersChangeRate
<1>1. Init => MutexInv /\ ShapeInv /\ RateInv
  BY MutexInit, ShapeInit DEF Init, RateInv
<1>2. MutexInv /\ ShapeInv /\ RateInv /\ [Next]_vars => (MutexInv /\ ShapeInv /\ RateInv)'
  BY MutexStep, ShapeStep, RateStep
<1>3. MutexInv /\ ShapeInv /\ RateInv /\ [Next]_vars =>
        [timing'.rate # timing.rate =>
           \E c \in Callers : pc[c] = "write" /\ Op(c) = "rate"]_vars
  BY RateStep DEF OnlyRate
<1> QED
  BY <1>1, <1>2, <1>3, PTL DEF Spec, OnlyRateSettersChangeRate


-----------------------------------------------------------------------------
\* The registration is the last step but one of a constructor, so a callback is
\* left by an unwinding constructor only when the last step has failed, and is undone
\* before the SDK is left; the destructor unregisters it with its third step.
CallbackInv ==
  /\ callback \in BOOLEAN /\ sdk \in BOOLEAN
  /\ life \in {"none", "constructing", "unwinding", "unwound", "open", "closing"}
  /\ life \in {"none", "unwound"} => ~callback
  /\ life \in {"constructing", "unwinding"} => stage \in 1..12 /\ (callback => stage = 12)
  /\ life = "closing" => stage \in 1..4 /\ (callback => stage < 4)

LEMMA StepNames ==
  /\ Len(ConstructorSteps) = 12 /\ Len(DestructorSteps) = 4
  /\ \A i \in 1..12 : /\ ConstructorSteps[i] = "register" <=> i = 11
                      /\ ConstructorSteps[i] = "log" <=> i = 12
                      /\ ConstructorSteps[i] = "init" <=> i = 1
  /\ \A i \in 1..4 : /\ DestructorSteps[i] = "unregister" <=> i = 3
                     /\ DestructorSteps[i] = "exit" <=> i = 4
  BY DEF ConstructorSteps, DestructorSteps

LEMMA CallbackStep == CallbackInv /\ [Next]_vars => CallbackInv'
<1> SUFFICES ASSUME CallbackInv, [Next]_vars PROVE CallbackInv'
  OBVIOUS
<1> USE DEF CallbackInv
<1>1. CASE Construct
  BY <1>1 DEF Construct
<1>2. CASE ConstructStep
  BY <1>2, StepNames DEF ConstructStep, Step
<1>3. CASE ConstructFails
  BY <1>3, StepNames DEF ConstructFails, Step
<1>4. CASE Unwind
  <2>1. CASE life = "unwinding"
    <3>1. callback' = (callback /\ Step # "log") /\ sdk' = sdk /\ life' = "unwound"
      BY <1>4, <2>1 DEF Unwind, CallbackRollback
    <3>2. callback => Step = "log"
      BY <2>1, StepNames DEF Step
    <3> QED
      BY <3>1, <3>2
  <2>2. CASE life = "unwound"
    <3>1. callback' = callback /\ life' = "none"
      BY <1>4, <2>2 DEF Unwind
    <3>2. sdk' = FALSE
      BY <1>4, <2>2, Zenon DEF Unwind
    <3> QED
      BY <2>2, <3>1, <3>2
  <2> QED
    BY <1>4, <2>1, <2>2 DEF Unwind
<1>5. CASE Destroy
  BY <1>5 DEF Destroy
<1>6. CASE DestroyStep
  <2>1. stage \in 1..4 /\ (callback => stage < 4)
    BY <1>6 DEF DestroyStep
  <2>2. callback' \in BOOLEAN /\ sdk' \in BOOLEAN
    BY <1>6 DEF DestroyStep
  <2>3. callback' => callback /\ stage # 3
    BY <1>6, <2>1, StepNames DEF DestroyStep
  <2>4. CASE stage < 4
    <3>1. stage' = stage + 1 /\ life' = "closing"
      BY <1>6, <2>4, StepNames DEF DestroyStep
    <3> QED
      BY <2>1, <2>2, <2>3, <2>4, <3>1
  <2>5. CASE stage = 4
    <3>1. life' = "none" /\ ~callback'
      BY <1>6, <2>1, <2>3, <2>5, StepNames DEF DestroyStep
    <3> QED
      BY <2>2, <3>1
  <2> QED
    BY <2>1, <2>4, <2>5
<1>7. CASE ActivateRx \/ RxStarted \/ DeactivateRx
  BY <1>7 DEF ActivateRx, RxStarted, DeactivateRx
<1>8. ASSUME NEW c \in Callers, Setter(c) PROVE CallbackInv'
  BY <1>8 DEF Setter, SetterCall, ReadPrevious, SetterWrite, KernelWrite, Observe, Unlock
<1>9. CASE PpsEdge \/ UNCHANGED vars
  BY <1>9 DEF PpsEdge
<1> QED
  BY <1>1, <1>2, <1>3, <1>4, <1>5, <1>6, <1>7, <1>8, <1>9 DEF Next

\* skiq_init's acquisition is undone by the outer guard or the last step of the
\* destructor, and held in between; one that failed in skiq_init never had it.
SdkInv ==
  /\ life = "none" => ~sdk
  /\ life = "constructing" => (sdk <=> stage > 1)
  /\ life \in {"unwinding", "unwound", "open", "closing"} => sdk

LEMMA SdkStep == CallbackInv /\ SdkInv /\ [Next]_vars => SdkInv'
<1> SUFFICES ASSUME CallbackInv, SdkInv, [Next]_vars PROVE SdkInv'
  OBVIOUS
<1> USE DEF CallbackInv, SdkInv
<1>1. CASE Construct
  BY <1>1 DEF Construct
<1>2. CASE ConstructStep
  <2>1. stage \in 1..12 /\ (sdk <=> stage > 1)
    BY <1>2 DEF ConstructStep
  <2>2. sdk'
    <3>1. sdk' = (sdk \/ Step = "init")
      BY <1>2 DEF ConstructStep
    <3>2. Step = "init" \/ stage > 1
      BY <2>1, StepNames DEF Step
    <3> QED
      BY <2>1, <3>1, <3>2
  <2>3. \/ life' = "constructing" /\ stage' > 1
        \/ life' = "open"
    BY <1>2, <2>1, StepNames DEF ConstructStep
  <2> QED
    BY <2>2, <2>3
<1>3. CASE ConstructFails
  BY <1>3, StepNames DEF ConstructFails, Step
<1>4. CASE Unwind
  BY <1>4 DEF Unwind
<1>5. CASE Destroy
  BY <1>5 DEF Destroy
<1>6. CASE DestroyStep
  <2>1. stage \in 1..4 /\ sdk
    BY <1>6 DEF DestroyStep
  <2>2. sdk' <=> stage # 4
    BY <1>6, <2>1, StepNames, Zenon DEF DestroyStep
  <2>3. \/ stage # 4 /\ life' = "closing"
        \/ stage = 4 /\ life' = "none"
    BY <1>6, <2>1, StepNames DEF DestroyStep
  <2> QED
    BY <2>2, <2>3
<1>7. CASE ActivateRx \/ RxStarted \/ DeactivateRx
  BY <1>7 DEF ActivateRx, RxStarted, DeactivateRx
<1>8. ASSUME NEW c \in Callers, Setter(c) PROVE SdkInv'
  BY <1>8 DEF Setter, SetterCall, ReadPrevious, SetterWrite, KernelWrite, Observe, Unlock
<1>9. CASE PpsEdge \/ UNCHANGED vars
  BY <1>9 DEF PpsEdge
<1> QED
  BY <1>1, <1>2, <1>3, <1>4, <1>5, <1>6, <1>7, <1>8, <1>9 DEF Next
\* The SDK's lifetime spans every use of it, for any number of threads, and ends
\* with the device, also after a constructor that failed at any step
\* (DeviceLifecycle.cpp:146-162, 198-208, 388-405).
THEOREM SdkBracketsUse == Spec => []SdkLifetime
<1>1. Init => MutexInv /\ CallbackInv /\ SdkInv
  BY MutexInit DEF Init, CallbackInv, SdkInv
<1>2. MutexInv /\ CallbackInv /\ SdkInv /\ [Next]_vars => (MutexInv /\ CallbackInv /\ SdkInv)'
  BY MutexStep, CallbackStep, SdkStep
<1>3. ASSUME MutexInv, CallbackInv, SdkInv PROVE SdkLifetime
  <2>1. life = "none" => ~sdk /\ ~callback
    BY <1>3 DEF CallbackInv, SdkInv
  <2>2. callback => sdk
    BY <1>3 DEF CallbackInv, SdkInv
  <2>3. rx # "inactive" => sdk
    BY <1>3 DEF MutexInv, LifeInv, SdkInv
  <2>4. \A c \in Callers : pc[c] # "idle" => sdk
    BY <1>3 DEF MutexInv, LockInv, LifeInv, SdkInv
  <2> QED
    BY <2>1, <2>2, <2>3, <2>4 DEF SdkLifetime
<1> QED
  BY <1>1, <1>2, <1>3, PTL DEF Spec


-----------------------------------------------------------------------------
(* Types.  What is written is one of the card's timings: a rate or bandwidth  *)
(* setter that gets to its write has read a pair of rates first.              *)

RatePairs == [rate : SampleRates, bandwidth : SampleRates]

CallerInv ==
  /\ req \in [Callers -> Requests \cup {NoRequest}]
  /\ previous \in [Callers -> RatePairs \cup {NoRates}]
  /\ result \in [Callers -> {"none", "ok", "error"}]
  /\ \A c \in Callers :
       /\ pc[c] # "idle" => req[c] \in Requests
       /\ pc[c] = "write" /\ Op(c) \in {"rate", "bandwidth"} => previous[c] \in RatePairs
       /\ pc[c] = "kernel" => Op(c) = "time_source"

CardInv == timing \in Timings /\ captured \in Timings \cup {NoTiming}

Counters == [scheduled : BOOLEAN, armed : BOOLEAN, jumped : BOOLEAN]

HostInv ==
  /\ life \in {"none", "constructing", "unwinding", "unwound", "open", "closing"}
  /\ stage \in 0..Len(ConstructorSteps)
  /\ sdk \in BOOLEAN /\ callback \in BOOLEAN
  /\ counters \in Counters
  /\ rx \in {"inactive", "starting", "active", "owned"}

\* A field of the timing is set to a value of its own kind.
LEMMA TimingTyped ==
  ASSUME timing \in Timings
  PROVE  /\ \A r, b \in SampleRates : [timing EXCEPT !.rate = r, !.bandwidth = b] \in Timings
         /\ \A s \in ClockSources : [timing EXCEPT !.clock = s] \in Timings
         /\ \A s \in PpsSources : [timing EXCEPT !.pps = s] \in Timings
         /\ \A t \in BOOLEAN : [timing EXCEPT !.rfTimeSource = t] \in Timings
  BY DEF Timings

\* Each setter's argument is of the kind its name says.
LEMMA ArgumentTyped ==
  ASSUME NEW c \in Callers, req[c] \in Requests
  PROVE  /\ Op(c) \in {"rate", "bandwidth"} => Arg(c) \in SampleRates
         /\ Op(c) = "time_source" => Arg(c) \in PpsSources
         /\ Op(c) = "clock_source" => Arg(c) \in ClockSources
         /\ Op(c) = "timetype" => Arg(c) \in BOOLEAN
         /\ Op(c) \in {"rate", "bandwidth", "time_source", "clock_source", "timetype",
                       "hardware_time"}
  BY DEF Requests, Op, Arg

LEMMA RequestedTyped ==
  ASSUME NEW c \in Callers, timing \in Timings, req[c] \in Requests,
         Op(c) \in {"rate", "bandwidth"} => previous[c] \in RatePairs
  PROVE  Requested(c) \in Timings
<1>1. CASE Op(c) = "rate"
  <2>1. Arg(c) \in SampleRates /\ previous[c].bandwidth \in SampleRates
    BY <1>1, ArgumentTyped DEF RatePairs
  <2>2. Smaller(previous[c].bandwidth, Arg(c)) \in SampleRates
    BY <2>1 DEF Smaller
  <2> QED
    BY <1>1, <2>1, <2>2, TimingTyped DEF Requested
<1>2. CASE Op(c) = "bandwidth"
  <2>1. Arg(c) \in SampleRates /\ previous[c].rate \in SampleRates
    BY <1>2, ArgumentTyped DEF RatePairs
  <2> QED
    BY <1>2, <2>1, TimingTyped DEF Requested
<1>3. CASE Op(c) = "time_source"
  BY <1>3, ArgumentTyped, TimingTyped DEF Requested
<1>4. CASE Op(c) = "clock_source"
  BY <1>4, ArgumentTyped, TimingTyped DEF Requested
<1>5. CASE Op(c) = "timetype"
  BY <1>5, ArgumentTyped, TimingTyped DEF Requested
<1>6. CASE Op(c) = "hardware_time"
  BY <1>6 DEF Requested
<1> QED
  BY <1>1, <1>2, <1>3, <1>4, <1>5, <1>6, ArgumentTyped

LEMMA CardStep ==
  ASSUME MutexInv, CallerInv, CardInv, [Next]_vars
  PROVE  CardInv'
<1> USE DEF CardInv
<1>1. CASE Construct
  <2>1. timing' = [timing EXCEPT !.rfTimeSource = TRUE] /\ captured' = captured
    BY <1>1 DEF Construct
  <2> QED
    BY <2>1, TimingTyped
<1>2. CASE ConstructStep \/ ConstructFails
  <2>1. Configured /\ captured' = captured
    BY <1>2 DEF ConstructStep, ConstructFails
  <2>2. \/ timing' = timing
        \/ \E s \in ClockSources : timing' = [timing EXCEPT !.clock = s]
        \/ \E s \in PpsSources : timing' = [timing EXCEPT !.pps = s]
    BY <2>1 DEF Configured
  <2> QED
    BY <2>1, <2>2, TimingTyped
<1>3. CASE Unwind \/ Destroy \/ DestroyStep
  BY <1>3 DEF Unwind, Destroy, DestroyStep
<1>4. CASE ActivateRx \/ RxStarted \/ DeactivateRx
  BY <1>4 DEF ActivateRx, RxStarted, DeactivateRx, Kept
<1>5. ASSUME NEW c \in Callers, Setter(c) PROVE CardInv'
  <2>1. captured' = captured
    BY <1>5 DEF Setter, SetterCall, ReadPrevious, SetterWrite, KernelWrite, Observe, Unlock
  <2>2. timing' = timing \/ (pc[c] \in {"write", "kernel"} /\ timing' = Requested(c))
    BY <1>5 DEF Setter, SetterCall, ReadPrevious, SetterWrite, KernelWrite, Observe, Unlock
  <2>3. CASE pc[c] \in {"write", "kernel"} /\ timing' = Requested(c)
    <3>1. /\ req[c] \in Requests
          /\ Op(c) \in {"rate", "bandwidth"} => previous[c] \in RatePairs
      BY <2>3 DEF CallerInv
    <3> QED
      BY <2>1, <2>3, <3>1, RequestedTyped
  <2> QED
    BY <2>1, <2>2, <2>3
<1>6. CASE PpsEdge \/ UNCHANGED vars
  BY <1>6 DEF PpsEdge
<1> QED
  BY <1>1, <1>2, <1>3, <1>4, <1>5, <1>6 DEF Next

LEMMA CallerStep ==
  ASSUME MutexInv, CallerInv, CardInv, [Next]_vars
  PROVE  CallerInv'
<1> USE DEF CallerInv, Op, MutexInv, PlacesInv, Places
<1>1. CASE UNCHANGED callerVars
  BY <1>1
<1>2. ASSUME NEW c \in Callers, Setter(c) PROVE CallerInv'
  <2>1. CASE SetterCall(c)
    BY <2>1 DEF SetterCall, Go
  <2>2. CASE ReadPrevious(c)
    <3>1. timing.rate \in SampleRates /\ timing.bandwidth \in SampleRates
      BY DEF CardInv, Timings
    <3>2. [rate |-> timing.rate, bandwidth |-> timing.bandwidth] \in RatePairs
      BY <3>1 DEF RatePairs
    <3> HIDE DEF RatePairs
    <3> QED
      BY <2>2, <3>2 DEF ReadPrevious, FreshPrevious, Go, Leave
  <2>3. CASE SetterWrite(c)
    BY <2>3 DEF SetterWrite, AfterWrite, Go, Leave
  <2>4. CASE KernelWrite(c)
    BY <2>4 DEF KernelWrite, AfterWrite, Go, Leave
  <2>5. CASE Observe(c)
    BY <2>5 DEF Observe, Go, Leave
  <2>6. CASE Unlock(c)
    BY <2>6 DEF Unlock, Go
  <2> QED
    BY <1>2, <2>1, <2>2, <2>3, <2>4, <2>5, <2>6 DEF Setter
<1> QED
  BY <1>1, <1>2 DEF Next, Construct, ConstructStep, ConstructFails, Unwind, Destroy,
                    DestroyStep, ActivateRx, RxStarted, DeactivateRx, PpsEdge

LEMMA CountersTyped ==
  ASSUME counters \in Counters
  PROVE  /\ counters.scheduled \in BOOLEAN
         /\ \A a \in BOOLEAN : [counters EXCEPT !.armed = a, !.jumped = FALSE] \in Counters
         /\ [counters EXCEPT !.jumped = TRUE] \in Counters
         /\ [counters EXCEPT !.scheduled = TRUE] \in Counters
         /\ [counters EXCEPT !.scheduled = FALSE, !.jumped = TRUE] \in Counters
  BY DEF Counters

LEMMA HostStep == HostInv /\ [Next]_vars => HostInv'
<1> SUFFICES ASSUME HostInv, [Next]_vars PROVE HostInv'
  OBVIOUS
<1> USE StepNames DEF HostInv, Counters
<1>1. CASE Construct
  BY <1>1 DEF Construct
<1>2. CASE ConstructStep
  BY <1>2 DEF ConstructStep
<1>3. CASE ConstructFails
  BY <1>3 DEF ConstructFails
<1>4. CASE Unwind
  <2>1. callback' \in BOOLEAN
    BY <1>4, Zenon DEF Unwind, CallbackRollback
  <2>2. sdk' \in BOOLEAN
    BY <1>4, Zenon DEF Unwind
  <2>3. life' \in {"unwound", "none"} /\ stage' \in {0, stage}
        /\ counters' = counters /\ rx' = rx
    BY <1>4 DEF Unwind
  <2> QED
    BY <2>1, <2>2, <2>3
<1>5. CASE Destroy
  BY <1>5 DEF Destroy
<1>6. CASE DestroyStep
  BY <1>6 DEF DestroyStep
<1>7. CASE ActivateRx \/ RxStarted \/ DeactivateRx
  <2>1. UNCHANGED deviceVars /\ rx' \in {"inactive", "starting", "active", "owned"}
    BY <1>7 DEF ActivateRx, RxStarted, DeactivateRx
  <2>2. \/ counters' = counters
        \/ counters' = [counters EXCEPT !.armed = counters.scheduled, !.jumped = FALSE]
    BY <1>7 DEF ActivateRx, RxStarted, DeactivateRx
  <2>3. counters' \in Counters
    BY <2>2, CountersTyped
  <2> QED
    BY <2>1, <2>3
<1>8. ASSUME NEW c \in Callers, Setter(c) PROVE HostInv'
  <2>1. UNCHANGED <<deviceVars, rxVars>>
    BY <1>8 DEF Setter, SetterCall, ReadPrevious, SetterWrite, KernelWrite, Observe, Unlock
  <2>2. counters' = counters \/ counters' = Updated(c)
    BY <1>8 DEF Setter, SetterCall, ReadPrevious, SetterWrite, KernelWrite, Observe, Unlock
  <2> QED
    <3>1. counters' \in Counters
      BY <2>2, CountersTyped DEF Updated
    <3> QED
      BY <2>1, <3>1
<1>9. CASE PpsEdge
  BY <1>9, CountersTyped DEF PpsEdge
<1>10. CASE UNCHANGED vars
  BY <1>10
<1> QED
  BY <1>1, <1>2, <1>3, <1>4, <1>5, <1>6, <1>7, <1>8, <1>9, <1>10 DEF Next

\* The card only ever does what its rates, clocks and time sources allow: no setter
\* writes a rate or a bandwidth it has not read or been given, whatever failed before
\* it and with any number of threads (RFControls.cpp:599-607, 645-703).
THEOREM DeviceTyped == Spec => []TypeOK
<1>1. Init => MutexInv /\ CallerInv /\ CardInv /\ HostInv
  <2> SUFFICES ASSUME Init PROVE MutexInv /\ CallerInv /\ CardInv /\ HostInv
    OBVIOUS
  <2>1. MutexInv
    BY MutexInit
  <2>2. CallerInv
    BY DEF Init, CallerInv
  <2>3. CardInv
    BY DEF Init, CardInv
  <2>4. HostInv
    <3>1. sdk \in BOOLEAN /\ callback \in BOOLEAN
      BY Zenon DEF Init
    <3>2. counters \in Counters
      BY DEF Init, Counters
    <3>3. life = "none" /\ stage = 0 /\ rx = "inactive"
      BY DEF Init
    <3> QED
      BY <3>1, <3>2, <3>3, StepNames DEF HostInv
  <2> QED
    BY <2>1, <2>2, <2>3, <2>4
<1>2. MutexInv /\ CallerInv /\ CardInv /\ HostInv /\ [Next]_vars
        => (MutexInv /\ CallerInv /\ CardInv /\ HostInv)'
  BY MutexStep, CallerStep, CardStep, HostStep
<1>3. MutexInv /\ CallerInv /\ CardInv /\ HostInv => TypeOK
  BY DEF MutexInv, LockInv, PlacesInv, Places, CallerInv, CardInv, HostInv, Counters, TypeOK,
         RatePairs
<1> QED
  BY <1>1, <1>2, <1>3, PTL DEF Spec
=============================================================================

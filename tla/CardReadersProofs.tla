-------------------------- MODULE CardReadersProofs --------------------------
(***************************************************************************)
(* Proofs about CardReaders for any numbers of threads that use setters    *)
(* and of threads that read: the unlocked getters are protected by what    *)
(* the setters respect, and the accelerometer is bracketed by each read.   *)
(***************************************************************************)
EXTENDS CardReaders, DeviceControlProofs

USE CallersAssumption
USE DEF vars, deviceVars, callerVars, rxVars, getterVars, sensorVars, readerVars

\* Every thread is somewhere in one of its calls.
ReaderShape ==
  /\ at \in [Observers -> {"idle", "second", "enabled", "read"}]
  /\ getter = [o \in Observers |-> getter[o]]
  /\ seen = [o \in Observers |-> seen[o]]
  /\ owned \in [Observers -> BOOLEAN]
  /\ alone \subseteq Observers /\ accel \in BOOLEAN

LEMMA ShapeKept == ReaderShape /\ ReadersNext => ReaderShape'
<1> SUFFICES ASSUME ReaderShape, ReadersNext PROVE ReaderShape'
  OBVIOUS
<1> USE DEF ReaderShape, Move
<1>1. CASE DeviceStep
  BY <1>1 DEF DeviceStep
<1>2. ASSUME NEW o \in Observers, FirstRead(o) PROVE ReaderShape'
  <2>1. owned' \in [Observers -> BOOLEAN] /\ at' \in [Observers -> {"idle", "second", "enabled", "read"}]
    BY <1>2 DEF FirstRead
  <2> QED  BY <1>2, <2>1 DEF FirstRead
<1>3. ASSUME NEW o \in Observers, SecondRead(o) PROVE ReaderShape'
  BY <1>3 DEF SecondRead
<1>4. ASSUME NEW o \in Observers, EnableAccelerometer(o) PROVE ReaderShape'
  BY <1>4 DEF EnableAccelerometer
<1>5. ASSUME NEW o \in Observers, ReadAccelerometer(o) PROVE ReaderShape'
  BY <1>5 DEF ReadAccelerometer, AfterRead
<1>6. ASSUME NEW o \in Observers, DisableAccelerometer(o) PROVE ReaderShape'
  BY <1>6 DEF DisableAccelerometer
<1> QED
  BY <1>1, <1>2, <1>3, <1>4, <1>5, <1>6 DEF ReadersNext

-----------------------------------------------------------------------------
\* The unlocked readers change nothing that the setters, RX or the lifetime of the
\* device see: each of their steps is a step of DeviceControl or none, so every
\* theorem about the device holds with them too, for any numbers of threads
\* (TimeClock.cpp:284-311, 390-405, SensorReader.cpp:57-77).
THEOREM ReadersKeepDevice == ReadersSpec => Spec
<1>1. ReadersInit => Init
  BY DEF ReadersInit
<1>2. [ReadersNext]_<<vars, readerVars>> => [Next]_vars
  BY DEF ReadersNext, DeviceStep, FirstRead, SecondRead, EnableAccelerometer,
     ReadAccelerometer, DisableAccelerometer
<1> QED  BY <1>1, <1>2, PTL DEF ReadersSpec, Spec

-----------------------------------------------------------------------------
\* A captured timing is replaced only together with the ownership.
LEMMA TimingKept ==
  ASSUME MutexInv, TimingAsCaptured, Next, rx # "inactive", rx' # "inactive"
  PROVE  timing' = timing
<1>1. timing = captured /\ timing' = captured'
  <2>1. TimingAsCaptured'
    BY CapturedStep
  <2> QED  BY <2>1 DEF TimingAsCaptured
<1>2. captured' = captured
  <2>1. CASE Construct \/ ConstructStep \/ ConstructFails \/ Unwind \/ Destroy
    BY <2>1 DEF Construct, ConstructStep, ConstructFails, Unwind, Destroy
  <2>2. CASE DestroyStep
    BY <2>2 DEF DestroyStep
  <2>3. CASE ActivateRx \/ RxStarted \/ DeactivateRx \/ PpsEdge
    BY <2>3 DEF ActivateRx, RxStarted, DeactivateRx, Kept, PpsEdge
  <2>4. ASSUME NEW c \in Callers, Setter(c) PROVE captured' = captured
    BY <2>4 DEF Setter, SetterCall, ReadPrevious, SetterWrite, KernelWrite, Observe, Unlock
  <2> QED
    BY <2>1, <2>2, <2>3, <2>4 DEF Next
<1> QED
  BY <1>1, <1>2

\* While RX has owned its hardware since a thread's first read, it still does.
OwnedInv == \A o \in Observers : owned[o] => rx # "inactive"

LEMMA ReadsStep ==
  ASSUME MutexInv, TimingAsCaptured, ReaderShape, OwnedInv, ReadsAgree, ReadersNext
  PROVE  OwnedInv' /\ ReadsAgree'
<1> USE DEF ReaderShape, OwnedInv, ReadsAgree, Move
<1>1. CASE DeviceStep
  <2>1. /\ UNCHANGED <<at, getter, seen>>
        /\ \A o \in Observers : owned'[o] => owned[o] /\ rx' # "inactive"
    BY <1>1 DEF DeviceStep
  <2>2. OwnedInv'
    BY <2>1
  <2>3. ASSUME NEW o \in Observers, at'[o] = "second", owned'[o]
        PROVE  seen'[o] = Basis(getter[o])'
    <3>1. rx # "inactive" /\ rx' # "inactive" /\ seen[o] = Basis(getter[o])
      BY <2>1, <2>3
    <3>2. timing' = timing
      BY <1>1, <3>1, TimingKept DEF DeviceStep
    <3> QED  BY <2>1, <3>1, <3>2 DEF Basis
  <2> QED  BY <2>1, <2>2, <2>3
<1>2. ASSUME NEW o \in Observers, FirstRead(o) PROVE OwnedInv' /\ ReadsAgree'
  <2>1. UNCHANGED <<rx, timing>>
    BY <1>2 DEF FirstRead
  <2>2. PICK g \in Getters : /\ getter' = [getter EXCEPT ![o] = g]
                            /\ seen' = [seen EXCEPT ![o] = Basis(g)]
    BY <1>2 DEF FirstRead
  <2>3. /\ owned' = [owned EXCEPT ![o] = rx # "inactive"]
        /\ at' = [at EXCEPT ![o] = "second"]
    BY <1>2 DEF FirstRead
  <2>4. seen'[o] = Basis(getter'[o])
    BY <2>2
  <2>5. \A p \in Observers \ {o} : /\ seen'[p] = seen[p] /\ getter'[p] = getter[p]
                                  /\ at'[p] = at[p] /\ owned'[p] = owned[p]
    BY <2>2, <2>3
  <2>6. owned'[o] => rx # "inactive"
    BY <2>3
  <2> QED  BY <2>1, <2>4, <2>5, <2>6 DEF Basis
<1>3. ASSUME NEW o \in Observers, SecondRead(o) PROVE OwnedInv' /\ ReadsAgree'
  <2>1. UNCHANGED <<rx, timing>>
    BY <1>3 DEF SecondRead
  <2>2. at'[o] = "idle" /\ ~ owned'[o]
    BY <1>3 DEF SecondRead
  <2>3. \A p \in Observers \ {o} : /\ seen'[p] = seen[p] /\ getter'[p] = getter[p]
                                  /\ at'[p] = at[p] /\ owned'[p] = owned[p]
    BY <1>3 DEF SecondRead
  <2> QED  BY <2>1, <2>2, <2>3 DEF Basis
<1>4. ASSUME NEW o \in Observers,
             EnableAccelerometer(o) \/ ReadAccelerometer(o) \/ DisableAccelerometer(o)
      PROVE  OwnedInv' /\ ReadsAgree'
  <2>1. UNCHANGED <<rx, timing, getter, seen, owned>>
    BY <1>4 DEF EnableAccelerometer, ReadAccelerometer, DisableAccelerometer
  <2>2. \A p \in Observers : at'[p] = "second" => at[p] = "second"
    BY <1>4 DEF EnableAccelerometer, ReadAccelerometer, DisableAccelerometer, AfterRead
  <2> QED  BY <2>1, <2>2 DEF Basis
<1> QED
  BY <1>1, <1>2, <1>3, <1>4 DEF ReadersNext

ReadersInv == MutexInv /\ TimingAsCaptured /\ ReaderShape /\ OwnedInv /\ ReadsAgree

LEMMA ReadersInvInit == ReadersInit => ReadersInv
<1> SUFFICES ASSUME ReadersInit PROVE ReadersInv
  OBVIOUS
<1>1. MutexInv /\ TimingAsCaptured
  BY MutexInit DEF ReadersInit, Init, TimingAsCaptured
<1>2. ReaderShape /\ OwnedInv /\ ReadsAgree
  BY DEF ReadersInit, ReaderShape, OwnedInv, ReadsAgree
<1> QED
  BY <1>1, <1>2 DEF ReadersInv

LEMMA ReadersInvStep ==
  ReadersInv /\ [ReadersNext]_<<vars, readerVars>> => ReadersInv'
<1> SUFFICES ASSUME ReadersInv, [ReadersNext]_<<vars, readerVars>> PROVE ReadersInv'
  OBVIOUS
<1>1. [Next]_vars
  BY DEF ReadersNext, DeviceStep, FirstRead, SecondRead, EnableAccelerometer,
         ReadAccelerometer, DisableAccelerometer
<1>2. MutexInv' /\ TimingAsCaptured'
  BY <1>1, MutexStep, CapturedStep DEF ReadersInv
<1>3. CASE ReadersNext
  BY <1>2, <1>3, ShapeKept, ReadsStep DEF ReadersInv
<1>4. CASE UNCHANGED <<vars, readerVars>>
  BY <1>2, <1>4 DEF ReadersInv, ReaderShape, OwnedInv, ReadsAgree, Basis
<1> QED
  BY <1>3, <1>4

LEMMA ReadersInvariant == ReadersSpec => []ReadersInv
<1> QED
  BY ReadersInvInit, ReadersInvStep, PTL DEF ReadersSpec

\* getHardwareTime and getReferenceClockRate combine two reads of one configuration
\* while RX owns its hardware, although they take no lock, for any numbers of
\* threads (TimeClock.cpp:284-311, 390-405).
THEOREM UnlockedReadsAgree == ReadersSpec => []ReadsAgree
<1>1. ReadersInv => ReadsAgree
  BY DEF ReadersInv
<1> QED
  BY <1>1, ReadersInvariant, PTL

-----------------------------------------------------------------------------
\* A thread that nobody has overlapped is inside, and nobody else is.
AloneInv == \A o \in alone : InCycle(o) /\ Others(o) = {}

AccelInv == ReaderShape /\ AloneInv /\ AccelerometerBracketed

LEMMA AccelStep ==
  ASSUME AccelInv, ReadersNext
  PROVE  AloneInv' /\ AccelerometerBracketed'
<1> USE DEF AccelInv, ReaderShape, AloneInv, AccelerometerBracketed, InCycle, Others, Move
<1>1. CASE DeviceStep
  BY <1>1 DEF DeviceStep
<1>2. ASSUME NEW o \in Observers, FirstRead(o) \/ SecondRead(o)
      PROVE  AloneInv' /\ AccelerometerBracketed'
  <2>1. UNCHANGED <<accel, alone, unsettled>>
    BY <1>2 DEF FirstRead, SecondRead
  <2>2. \A p \in Observers : /\ InCycle(p)' <=> InCycle(p)
                             /\ at'[p] = "enabled" <=> at[p] = "enabled"
    BY <1>2 DEF FirstRead, SecondRead
  <2> QED  BY <2>1, <2>2
<1>3. ASSUME NEW o \in Observers, EnableAccelerometer(o)
      PROVE  AloneInv' /\ AccelerometerBracketed'
  <2>1. CASE UNCHANGED <<at, alone>> /\ accel' \in {accel, TRUE} /\ unsettled' = TRUE
    <3>1. (accel => accel') /\ unsettled'
      BY <2>1, Zenon
    <3> QED  BY <2>1, <3>1
  <2>2. CASE /\ accel' = TRUE /\ at' = [at EXCEPT ![o] = "enabled"]
             /\ alone' = IF Others(o) = {} THEN {o} ELSE {}
    <3>1. at'[o] = "enabled" /\ \A p \in Observers \ {o} : at'[p] = at[p]
      BY <2>2
    <3> QED  BY <2>2, <3>1
  <2> QED  BY <1>3, <2>1, <2>2 DEF EnableAccelerometer
<1>4. ASSUME NEW o \in Observers, ReadAccelerometer(o)
      PROVE  AloneInv' /\ AccelerometerBracketed'
  <2>1. at[o] = "enabled" /\ at' = [at EXCEPT ![o] = "read"]
        /\ UNCHANGED <<accel, alone, unsettled>>
    BY <1>4 DEF ReadAccelerometer, AfterRead
  <2> QED  BY <2>1
<1>5. ASSUME NEW o \in Observers, DisableAccelerometer(o)
      PROVE  AloneInv' /\ AccelerometerBracketed'
  <2>1. /\ at[o] = "read" /\ at' = [at EXCEPT ![o] = "idle"]
        /\ alone' = alone \ {o}
        /\ \/ accel' = FALSE
           \/ unsettled' = TRUE
    BY <1>5 DEF DisableAccelerometer
  <2>2. \A p \in Observers \ {o} : at'[p] = at[p]
    BY <2>1
  <2>3. alone' = {}
    BY <2>1
  <2> QED  BY <2>1, <2>2, <2>3
<1> QED
  BY <1>1, <1>2, <1>3, <1>4, <1>5 DEF ReadersNext

\* Every accelerometer read is bracketed by its enable and its disable: the card
\* samples while a thread that no other has overlapped reads, and is off again once
\* nobody is inside, unless the last enable or disable failed, whether the reads
\* succeed or not, for any number of threads (SensorReader.cpp:57-77).
THEOREM SensorBracketed == ReadersSpec => []AccelerometerBracketed
<1>1. ReadersInit => AccelInv
  BY ReadersInvInit DEF ReadersInit, ReadersInv, AccelInv, AloneInv,
     AccelerometerBracketed, InCycle
<1>2. AccelInv /\ [ReadersNext]_<<vars, readerVars>> => AccelInv'
  <2> SUFFICES ASSUME AccelInv, [ReadersNext]_<<vars, readerVars>> PROVE AccelInv'
    OBVIOUS
  <2>1. CASE ReadersNext
    BY <2>1, ShapeKept, AccelStep DEF AccelInv
  <2>2. CASE UNCHANGED <<vars, readerVars>>
    BY <2>2 DEF AccelInv, ReaderShape, AloneInv, AccelerometerBracketed, InCycle, Others
  <2> QED
    BY <2>1, <2>2
<1>3. AccelInv => AccelerometerBracketed
  BY DEF AccelInv
<1> QED
  BY <1>1, <1>2, <1>3, PTL DEF ReadersSpec
=============================================================================

----------------------------- MODULE CardReaders -----------------------------
(***************************************************************************)
(* The calls that use the card without the lifecycle mutex, from threads   *)
(* of their own, together with DeviceControl: getHardwareTime and          *)
(* getReferenceClockRate (TimeClock.cpp), which make two SDK reads, and    *)
(* the accelerometer (SensorReader.cpp), which is enabled, read and        *)
(* disabled.  A call whose first SDK call fails, an unsupported sensor and *)
(* the calls that make one read only (temperature) change nothing and are  *)
(* not actions; the frequency of the system counter never changes.         *)
(***************************************************************************)
EXTENDS DeviceControl

CONSTANT Observers  \* application threads that read

VARIABLES
  at,        \* "idle", "second" (one of two reads is done), "enabled", "read"
  getter,    \* what a thread between its two reads asks for
  seen,      \* what the first read returned
  owned,     \* (for the properties) RX has owned its hardware since the first read
  accel,     \* the card samples its accelerometer
  alone,     \* (for the properties) threads whose sensor read no other has overlapped
  unsettled  \* (for the properties) the last enable or disable failed

getterVars == <<getter, seen, owned>>
sensorVars == <<accel, alone, unsettled>>
readerVars == <<at, getterVars, sensorVars>>

Getters == {"hardware_time", "reference_clock"}

ReadersInit ==
  /\ Init
  /\ at = [o \in Observers |-> "idle"]
  /\ getter = [o \in Observers |-> "none"] /\ seen = [o \in Observers |-> 0]
  /\ owned = [o \in Observers |-> FALSE]
  /\ accel = FALSE /\ alone = {} /\ unsettled = FALSE

Move(o, where) == at' = [at EXCEPT ![o] = where]

-----------------------------------------------------------------------------
(* Two reads: the rate and then the counter, the source and then its frequency. *)

\* What the answer of the second read depends on.
Basis(g) == IF g = "hardware_time" THEN timing.rate ELSE timing.clock

FirstRead(o) ==
  /\ life = "open" /\ at[o] = "idle"
  /\ \E g \in Getters :
       /\ getter' = [getter EXCEPT ![o] = g]
       /\ seen' = [seen EXCEPT ![o] = Basis(g)]
  /\ owned' = [owned EXCEPT ![o] = rx # "inactive"]
  /\ Move(o, "second")
  /\ UNCHANGED <<vars, sensorVars>>

\* The second read succeeds, or fails and the call throws.
SecondRead(o) ==
  /\ at[o] = "second"
  /\ Move(o, "idle")
  /\ getter' = [getter EXCEPT ![o] = "none"] /\ seen' = [seen EXCEPT ![o] = 0]
  /\ owned' = [owned EXCEPT ![o] = FALSE]
  /\ UNCHANGED <<vars, sensorVars>>

-----------------------------------------------------------------------------
(* readAccelerometer. *)

InCycle(o) == at[o] \in {"enabled", "read"}
Others(o) == {p \in Observers \ {o} : InCycle(p)}

\* A failed enable throws at once; the card may sample all the same.
EnableAccelerometer(o) ==
  /\ life = "open" /\ at[o] = "idle"
  /\ \/ /\ accel' = TRUE /\ Move(o, "enabled")
        /\ alone' = IF Others(o) = {} THEN {o} ELSE {}
        /\ unsettled' = FALSE
     \/ accel' \in {accel, TRUE} /\ unsettled' = TRUE /\ UNCHANGED <<at, alone>>
  /\ UNCHANGED <<vars, getterVars>>

\* mutated: a failed read throws before the disable
AfterSuccessfulRead(ok) == IF ok THEN "read" ELSE "idle"
AfterRead(ok) == "read"

\* "Always attempt disable after a successful enable, even when reading fails."
ReadAccelerometer(o) ==
  /\ at[o] = "enabled"
  /\ \E ok \in BOOLEAN : Move(o, AfterRead(ok))
  /\ UNCHANGED <<vars, getterVars, sensorVars>>

DisableAccelerometer(o) ==
  /\ at[o] = "read"
  /\ \/ accel' = FALSE /\ unsettled' = FALSE
     \/ accel' \in {accel, FALSE} /\ unsettled' = TRUE
  /\ alone' = alone \ {o}
  /\ Move(o, "idle")
  /\ UNCHANGED <<vars, getterVars>>

-----------------------------------------------------------------------------
\* A step of the device, its setters or RX, meanwhile; callers serialize
\* destruction with API calls.
DeviceStep ==
  /\ Next
  /\ life' = "closing" => \A o \in Observers : at[o] = "idle"
  /\ owned' = [o \in Observers |-> owned[o] /\ rx' # "inactive"]
  /\ UNCHANGED <<at, getter, seen, sensorVars>>

ReadersNext ==
  \/ DeviceStep
  \/ \E o \in Observers :
       \/ FirstRead(o) \/ SecondRead(o)
       \/ EnableAccelerometer(o) \/ ReadAccelerometer(o) \/ DisableAccelerometer(o)

ReadersSpec == ReadersInit /\ [][ReadersNext]_<<vars, readerVars>>

-----------------------------------------------------------------------------
\* A thread that reads the hardware time or the reference clock while RX owns its
\* hardware combines two reads of the same configuration, although it takes no
\* lock; only while RX is inactive can a setter come between them
\* (TimeClock.cpp:284-311, 390-405).
ReadsAgree ==
  \A o \in Observers : at[o] = "second" /\ owned[o] => seen[o] = Basis(getter[o])

\* The accelerometer samples while a thread that is alone with it reads, and has
\* stopped when no thread is inside and the last enable or disable succeeded,
\* whether or not the reads in between failed (SensorReader.cpp:57-77).
AccelerometerBracketed ==
  /\ \A o \in alone : at[o] = "enabled" => accel
  /\ (\A o \in Observers : ~InCycle(o)) /\ ~unsettled => ~accel
=============================================================================

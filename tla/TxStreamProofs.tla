--------------------------- MODULE TxStreamProofs ---------------------------
(***************************************************************************)
(* Machine-checked theorems about TxStream, for every number of pollers,   *)
(* ring size, request size, stream generation and underrun.                *)
(*                                                                         *)
(* TypeOK alone is not inductive: an admission counter stays a natural     *)
(* number only because it counts the calls inside, and curr_block stays in *)
(* the request only because a call that works on a block has one left.     *)
(* TypeInv adds both, and every later invariant is proved on top of it.    *)
(*                                                                         *)
(* In order: types, admission and the drain of a stop; ownership of blocks *)
(* and the refinement of TxOwnership; the hardware and its owner; what a   *)
(* write returns; what pollers report of underruns; the waits.             *)
(***************************************************************************)
EXTENDS TxStream, FiniteSetTheorems, TLAPS

USE TxStreamAssumption
USE DEF streamVars, controlVars, countVars, startVars, ringVars, progressVars,
        writerVars, pollerVars, statusVars, historyVars, WriterLocals,
        TIMEOUT, STREAM_ERROR, UNDERFLOW, NoResult, Malformed,
        Slots, Streams, Requests, WriterPcs, PollerPcs, ControlPcs

\* A call that is past its argument checks works on one of its blocks.
InRequest == wpc \in {"ppsTest", "ppsBlocking", "ppsAsleep", "slotTest",
                      "slotBlocking", "slotAsleep", "prepare", "submit", "release",
                      "fullEnter", "fullTest", "fullBlocking", "fullAsleep",
                      "accepted"}

RequestInProgress == /\ wpc = "check" => curr_block = 0
                     /\ InRequest => wn \in 1 .. MaxBlocks /\ curr_block < wn

TypeInv == TypeOK /\ RequestInProgress /\ AdmissionCounts

----------------------------------------------------------------------------
LEMMA NextSlotTyped ==
  ASSUME NEW i \in Slots
  PROVE  NextSlot(i) \in Slots
BY DEF NextSlot

LEMMA MarkTyped ==
  ASSUME NEW s \in [Streams -> [Slots -> {0, 1}]],
         NEW g \in Streams, NEW i \in Slots, NEW v \in {0, 1}
  PROVE  [s EXCEPT ![g][i] = v] \in [Streams -> [Slots -> {0, 1}]]
OBVIOUS

LEMMA AppendTyped ==
  ASSUME NEW s \in Seq(Nat), NEW b \in Nat
  PROVE  Append(s, b) \in Seq(Nat)
OBVIOUS

LEMMA NothingAccepted == <<>> \in Seq(Nat)
OBVIOUS

\* The admission counters are the sizes of what they count.
LEMMA AdmittedFinite ==
  /\ IsFiniteSet(AdmittedPollers)
  /\ Cardinality(AdmittedPollers) \in Nat
  /\ Cardinality(AdmittedPollers) = 0 => AdmittedPollers = {}
<1>1. IsFiniteSet(AdmittedPollers)
  BY FS_Subset DEF TxStreamAssumption, AdmittedPollers
<1> QED  BY <1>1, FS_CardinalityType, FS_EmptySet

LEMMA SomePollerAdmitted ==
  ASSUME AdmissionCounts, NEW p \in Pollers, PollerAdmitted(p)
  PROVE  active_tx_status_readers \in Nat \ {0}
<1>1. p \in AdmittedPollers
  BY DEF AdmittedPollers
<1> QED  BY <1>1, AdmittedFinite DEF AdmissionCounts

----------------------------------------------------------------------------
(* Types: one step per action, and under it the parts the action changes. *)

LEMMA WriterTyped ==
  ASSUME TypeInv, WriterStep
  PROVE  TypeOK' /\ RequestInProgress'
<1> USE DEF TypeInv, TypeOK, WriterFrame, WriterOnly, WriterAt, Return, Resume, PrefixOr
<1>1. CASE CheckRequest
  <2> USE <1>1 DEF CheckRequest
  <2>1. WriterTypeOK' /\ RequestInProgress'
    BY DEF WriterTypeOK, RequestInProgress, InRequest
  <2> QED  BY <2>1 DEF StreamTypeOK, ControlTypeOK, StartTypeOK, RingTypeOK,
           PollerTypeOK
<1>2. CASE PpsTest
  <2> USE <1>2 DEF PpsTest
  <2>1. StartTypeOK'
    BY DEF StartTypeOK
  <2>2. WriterTypeOK' /\ RequestInProgress'
    BY DEF WriterTypeOK, RequestInProgress, InRequest
  <2> QED  BY <2>1, <2>2 DEF StreamTypeOK, ControlTypeOK, RingTypeOK,
           PollerTypeOK
<1>3. CASE SlotTest
  <2> USE <1>3 DEF SlotTest
  <2>1. RingTypeOK'
    <3>1. CASE UNCHANGED slots
      BY <3>1 DEF RingTypeOK
    <3>2. CASE slots' = [slots EXCEPT ![tx_completion][tx_block_index] = 1]
      BY <3>2, MarkTyped DEF RingTypeOK, StreamTypeOK
    <3> QED  BY <3>1, <3>2
  <2>2. WriterTypeOK' /\ RequestInProgress'
    BY DEF WriterTypeOK, RequestInProgress, InRequest
  <2> QED  BY <2>1, <2>2 DEF StreamTypeOK, ControlTypeOK, StartTypeOK,
           PollerTypeOK
<1>4. CASE BlockWriter
  <2> USE <1>4 DEF BlockWriter
  <2>1. WriterTypeOK' /\ RequestInProgress'
    BY DEF WriterTypeOK, RequestInProgress, InRequest
  <2> QED  BY <2>1 DEF StreamTypeOK, ControlTypeOK, StartTypeOK, RingTypeOK,
           PollerTypeOK
<1>5. CASE PreparePacket
  <2> USE <1>5 DEF PreparePacket
  <2>1. WriterTypeOK' /\ RequestInProgress'
    BY DEF WriterTypeOK, RequestInProgress, InRequest
  <2> QED  BY <2>1 DEF StreamTypeOK, ControlTypeOK, StartTypeOK, RingTypeOK,
           PollerTypeOK
<1>6. CASE Transmit
  <2> USE <1>6 DEF Transmit
  <2>1. RingTypeOK'
    BY DEF RingTypeOK, StreamTypeOK
  <2>2. WriterTypeOK' /\ RequestInProgress'
    <3>1. accepted' \in Seq(Nat)
      BY AppendTyped DEF WriterTypeOK
    <3> QED  BY <3>1 DEF WriterTypeOK, RequestInProgress, InRequest
  <2> QED  BY <2>1, <2>2 DEF StreamTypeOK, ControlTypeOK, StartTypeOK,
           PollerTypeOK
<1>7. CASE ReleaseReservation
  <2> USE <1>7 DEF ReleaseReservation
  <2>1. RingTypeOK'
    BY MarkTyped DEF RingTypeOK, StreamTypeOK
  <2>2. WriterTypeOK' /\ RequestInProgress'
    BY DEF WriterTypeOK, RequestInProgress, InRequest
  <2> QED  BY <2>1, <2>2 DEF StreamTypeOK, ControlTypeOK, StartTypeOK,
           PollerTypeOK
<1>8. CASE FullTest
  <2> USE <1>8 DEF FullTest
  <2>1. WriterTypeOK' /\ RequestInProgress'
    BY DEF WriterTypeOK, RequestInProgress, InRequest
  <2> QED  BY <2>1 DEF StreamTypeOK, ControlTypeOK, StartTypeOK, RingTypeOK,
           PollerTypeOK
<1>9. CASE Advance
  <2> USE <1>9 DEF Advance
  <2>1. RingTypeOK'
    BY NextSlotTyped DEF RingTypeOK
  <2>2. WriterTypeOK' /\ RequestInProgress'
    BY DEF WriterTypeOK, RequestInProgress, InRequest
  <2> QED  BY <2>1, <2>2 DEF StreamTypeOK, ControlTypeOK, StartTypeOK,
           PollerTypeOK
<1>10. CASE LeaveWrite
  <2> USE <1>10 DEF LeaveWrite
  <2>1. ControlTypeOK'
    BY DEF ControlTypeOK, AdmissionCounts, WriterAdmitted
  <2>2. RingTypeOK'
    BY DEF RingTypeOK
  <2>3. WriterTypeOK' /\ RequestInProgress'
    <3>1. accepted' \in Seq(Nat)
      BY NothingAccepted
    <3>2. wpc' \in WriterPcs /\ wn' \in Requests /\ curr_block' = 0
      BY DEF WriterTypeOK
    <3>6. wexpired' \in BOOLEAN
      OBVIOUS
    <3>3. wstatus' \in {"ok", "full", "hard", "exception"}
      BY DEF WriterTypeOK
    <3>4. wret' \in {NoResult, STREAM_ERROR, TIMEOUT} \cup 0 .. MaxBlocks
      BY DEF WriterTypeOK
    <3>5. RequestInProgress'
      BY DEF RequestInProgress, InRequest
    <3> HIDE DEF LeaveWrite, WriteCall
    <3> QED  BY <3>1, <3>2, <3>3, <3>4, <3>5, <3>6 DEF WriterTypeOK
  <2> QED  BY <2>1, <2>2, <2>3 DEF StreamTypeOK, StartTypeOK, PollerTypeOK
<1>11. CASE NotifyLeft
  <2> USE <1>11 DEF NotifyLeft, WokenByChanged
  <2>1. ControlTypeOK'
    BY DEF ControlTypeOK
  <2>2. WriterTypeOK' /\ RequestInProgress'
    BY DEF WriterTypeOK, RequestInProgress, InRequest
  <2> QED  BY <2>1, <2>2 DEF StreamTypeOK, StartTypeOK, RingTypeOK, PollerTypeOK
<1> QED  BY <1>1, <1>2, <1>3, <1>4, <1>5, <1>6, <1>7, <1>8, <1>9, <1>10, <1>11 DEF WriterStep

LEMMA CallsTyped ==
  ASSUME TypeInv, \/ \E n \in Requests : WriteCall(n)
         \/ WriterDeadline \/ WakeWriter
  PROVE  TypeOK' /\ RequestInProgress'
<1> USE DEF TypeInv, TypeOK, WriterFrame, WriterOnly, WriterAt, Resume
<1>1. CASE \E n \in Requests : WriteCall(n)
  <2> USE <1>1 DEF WriteCall
  <2>1. ControlTypeOK'
    BY DEF ControlTypeOK, AdmissionCounts, WriterAdmitted
  <2>2. WriterTypeOK' /\ RequestInProgress'
    <3>1. accepted' \in Seq(Nat)
      BY NothingAccepted
    <3>2. wpc' \in WriterPcs /\ wn' \in Requests /\ curr_block' = 0
      BY DEF WriterTypeOK
    <3>6. wexpired' \in BOOLEAN
      OBVIOUS
    <3>3. wstatus' \in {"ok", "full", "hard", "exception"}
      BY DEF WriterTypeOK
    <3>4. wret' \in {NoResult, STREAM_ERROR, TIMEOUT} \cup 0 .. MaxBlocks
      BY DEF WriterTypeOK
    <3>5. RequestInProgress'
      BY DEF RequestInProgress, InRequest
    <3> HIDE DEF LeaveWrite, WriteCall
    <3> QED  BY <3>1, <3>2, <3>3, <3>4, <3>5, <3>6 DEF WriterTypeOK
  <2> QED  BY <2>1, <2>2 DEF StreamTypeOK, StartTypeOK, RingTypeOK, PollerTypeOK
<1>2. CASE WriterDeadline
  <2> USE <1>2 DEF WriterDeadline
  <2>1. WriterTypeOK' /\ RequestInProgress'
    BY DEF WriterTypeOK, RequestInProgress, InRequest
  <2> QED  BY <2>1 DEF StreamTypeOK, ControlTypeOK, StartTypeOK, RingTypeOK,
           PollerTypeOK
<1>3. CASE WakeWriter
  <2> USE <1>3 DEF WakeWriter, WokenByTxCv, WokenByChanged
  <2>1. WriterTypeOK' /\ RequestInProgress'
    BY DEF WriterTypeOK, RequestInProgress, InRequest
  <2>2. UNCHANGED <<streamVars, controlVars, tx_writes_stopping, countVars, startVars,
                    ringVars, progressVars, pollerVars, statusVars>>
    OBVIOUS
  <2> HIDE DEF WakeWriter
  <2> QED  BY <2>1, <2>2 DEF StreamTypeOK, ControlTypeOK, StartTypeOK, RingTypeOK,
           PollerTypeOK
<1> QED  BY <1>1, <1>2, <1>3

LEMMA PollerTyped ==
  ASSUME TypeInv, NEW p \in Pollers, PollCall(p) \/ PollerDeadline(p) \/ PollerStep(p)
  PROVE  TypeOK' /\ RequestInProgress'
<1> USE DEF TypeInv, TypeOK, PollerFrame, PollerOnly, PollerAt, PollerGoto, PollerReturn
<1>1. CASE PollCall(p)
  <2> USE <1>1 DEF PollCall
  <2>1. ControlTypeOK'
    BY DEF ControlTypeOK, AdmissionCounts, WriterAdmitted
  <2>2. PollerTypeOK'
    BY DEF PollerTypeOK
  <2> QED  BY <2>1, <2>2 DEF StreamTypeOK, StartTypeOK, RingTypeOK,
           WriterTypeOK, RequestInProgress, InRequest
<1>2. CASE PollerDeadline(p)
  <2> USE <1>2 DEF PollerDeadline
  <2>1. PollerTypeOK'
    BY DEF PollerTypeOK
  <2> QED  BY <2>1 DEF StreamTypeOK, ControlTypeOK, StartTypeOK, RingTypeOK,
           WriterTypeOK, RequestInProgress, InRequest
<1>3. CASE LockStatus(p)
  <2> USE <1>3 DEF LockStatus
  <2>1. PollerTypeOK'
    BY DEF PollerTypeOK
  <2> QED  BY <2>1 DEF StreamTypeOK, ControlTypeOK, StartTypeOK, RingTypeOK,
           WriterTypeOK, RequestInProgress, InRequest
<1>4. CASE CheckStart(p)
  <2> USE <1>4 DEF CheckStart
  <2>1. PollerTypeOK'
    BY DEF PollerTypeOK
  <2> QED  BY <2>1 DEF StreamTypeOK, ControlTypeOK, StartTypeOK, RingTypeOK,
           WriterTypeOK, RequestInProgress, InRequest
<1>5. CASE ReadUnderruns(p)
  <2> USE <1>5 DEF ReadUnderruns
  <2>1. PollerTypeOK'
    <3>1. unread' \in BOOLEAN /\ fell_back' \in BOOLEAN
      BY Zenon DEF PollerTypeOK
    <3>2. due' \in [Pollers -> {"none", "either", "report"}]
      BY DEF PollerTypeOK, CalledFor
    <3> QED  BY <3>1, <3>2 DEF PollerTypeOK
  <2> QED  BY <2>1 DEF StreamTypeOK, ControlTypeOK, StartTypeOK, RingTypeOK,
           WriterTypeOK, RequestInProgress, InRequest
<1>6. CASE CompareUnderruns(p)
  <2> USE <1>6 DEF CompareUnderruns
  <2>1. PollerTypeOK'
    BY DEF PollerTypeOK
  <2> QED  BY <2>1 DEF StreamTypeOK, ControlTypeOK, StartTypeOK, RingTypeOK,
           WriterTypeOK, RequestInProgress, InRequest
<1>7. CASE PaceTest(p)
  <2> USE <1>7 DEF PaceTest
  <2>1. PollerTypeOK'
    BY DEF PollerTypeOK
  <2> QED  BY <2>1 DEF StreamTypeOK, ControlTypeOK, StartTypeOK, RingTypeOK,
           WriterTypeOK, RequestInProgress, InRequest
<1>8. CASE LeavePoll(p)
  <2> USE <1>8 DEF LeavePoll
  <2>1. ControlTypeOK'
    BY SomePollerAdmitted DEF ControlTypeOK, AdmissionCounts, WriterAdmitted, PollerAdmitted
  <2>2. PollerTypeOK'
    BY DEF PollerTypeOK
  <2> QED  BY <2>1, <2>2 DEF StreamTypeOK, StartTypeOK, RingTypeOK,
           WriterTypeOK, RequestInProgress, InRequest
<1>9. CASE NotifyPollLeft(p)
  <2> USE <1>9 DEF NotifyPollLeft, WokenByChanged
  <2>1. ControlTypeOK'
    BY DEF ControlTypeOK
  <2>2. WriterTypeOK' /\ RequestInProgress'
    BY DEF WriterTypeOK, RequestInProgress, InRequest
  <2>3. PollerTypeOK'
    BY DEF PollerTypeOK
  <2> QED  BY <2>1, <2>2, <2>3 DEF StreamTypeOK, StartTypeOK, RingTypeOK
<1> QED  BY <1>1, <1>2, <1>3, <1>4, <1>5, <1>6, <1>7, <1>8, <1>9 DEF PollerStep

LEMMA CompletionTyped ==
  ASSUME TypeInv, NEW g \in Streams, NEW i \in Slots, Complete(g, i) \/ NotifyCompleted
  PROVE  TypeOK' /\ RequestInProgress'
<1> USE DEF TypeInv, TypeOK
<1>1. CASE Complete(g, i)
  <2> USE <1>1 DEF Complete, SlotsAfter
  <2>1. RingTypeOK'
    <3>1. slots' \in [Streams -> [Slots -> {0, 1}]]
      BY MarkTyped DEF RingTypeOK
    <3>2. /\ tx_block_index' \in Slots /\ inflight' \subseteq Streams \X Slots
          /\ sdk_completed' \subseteq Streams
      BY DEF RingTypeOK
    <3>3. unnotified' \in BOOLEAN
      BY Zenon
    <3>4. progressed' \in BOOLEAN
      BY Zenon
    <3> HIDE DEF Complete
    <3> QED  BY <3>1, <3>2, <3>3, <3>4 DEF RingTypeOK
  <2>2. UNCHANGED <<streamVars, controlVars, tx_writes_stopping, countVars,
                    startVars, writerVars, pollerVars, statusVars>>
    OBVIOUS
  <2> HIDE DEF Complete
  <2> QED  BY <2>1, <2>2 DEF StreamTypeOK, ControlTypeOK, StartTypeOK,
           WriterTypeOK, PollerTypeOK, RequestInProgress, InRequest
<1>2. CASE NotifyCompleted
  <2> USE <1>2 DEF NotifyCompleted, WokenByChanged
  <2>1. ControlTypeOK'
    BY DEF ControlTypeOK
  <2>2. RingTypeOK'
    BY DEF RingTypeOK
  <2>3. WriterTypeOK' /\ RequestInProgress'
    BY DEF WriterTypeOK, RequestInProgress, InRequest
  <2> QED  BY <2>1, <2>2, <2>3 DEF StreamTypeOK, StartTypeOK, PollerTypeOK
<1> QED  BY <1>1, <1>2

LEMMA HardwareTyped ==
  ASSUME TypeInv, PpsEdge \/ PpsPublish \/ PpsNotify \/ Underrun \/ CounterReset
  PROVE  TypeOK' /\ RequestInProgress'
<1> USE DEF TypeInv, TypeOK, OthersFrame
<1>1. CASE PpsEdge
  <2> USE <1>1 DEF PpsEdge, HardwareStarts
  <2>1. StreamTypeOK'
    BY DEF StreamTypeOK
  <2>2. StartTypeOK'
    BY DEF StartTypeOK
  <2>3. PollerTypeOK'
    <3>1. unread' \in BOOLEAN /\ fell_back' \in BOOLEAN
      BY Zenon DEF PollerTypeOK
    <3> QED  BY <3>1 DEF PollerTypeOK
  <2> QED  BY <2>1, <2>2, <2>3 DEF ControlTypeOK, RingTypeOK, WriterTypeOK,
           RequestInProgress, InRequest
<1>2. CASE PpsPublish
  <2> USE <1>2 DEF PpsPublish
  <2>1. StartTypeOK'
    BY DEF StartTypeOK
  <2>2. PollerTypeOK'
    BY DEF PollerTypeOK
  <2> QED  BY <2>1, <2>2 DEF StreamTypeOK, ControlTypeOK, RingTypeOK,
           WriterTypeOK, RequestInProgress, InRequest
<1>3. CASE PpsNotify
  <2> USE <1>3 DEF PpsNotify, WokenByTxCv
  <2>1. StartTypeOK'
    BY DEF StartTypeOK
  <2>2. WriterTypeOK' /\ RequestInProgress'
    BY DEF WriterTypeOK, RequestInProgress, InRequest
  <2> QED  BY <2>1, <2>2 DEF StreamTypeOK, ControlTypeOK, RingTypeOK,
           PollerTypeOK
<1>4. CASE Underrun
  <2> USE <1>4 DEF Underrun
  <2>1. PollerTypeOK'
    BY DEF PollerTypeOK
  <2> QED  BY <2>1 DEF StreamTypeOK, ControlTypeOK, StartTypeOK, RingTypeOK,
           WriterTypeOK, RequestInProgress, InRequest
<1>5. CASE CounterReset
  <2> USE <1>5 DEF CounterReset
  <2>1. PollerTypeOK'
    BY DEF PollerTypeOK
  <2> QED  BY <2>1 DEF StreamTypeOK, ControlTypeOK, StartTypeOK, RingTypeOK,
           WriterTypeOK, RequestInProgress, InRequest
<1> QED  BY <1>1, <1>2, <1>3, <1>4, <1>5

LEMMA StartTyped ==
  ASSUME TypeInv, SetupStream \/ ActivateStream \/ StartNow \/ ResetBaseline \/ ArmPps
         \/ SpawnPps \/ CloseGate \/ OpenAdmission
  PROVE  TypeOK' /\ RequestInProgress'
<1> USE DEF TypeInv, TypeOK, ControlFrame
<1>1. CASE SetupStream
  <2> USE <1>1 DEF SetupStream
  <2>1. StreamTypeOK'
    BY DEF StreamTypeOK
  <2>2. RingTypeOK'
    <3>1. unnotified' \in BOOLEAN
      BY Zenon
    <3> QED  BY <3>1 DEF RingTypeOK
  <2> QED  BY <2>1, <2>2 DEF ControlTypeOK, StartTypeOK, WriterTypeOK,
           PollerTypeOK, RequestInProgress, InRequest
<1>2. CASE ActivateStream
  <2> USE <1>2 DEF ActivateStream
  <2>1. ControlTypeOK'
    BY DEF ControlTypeOK
  <2>2. StartTypeOK'
    BY DEF StartTypeOK
  <2> QED  BY <2>1, <2>2 DEF StreamTypeOK, RingTypeOK, WriterTypeOK,
           PollerTypeOK, RequestInProgress, InRequest
<1>3. CASE StartNow
  <2> USE <1>3 DEF StartNow, HardwareStarts
  <2>1. StreamTypeOK'
    BY DEF StreamTypeOK
  <2>2. ControlTypeOK'
    BY DEF ControlTypeOK
  <2>3. PollerTypeOK'
    <3>1. unread' \in BOOLEAN /\ fell_back' \in BOOLEAN
      BY Zenon DEF PollerTypeOK
    <3> QED  BY <3>1 DEF PollerTypeOK
  <2> QED  BY <2>1, <2>2, <2>3 DEF StartTypeOK, RingTypeOK, WriterTypeOK,
           RequestInProgress, InRequest
<1>4. CASE ResetBaseline
  <2> USE <1>4 DEF ResetBaseline
  <2>1. ControlTypeOK'
    BY DEF ControlTypeOK
  <2>2. PollerTypeOK'
    BY DEF PollerTypeOK
  <2> QED  BY <2>1, <2>2 DEF StreamTypeOK, StartTypeOK, RingTypeOK,
           WriterTypeOK, RequestInProgress, InRequest
<1>5. CASE ArmPps
  <2> USE <1>5 DEF ArmPps
  <2>1. ControlTypeOK'
    BY DEF ControlTypeOK
  <2>2. StartTypeOK'
    BY DEF StartTypeOK
  <2> QED  BY <2>1, <2>2 DEF StreamTypeOK, RingTypeOK, WriterTypeOK,
           PollerTypeOK, RequestInProgress, InRequest
<1>6. CASE SpawnPps
  <2> USE <1>6 DEF SpawnPps
  <2>1. ControlTypeOK'
    BY DEF ControlTypeOK
  <2>2. StartTypeOK'
    BY DEF StartTypeOK
  <2> QED  BY <2>1, <2>2 DEF StreamTypeOK, RingTypeOK, WriterTypeOK,
           PollerTypeOK, RequestInProgress, InRequest
<1>7. CASE CloseGate
  <2> USE <1>7 DEF CloseGate
  <2>1. StreamTypeOK'
    BY DEF StreamTypeOK
  <2>2. ControlTypeOK'
    BY DEF ControlTypeOK
  <2>3. StartTypeOK'
    BY DEF StartTypeOK
  <2> QED  BY <2>1, <2>2, <2>3 DEF RingTypeOK, WriterTypeOK, PollerTypeOK,
           RequestInProgress, InRequest
<1>8. CASE OpenAdmission
  <2> USE <1>8 DEF OpenAdmission
  <2>1. ControlTypeOK'
    BY DEF ControlTypeOK
  <2> QED  BY <2>1 DEF StreamTypeOK, StartTypeOK, RingTypeOK, WriterTypeOK,
           PollerTypeOK, RequestInProgress, InRequest
<1> QED  BY <1>1, <1>2, <1>3, <1>4, <1>5, <1>6, <1>7, <1>8

LEMMA StopTyped ==
  ASSUME TypeInv, StopStep \/ \E op \in {"deactivate", "close", "destroy"} : StopCall(op)
  PROVE  TypeOK' /\ RequestInProgress'
<1> USE DEF TypeInv, TypeOK, ControlFrame
<1>1. CASE CloseAdmission
  <2> USE <1>1 DEF CloseAdmission
  <2>1. ControlTypeOK'
    BY DEF ControlTypeOK
  <2> QED  BY <2>1 DEF StreamTypeOK, StartTypeOK, RingTypeOK, WriterTypeOK,
           PollerTypeOK, RequestInProgress, InRequest
<1>2. CASE NotifyStop
  <2> USE <1>2 DEF NotifyStop, WokenByTxCv, WokenByChanged
  <2>1. ControlTypeOK'
    BY DEF ControlTypeOK
  <2>2. WriterTypeOK' /\ RequestInProgress'
    BY DEF WriterTypeOK, RequestInProgress, InRequest
  <2> QED  BY <2>1, <2>2 DEF StreamTypeOK, StartTypeOK, RingTypeOK, PollerTypeOK
<1>3. CASE Drain
  <2> USE <1>3 DEF Drain
  <2>1. ControlTypeOK'
    BY DEF ControlTypeOK
  <2> QED  BY <2>1 DEF StreamTypeOK, StartTypeOK, RingTypeOK, WriterTypeOK,
           PollerTypeOK, RequestInProgress, InRequest
<1>4. CASE JoinPps
  <2> USE <1>4 DEF JoinPps
  <2>1. ControlTypeOK'
    BY DEF ControlTypeOK
  <2>2. StartTypeOK'
    BY DEF StartTypeOK
  <2> QED  BY <2>1, <2>2 DEF StreamTypeOK, RingTypeOK, WriterTypeOK,
           PollerTypeOK, RequestInProgress, InRequest
<1>5. CASE StopHardware
  <2> USE <1>5 DEF StopHardware, KeepFailedStop
  <2>1. StreamTypeOK'
    BY DEF StreamTypeOK
  <2>2. ControlTypeOK'
    BY DEF ControlTypeOK
  <2> QED  BY <2>1, <2>2 DEF StartTypeOK, RingTypeOK, WriterTypeOK,
           PollerTypeOK, RequestInProgress, InRequest
<1>6. CASE FinishStop
  <2> USE <1>6 DEF FinishStop
  <2>1. StreamTypeOK'
    BY DEF StreamTypeOK
  <2>2. ControlTypeOK'
    BY DEF ControlTypeOK
  <2> QED  BY <2>1, <2>2 DEF StartTypeOK, RingTypeOK, WriterTypeOK,
           PollerTypeOK, RequestInProgress, InRequest
<1>7. CASE \E op \in {"deactivate", "close", "destroy"} : StopCall(op)
  <2>1. /\ cpc' = "stop" /\ cop' \in {"deactivate", "close", "destroy"}
        /\ UNCHANGED <<streamVars, tx_writes_stopping, countVars, startVars, ringVars,
                       progressVars, writerVars, pollerVars, statusVars>>
    BY <1>7 DEF StopCall
  <2>2. ControlTypeOK'
    BY <2>1 DEF ControlTypeOK
  <2>3. StreamTypeOK' /\ StartTypeOK' /\ RequestInProgress'
    BY <2>1 DEF StreamTypeOK, StartTypeOK, RequestInProgress, InRequest
  <2>4. RingTypeOK' /\ WriterTypeOK' /\ PollerTypeOK'
    BY <2>1 DEF RingTypeOK, WriterTypeOK, PollerTypeOK
  <2> QED  BY <2>2, <2>3, <2>4
<1> QED  BY <1>1, <1>2, <1>3, <1>4, <1>5, <1>6, <1>7 DEF StopStep

----------------------------------------------------------------------------
(* Admission: the counters follow the calls that enter and leave. *)

LEMMA NobodyEnters ==
  ASSUME AdmissionCounts, UNCHANGED countVars, WriterAdmitted' <=> WriterAdmitted,
         \A p \in Pollers : PollerAdmitted(p)' <=> PollerAdmitted(p)
  PROVE  AdmissionCounts'
<1>1. AdmittedPollers' = AdmittedPollers
  BY DEF AdmittedPollers
<1>2. Cardinality(AdmittedPollers') = Cardinality(AdmittedPollers)
  BY <1>1
<1>3. active_tx_writers' = IF WriterAdmitted' THEN 1 ELSE 0
  BY DEF AdmissionCounts
<1> QED  BY <1>2, <1>3 DEF AdmissionCounts

LEMMA WriterAdmission ==
  ASSUME TypeInv, \/ WriterStep \/ WriterDeadline \/ WakeWriter
                  \/ \E n \in Requests : WriteCall(n)
  PROVE  AdmissionCounts'
<1> USE DEF TypeInv, TypeOK, WriterFrame, WriterOnly, WriterAt, Return, Resume
<1>1. AdmittedPollers' = AdmittedPollers
  <2>1. UNCHANGED ppc
    BY DEF WriterStep, CheckRequest, PpsTest, SlotTest, BlockWriter, PreparePacket,
           Transmit, ReleaseReservation, FullTest, Advance, LeaveWrite, NotifyLeft,
           WriterDeadline, WakeWriter, WriteCall
  <2> QED  BY <2>1 DEF AdmittedPollers, PollerAdmitted
<1>2. Cardinality(AdmittedPollers') = Cardinality(AdmittedPollers)
  BY <1>1
<1>3. active_tx_status_readers' = active_tx_status_readers
  BY DEF WriterStep, CheckRequest, PpsTest, SlotTest, BlockWriter, PreparePacket,
         Transmit, ReleaseReservation, FullTest, Advance, LeaveWrite, NotifyLeft,
         WriterDeadline, WakeWriter, WriteCall
<1>4. active_tx_writers' = IF WriterAdmitted' THEN 1 ELSE 0
  <2>1. active_tx_writers = IF WriterAdmitted THEN 1 ELSE 0
    BY DEF AdmissionCounts
  <2>2. CASE \E n \in Requests : WriteCall(n)
    BY <2>1, <2>2 DEF WriteCall, WriterAdmitted
  <2>3. CASE LeaveWrite
    BY <2>1, <2>3 DEF LeaveWrite, WriterAdmitted
  <2>4. CASE ~ LeaveWrite /\ ~ \E n \in Requests : WriteCall(n)
    <3>1. UNCHANGED active_tx_writers
      BY <2>4 DEF WriterStep, CheckRequest, PpsTest, SlotTest, BlockWriter,
                  PreparePacket, Transmit, ReleaseReservation, FullTest, Advance,
                  NotifyLeft, WriterDeadline, WakeWriter
    <3>2. WriterAdmitted' <=> WriterAdmitted
      BY <2>4 DEF WriterAdmitted, WriterStep, CheckRequest, PpsTest, SlotTest,
                  BlockWriter, PreparePacket, Transmit, ReleaseReservation, FullTest,
                  Advance, NotifyLeft, WriterDeadline, WakeWriter, WokenByTxCv,
                  WokenByChanged
    <3> QED  BY <2>1, <3>1, <3>2
  <2> QED  BY <2>2, <2>3, <2>4
<1> QED  BY <1>2, <1>3, <1>4 DEF AdmissionCounts

LEMMA PollerAdmission ==
  ASSUME TypeInv, NEW p \in Pollers, PollCall(p) \/ PollerDeadline(p) \/ PollerStep(p)
  PROVE  AdmissionCounts'
<1> USE DEF TypeInv, TypeOK, PollerTypeOK, PollerFrame, PollerOnly, PollerAt,
            PollerGoto, PollerReturn
<1>1. CASE PollCall(p)
  <2> USE <1>1 DEF PollCall
  <2>1. AdmittedPollers' = AdmittedPollers \cup {p} /\ p \notin AdmittedPollers
    BY DEF AdmittedPollers, PollerAdmitted
  <2>2. Cardinality(AdmittedPollers') = Cardinality(AdmittedPollers) + 1
    BY <2>1, AdmittedFinite, FS_AddElement
  <2>3. WriterAdmitted' <=> WriterAdmitted
    BY DEF WriterAdmitted
  <2> QED  BY <2>2, <2>3 DEF AdmissionCounts
<1>2. CASE LeavePoll(p)
  <2> USE <1>2 DEF LeavePoll
  <2>1. AdmittedPollers' = AdmittedPollers \ {p} /\ p \in AdmittedPollers
    BY DEF AdmittedPollers, PollerAdmitted
  <2>2. Cardinality(AdmittedPollers') = Cardinality(AdmittedPollers) - 1
    BY <2>1, AdmittedFinite, FS_RemoveElement
  <2>3. WriterAdmitted' <=> WriterAdmitted
    BY DEF WriterAdmitted
  <2> QED  BY <2>2, <2>3 DEF AdmissionCounts
<1>3. CASE ~ PollCall(p) /\ ~ LeavePoll(p)
  <2>1. UNCHANGED countVars
    BY <1>3 DEF PollerStep, PollerDeadline, LockStatus, CheckStart, ReadUnderruns,
                CompareUnderruns, PaceTest, NotifyPollLeft
  <2>2. WriterAdmitted' <=> WriterAdmitted
    BY <1>3 DEF PollerStep, PollerDeadline, LockStatus, CheckStart, ReadUnderruns,
                CompareUnderruns, PaceTest, NotifyPollLeft, WriterAdmitted,
                WokenByChanged
  <2>3. ASSUME NEW q \in Pollers
        PROVE  PollerAdmitted(q)' <=> PollerAdmitted(q)
    BY <1>3 DEF PollerStep, PollerDeadline, LockStatus, CheckStart, ReadUnderruns,
                CompareUnderruns, PaceTest, NotifyPollLeft, PollerAdmitted
  <2> QED  BY <2>1, <2>2, <2>3, NobodyEnters
<1> QED  BY <1>1, <1>2, <1>3

\* The steps of everyone else but the writer and the pollers.
ControlAction ==
  \/ SetupStream \/ ActivateStream \/ ControlStep
  \/ \E op \in {"deactivate", "close", "destroy"} : StopCall(op)

HardwareAction == PpsEdge \/ PpsPublish \/ PpsNotify \/ Underrun \/ CounterReset

CompletionAction == \/ \E g \in Streams, i \in Slots : Complete(g, i)
                    \/ NotifyCompleted

WriterAction == \/ WriterStep \/ WriterDeadline \/ WakeWriter
                \/ \E n \in Requests : WriteCall(n)

PollerAction == \E p \in Pollers : PollCall(p) \/ PollerDeadline(p) \/ PollerStep(p)

LEMMA NextCases ==
  ASSUME [Next]_vars
  PROVE  \/ WriterAction \/ PollerAction \/ CompletionAction \/ HardwareAction
         \/ ControlAction \/ UNCHANGED vars
BY DEF Next, WriterAction, PollerAction, CompletionAction, HardwareAction,
       ControlAction, Quiet

\* Nobody else moves a call over the admission gate.
LEMMA OtherAdmission ==
  ASSUME TypeInv, CompletionAction \/ HardwareAction \/ ControlAction
  PROVE  /\ UNCHANGED <<countVars, ppc>>
         /\ WriterAdmitted' <=> WriterAdmitted
         /\ AdmissionCounts'
<1>1. UNCHANGED <<countVars, ppc>>
  BY DEF CompletionAction, HardwareAction, ControlAction, ControlStep, StopStep,
         Complete, NotifyCompleted, PpsEdge, PpsPublish, PpsNotify, Underrun,
         CounterReset, OthersFrame, SetupStream, ActivateStream, StartNow,
         ResetBaseline, ArmPps, SpawnPps, CloseGate, OpenAdmission, StopCall,
         CloseAdmission, NotifyStop, Drain, JoinPps, StopHardware, FinishStop,
         ControlFrame
<1>2. WriterAdmitted' <=> WriterAdmitted
  <2>1. wpc' \in {wpc, WokenByTxCv(wpc), WokenByChanged(wpc)}
    BY DEF CompletionAction, HardwareAction, ControlAction, ControlStep, StopStep,
           Complete, NotifyCompleted, PpsEdge, PpsPublish, PpsNotify, Underrun,
           CounterReset, OthersFrame, SetupStream, ActivateStream, StartNow,
           ResetBaseline, ArmPps, SpawnPps, CloseGate, OpenAdmission, StopCall,
           CloseAdmission, NotifyStop, Drain, JoinPps, StopHardware, FinishStop,
           ControlFrame
  <2> QED  BY <2>1 DEF WriterAdmitted, WokenByTxCv, WokenByChanged
<1>3. \A p \in Pollers : PollerAdmitted(p)' <=> PollerAdmitted(p)
  BY <1>1 DEF PollerAdmitted
<1> QED  BY <1>1, <1>2, <1>3, NobodyEnters DEF TypeInv

LEMMA TypeInvInit == Init => TypeInv
<1> SUFFICES ASSUME Init PROVE TypeInv
  OBVIOUS
<1> USE DEF Init
<1>1. 0 \in Streams /\ 0 \in Slots
  OBVIOUS
<1>2. StreamTypeOK /\ ControlTypeOK /\ StartTypeOK
  BY <1>1 DEF StreamTypeOK, ControlTypeOK, StartTypeOK
<1>3. RingTypeOK
  BY <1>1 DEF RingTypeOK
<1>4. WriterTypeOK /\ RequestInProgress
  <2>1. accepted \in Seq(Nat)
    BY NothingAccepted
  <2>2. wexpired \in BOOLEAN
    OBVIOUS
  <2>3. wpc = "idle" /\ wn = 0 /\ curr_block = 0 /\ wstatus = "ok" /\ wret = NoResult
    OBVIOUS
  <2> HIDE DEF Init
  <2> QED  BY <2>1, <2>2, <2>3 DEF WriterTypeOK, RequestInProgress, InRequest
<1>5. PollerTypeOK
  BY DEF PollerTypeOK
<1>6. AdmittedPollers = {}
  BY DEF AdmittedPollers, PollerAdmitted
<1>7. AdmissionCounts
  BY <1>6, FS_EmptySet DEF AdmissionCounts, WriterAdmitted
<1> QED  BY <1>2, <1>3, <1>4, <1>5, <1>7 DEF TypeInv, TypeOK

LEMMA TypeInvStep == TypeInv /\ [Next]_vars => TypeInv'
<1> SUFFICES ASSUME TypeInv, [Next]_vars PROVE TypeInv'
  OBVIOUS
<1>1. CASE WriterAction
  BY <1>1, WriterTyped, CallsTyped, WriterAdmission DEF WriterAction, TypeInv
<1>2. CASE PollerAction
  BY <1>2, PollerTyped, PollerAdmission DEF PollerAction, TypeInv
<1>3. CASE CompletionAction
  <2>1. CASE \E g \in Streams, i \in Slots : Complete(g, i)
    BY <2>1, <1>3, CompletionTyped, OtherAdmission DEF TypeInv
  <2>2. CASE NotifyCompleted
    <3>1. 0 \in Slots
      OBVIOUS
    <3> QED  BY <2>2, <3>1, <1>3, CompletionTyped, OtherAdmission DEF TypeInv
  <2> QED  BY <1>3, <2>1, <2>2 DEF CompletionAction
<1>4. CASE HardwareAction
  BY <1>4, HardwareTyped, OtherAdmission DEF HardwareAction, TypeInv
<1>5. CASE ControlAction
  BY <1>5, StartTyped, StopTyped, OtherAdmission DEF ControlAction, ControlStep, TypeInv
<1>6. CASE UNCHANGED vars
  <2> USE <1>6 DEF vars
  <2>1. TypeOK'
    BY DEF TypeInv, TypeOK, StreamTypeOK, ControlTypeOK, StartTypeOK, RingTypeOK,
           WriterTypeOK, PollerTypeOK
  <2>2. RequestInProgress'
    BY DEF TypeInv, RequestInProgress, InRequest
  <2>3. AdmissionCounts'
    BY NobodyEnters DEF TypeInv, WriterAdmitted, PollerAdmitted
  <2> QED  BY <2>1, <2>2, <2>3 DEF TypeInv
<1> QED  BY <1>1, <1>2, <1>3, <1>4, <1>5, <1>6, NextCases

LEMMA TypeInvariant == Spec => []TypeInv
<1> QED  BY TypeInvInit, TypeInvStep, PTL DEF Spec

\* Every variable keeps its type: in particular the ring index stays inside the
\* ring, and neither admission counter of writeStream and readStreamStatus ever
\* goes below zero.
THEOREM TypeCorrect == Spec => []TypeOK
<1>1. TypeInv => TypeOK
  BY DEF TypeInv
<1> QED  BY <1>1, TypeInvariant, PTL

\* The counters stopTxWrites drains on are the numbers of write and status calls
\* between their admission and their ScopeExit guard, for any number of pollers.
THEOREM AdmissionCorrect == Spec => []AdmissionCounts
<1>1. TypeInv => AdmissionCounts
  BY DEF TypeInv
<1> QED  BY <1>1, TypeInvariant, PTL

----------------------------------------------------------------------------
(* The drain: a stop that has passed it runs alone. *)

Stopping == cpc \in {"notifyTxCv", "notifyChanged", "drain", "drainBlocking",
                     "drainAsleep", "join", "sdkStop", "finish"}

\* The gate CloseAdmission has shut stays shut until the stop is over.
GateShut == Stopping => tx_writes_stopping

DrainInv == TypeInv /\ GateShut /\ Drained

LEMMA DrainByWriter ==
  ASSUME DrainInv, WriterAction
  PROVE  GateShut' /\ Drained'
<1> USE DEF DrainInv, GateShut, Stopping, Drained, WriterFrame, WriterOnly, WriterAt,
            Return, Resume
<1>1. CASE \E n \in Requests : WriteCall(n)
  BY <1>1 DEF WriteCall, PollerAdmitted
<1>2. CASE ~ \E n \in Requests : WriteCall(n)
  <2>1. UNCHANGED <<tx_writes_stopping, pps, ppc>>
    BY <1>2 DEF WriterAction, WriterStep, CheckRequest, PpsTest, SlotTest,
           BlockWriter, PreparePacket, Transmit, ReleaseReservation, FullTest, Advance,
           LeaveWrite, NotifyLeft, WriterDeadline, WakeWriter
  <2>2. cpc' \in {cpc, WokenByChanged(cpc)}
    BY <1>2 DEF WriterAction, WriterStep, CheckRequest, PpsTest, SlotTest,
           BlockWriter, PreparePacket, Transmit, ReleaseReservation, FullTest, Advance,
           LeaveWrite, NotifyLeft, WriterDeadline, WakeWriter
  <2>3. WriterAdmitted' => WriterAdmitted
    BY <1>2 DEF WriterAction, WriterStep, CheckRequest, PpsTest, SlotTest,
           BlockWriter, PreparePacket, Transmit, ReleaseReservation, FullTest, Advance,
           LeaveWrite, NotifyLeft, WriterDeadline, WakeWriter, WriterAdmitted,
           WokenByTxCv, WokenByChanged
  <2> QED  BY <2>1, <2>2, <2>3 DEF WokenByChanged, PollerAdmitted
<1> QED  BY <1>1, <1>2

LEMMA DrainByPoller ==
  ASSUME DrainInv, NEW p \in Pollers, PollCall(p) \/ PollerDeadline(p) \/ PollerStep(p)
  PROVE  GateShut' /\ Drained'
<1> USE DEF DrainInv, TypeInv, TypeOK, PollerTypeOK, GateShut, Stopping, Drained,
            PollerFrame, PollerOnly, PollerAt, PollerGoto, PollerReturn
<1>1. CASE PollCall(p)
  BY <1>1 DEF PollCall, WriterAdmitted
<1>2. CASE ~ PollCall(p)
  <2>1. UNCHANGED <<tx_writes_stopping, pps>> /\ cpc' \in {cpc, WokenByChanged(cpc)}
    BY <1>2 DEF PollerStep, PollerDeadline, LockStatus, CheckStart, ReadUnderruns,
                CompareUnderruns, PaceTest, LeavePoll, NotifyPollLeft
  <2>2. WriterAdmitted' <=> WriterAdmitted
    BY <1>2 DEF PollerStep, PollerDeadline, LockStatus, CheckStart, ReadUnderruns,
                CompareUnderruns, PaceTest, LeavePoll, NotifyPollLeft, WriterAdmitted,
                WokenByChanged
  <2>3. ASSUME NEW q \in Pollers, PollerAdmitted(q)'
        PROVE  PollerAdmitted(q)
    BY <1>2, <2>3 DEF PollerStep, PollerDeadline, LockStatus, CheckStart,
                ReadUnderruns, CompareUnderruns, PaceTest, LeavePoll, NotifyPollLeft,
                PollerAdmitted
  <2> QED  BY <2>1, <2>2, <2>3 DEF WokenByChanged
<1> QED  BY <1>1, <1>2

LEMMA DrainByOthers ==
  ASSUME DrainInv, CompletionAction \/ HardwareAction
  PROVE  GateShut' /\ Drained'
<1>1. UNCHANGED ppc /\ (WriterAdmitted' <=> WriterAdmitted)
  BY OtherAdmission DEF DrainInv
<1>2. UNCHANGED tx_writes_stopping /\ cpc' \in {cpc, WokenByChanged(cpc)}
  BY DEF CompletionAction, HardwareAction, Complete, NotifyCompleted, PpsEdge,
         PpsPublish, PpsNotify, Underrun, CounterReset, OthersFrame
<1>3. pps = "none" => pps' = "none"
  BY DEF CompletionAction, HardwareAction, Complete, NotifyCompleted, PpsEdge,
         PpsPublish, PpsNotify, Underrun, CounterReset, OthersFrame
<1> QED  BY <1>1, <1>2, <1>3
         DEF DrainInv, GateShut, Stopping, Drained, PollerAdmitted, WokenByChanged

LEMMA DrainByControl ==
  ASSUME DrainInv, ControlAction
  PROVE  GateShut' /\ Drained'
<1>1. UNCHANGED ppc /\ (WriterAdmitted' <=> WriterAdmitted)
  BY OtherAdmission DEF DrainInv
<1>2. \A p \in Pollers : PollerAdmitted(p)' <=> PollerAdmitted(p)
  BY <1>1 DEF PollerAdmitted
<1> USE DEF DrainInv, GateShut, Stopping, Drained, ControlFrame
<1>3. CASE Drain
  <2>1. NoneAdmitted => ~ WriterAdmitted /\ \A p \in Pollers : ~ PollerAdmitted(p)
    BY AdmittedFinite DEF NoneAdmitted, TypeInv, AdmissionCounts, AdmittedPollers
  <2> QED  BY <1>1, <1>2, <1>3, <2>1 DEF Drain
<1>4. CASE JoinPps
  BY <1>1, <1>2, <1>4 DEF JoinPps
<1>5. CASE CloseAdmission \/ NotifyStop \/ StopHardware \/ FinishStop
  BY <1>1, <1>2, <1>5 DEF CloseAdmission, NotifyStop, StopHardware, FinishStop
<1>6. CASE \E op \in {"deactivate", "close", "destroy"} : StopCall(op)
  BY <1>6 DEF StopCall
<1>7. CASE \/ SetupStream \/ ActivateStream \/ StartNow \/ ResetBaseline \/ ArmPps
           \/ SpawnPps \/ CloseGate \/ OpenAdmission
  BY <1>7 DEF SetupStream, ActivateStream, StartNow, ResetBaseline, ArmPps, SpawnPps,
              CloseGate, OpenAdmission, ControlIdle
<1> QED  BY <1>3, <1>4, <1>5, <1>6, <1>7 DEF ControlAction, ControlStep, StopStep

LEMMA DrainInvariant == Spec => []DrainInv
<1>1. Init => DrainInv
  BY TypeInvInit DEF Init, DrainInv, GateShut, Stopping, Drained
<1>2. DrainInv /\ [Next]_vars => DrainInv'
  <2> SUFFICES ASSUME DrainInv, [Next]_vars PROVE DrainInv'
    OBVIOUS
  <2>1. TypeInv'
    BY TypeInvStep DEF DrainInv
  <2>2. CASE WriterAction
    BY <2>1, <2>2, DrainByWriter DEF DrainInv
  <2>3. CASE PollerAction
    BY <2>1, <2>3, DrainByPoller DEF DrainInv, PollerAction
  <2>4. CASE CompletionAction \/ HardwareAction
    BY <2>1, <2>4, DrainByOthers DEF DrainInv
  <2>5. CASE ControlAction
    BY <2>1, <2>5, DrainByControl DEF DrainInv
  <2>6. CASE UNCHANGED vars
    BY <2>1, <2>6 DEF DrainInv, GateShut, Stopping, Drained, WriterAdmitted,
                      PollerAdmitted, vars
  <2> QED  BY <2>2, <2>3, <2>4, <2>5, <2>6, NextCases
<1> QED  BY <1>1, <1>2, PTL DEF Spec

\* stopTxStream joins the PPS worker and stops the hardware only after every
\* admitted writeStream and readStreamStatus has left, and none enters until it
\* is over: no call uses the SDK handle of a stream that is being stopped.
THEOREM StopsAlone == Spec => []Drained
<1>1. DrainInv => Drained
  BY DEF DrainInv
<1> QED  BY <1>1, DrainInvariant, PTL

----------------------------------------------------------------------------
(* Block ownership. *)

\* What SlotOwnership reads of the writer: does it hold the current slot?
LEMMA OwnershipFrame ==
  ASSUME SlotOwnership, UNCHANGED <<slots, inflight>>, Holding' <=> Holding,
         Holding => UNCHANGED <<tx_completion, tx_block_index>>
  PROVE  SlotOwnership'
BY DEF SlotOwnership

LEMMA OwnershipByWriter ==
  ASSUME TypeInv, SlotOwnership, WriterAction
  PROVE  SlotOwnership'
<1> DEFINE here == <<tx_completion, tx_block_index>>
<1>0. /\ tx_completion \in Streams /\ tx_block_index \in Slots
      /\ slots \in [Streams -> [Slots -> {0, 1}]]
  BY DEF TypeInv, TypeOK, StreamTypeOK, RingTypeOK
<1> USE DEF WriterFrame, WriterOnly, WriterAt, Return, Resume
<1>1. CASE SlotTest
  <2>1. CASE SlotTest /\ ~ tx_writes_stopping /\ SlotFree
    <3>1. /\ slots' = [slots EXCEPT ![tx_completion][tx_block_index] = 1]
          /\ UNCHANGED <<inflight, tx_completion, tx_block_index>> /\ Holding'
      BY <2>1 DEF SlotTest, Holding
    <3>2. ~ Holding
      BY <2>1 DEF SlotTest, Holding
    <3>3. here \notin inflight
      BY <2>1, <1>0, <3>2 DEF SlotOwnership, SlotFree
    <3> QED  BY <1>0, <3>1, <3>2, <3>3 DEF SlotOwnership
  <2>2. CASE SlotTest /\ ~ (~ tx_writes_stopping /\ SlotFree)
    <3>1. UNCHANGED <<slots, inflight>> /\ ~ Holding' /\ ~ Holding
      BY <2>2 DEF SlotTest, Holding
    <3> QED  BY <3>1, OwnershipFrame
  <2> QED  BY <1>1, <2>1, <2>2
<1>2. CASE Transmit
  <2>1. CASE inflight' = inflight \cup {here} /\ wpc' = "accepted"
    <3>1. Holding /\ ~ Holding' /\ UNCHANGED slots
      BY <1>2, <2>1 DEF Transmit, Holding
    <3> QED  BY <1>0, <2>1, <3>1 DEF SlotOwnership
  <2>2. CASE UNCHANGED inflight /\ wpc' = "release"
    <3>1. /\ Holding /\ Holding'
          /\ UNCHANGED <<slots, tx_completion, tx_block_index>>
      BY <1>2, <2>2 DEF Transmit, Holding
    <3> QED  BY <2>2, <3>1, OwnershipFrame
  <2> QED  BY <1>2, <2>1, <2>2 DEF Transmit
<1>3. CASE ReleaseReservation
  <2>1. /\ slots' = [slots EXCEPT ![tx_completion][tx_block_index] = 0]
        /\ UNCHANGED inflight /\ Holding /\ ~ Holding'
    BY <1>3 DEF ReleaseReservation, Holding
  <2>2. ASSUME NEW g \in Streams, NEW i \in Slots
        PROVE  slots'[g][i] = 1 <=> <<g, i>> \in inflight
    <3>1. CASE g = tx_completion /\ i = tx_block_index
      BY <1>0, <2>1, <3>1 DEF SlotOwnership
    <3>2. CASE ~ (g = tx_completion /\ i = tx_block_index)
      <4>1. slots'[g][i] = slots[g][i]
        BY <1>0, <2>1, <3>2
      <4> QED  BY <2>1, <3>2, <4>1 DEF SlotOwnership
    <3> QED  BY <3>1, <3>2
  <2> QED  BY <2>1, <2>2 DEF SlotOwnership
<1>4. CASE Advance
  <2>1. UNCHANGED <<slots, inflight>> /\ ~ Holding /\ ~ Holding'
    BY <1>4 DEF Advance, Holding
  <2> QED  BY <2>1, OwnershipFrame
<1>5. CASE \/ CheckRequest \/ PpsTest \/ BlockWriter \/ PreparePacket \/ FullTest
           \/ LeaveWrite \/ NotifyLeft \/ WriterDeadline \/ WakeWriter
           \/ \E n \in Requests : WriteCall(n)
  <2>1. UNCHANGED <<slots, inflight, tx_completion, tx_block_index>>
    BY <1>5 DEF CheckRequest, PpsTest, BlockWriter, PreparePacket, FullTest,
                LeaveWrite, NotifyLeft, WriterDeadline, WakeWriter, WriteCall
  <2>2. Holding' <=> Holding
    BY <1>5 DEF CheckRequest, PpsTest, BlockWriter, PreparePacket, FullTest,
                LeaveWrite, NotifyLeft, WriterDeadline, WakeWriter, WriteCall, Holding,
                WokenByTxCv, WokenByChanged
  <2> QED  BY <2>1, <2>2, OwnershipFrame
<1> QED  BY <1>1, <1>2, <1>3, <1>4, <1>5 DEF WriterAction, WriterStep

LEMMA OwnershipByCompletion ==
  ASSUME TypeInv, SlotOwnership, NEW g \in Streams, NEW i \in Slots, Complete(g, i)
  PROVE  SlotOwnership'
<1>1. /\ tx_completion \in Streams /\ tx_block_index \in Slots
      /\ slots \in [Streams -> [Slots -> {0, 1}]]
  BY DEF TypeInv, TypeOK, StreamTypeOK, RingTypeOK
<1>2. /\ <<g, i>> \in inflight /\ inflight' = inflight \ {<<g, i>>}
      /\ slots' = [slots EXCEPT ![g][i] = 0]
      /\ UNCHANGED <<tx_completion, tx_block_index>>
  BY DEF Complete, SlotsAfter
<1>3. Holding' <=> Holding
  BY DEF Complete, Holding
<1>4. Holding => ~ (g = tx_completion /\ i = tx_block_index)
  BY <1>2 DEF SlotOwnership
<1>5. ASSUME NEW h \in Streams, NEW j \in Slots
      PROVE  slots'[h][j] = 1 <=> \/ <<h, j>> \in inflight'
                                  \/ Holding /\ h = tx_completion /\ j = tx_block_index
  <2>1. CASE h = g /\ j = i
    BY <1>1, <1>2, <1>4, <2>1
  <2>2. CASE ~ (h = g /\ j = i)
    <3>1. slots'[h][j] = slots[h][j]
      BY <1>1, <1>2, <2>2
    <3> QED  BY <1>2, <2>2, <3>1 DEF SlotOwnership
  <2> QED  BY <2>1, <2>2
<1> QED  BY <1>2, <1>3, <1>5 DEF SlotOwnership

LEMMA OwnershipByOthers ==
  ASSUME SlotOwnership, \/ PollerAction \/ HardwareAction \/ ControlAction
                        \/ NotifyCompleted
  PROVE  SlotOwnership'
<1>1. CASE SetupStream
  BY <1>1, OwnershipFrame DEF SetupStream, NoCallInProgress, Holding
<1>2. CASE ~ SetupStream
  <2>1. UNCHANGED <<slots, inflight, tx_completion, tx_block_index>>
    BY <1>2 DEF PollerAction, PollCall, PollerDeadline, PollerStep, LockStatus,
         CheckStart, ReadUnderruns, CompareUnderruns, PaceTest, LeavePoll,
         NotifyPollLeft, PollerFrame, PollerOnly,
         NotifyCompleted, HardwareAction, PpsEdge, PpsPublish, PpsNotify, Underrun,
         CounterReset, OthersFrame, ControlAction, ControlStep, StopStep,
         ActivateStream, StartNow, ResetBaseline, ArmPps, SpawnPps, CloseGate,
         OpenAdmission, StopCall, CloseAdmission, NotifyStop, Drain, JoinPps,
         StopHardware, FinishStop, ControlFrame
  <2>2. wpc' \in {wpc, WokenByTxCv(wpc), WokenByChanged(wpc)}
    BY <1>2 DEF PollerAction, PollCall, PollerDeadline, PollerStep, LockStatus,
         CheckStart, ReadUnderruns, CompareUnderruns, PaceTest, LeavePoll,
         NotifyPollLeft, PollerFrame, PollerOnly,
         NotifyCompleted, HardwareAction, PpsEdge, PpsPublish, PpsNotify, Underrun,
         CounterReset, OthersFrame, ControlAction, ControlStep, StopStep,
         ActivateStream, StartNow, ResetBaseline, ArmPps, SpawnPps, CloseGate,
         OpenAdmission, StopCall, CloseAdmission, NotifyStop, Drain, JoinPps,
         StopHardware, FinishStop, ControlFrame
  <2>3. Holding' <=> Holding
    BY <2>2 DEF Holding, WokenByTxCv, WokenByChanged
  <2> QED  BY <2>1, <2>3, OwnershipFrame
<1> QED  BY <1>1, <1>2

LEMMA OwnershipInvariant == Spec => [](TypeInv /\ SlotOwnership)
<1>1. Init => SlotOwnership
  <2> SUFFICES ASSUME Init PROVE SlotOwnership
    OBVIOUS
  <2>1. ~ Holding /\ inflight = {}
    BY DEF Init, Holding
  <2>2. \A g \in Streams, i \in Slots : slots[g][i] = 0
    BY DEF Init
  <2> QED  BY <2>1, <2>2 DEF SlotOwnership
<1>2. TypeInv /\ SlotOwnership /\ [Next]_vars => SlotOwnership'
  <2> SUFFICES ASSUME TypeInv, SlotOwnership, [Next]_vars PROVE SlotOwnership'
    OBVIOUS
  <2>1. CASE UNCHANGED vars
    BY <2>1, OwnershipFrame DEF vars, Holding
  <2> QED  BY <2>1, NextCases, OwnershipByWriter, OwnershipByCompletion,
              OwnershipByOthers DEF CompletionAction
<1> QED  BY <1>1, <1>2, TypeInvInit, TypeInvStep, PTL DEF Spec

\* A ring slot is marked exactly while the writer or the SDK owns its block, and
\* never both own it: for any ring size, any number of closed and reopened
\* streams, and callbacks however late, nobody writes a block the SDK reads.
THEOREM BlocksOwned == Spec => []SlotOwnership
<1> QED  BY OwnershipInvariant, PTL

----------------------------------------------------------------------------
(* The refinement of TxOwnership. *)

\* Writes and contexts belong to a stream that has been set up.
GenerationInv ==
  /\ active_tx_stream \/ wpc # "idle" => tx_completion # 0
  /\ \A g \in Streams, i \in Slots : <<g, i>> \in inflight => g # 0

OwnedInv == TypeInv /\ SlotOwnership /\ GenerationInv

\* What the ownership protocol sees of a step of anyone who handles no block.
LEMMA UnseenFrame ==
  ASSUME UNCHANGED <<slots, inflight, tx_completion, tx_block_index>>,
         wpc' = "accepted" <=> wpc = "accepted"
  PROVE  UNCHANGED Ownership!vars
<1>1. \A g \in 1 .. MaxStreams, i \in Slots : Owner(g, i)' = Owner(g, i)
  BY DEF Owner
<1> QED  BY <1>1 DEF Ownership!vars, NextSlot

LEMMA OthersUnseen ==
  ASSUME \/ PollerAction \/ HardwareAction \/ (ControlAction /\ ~ SetupStream)
         \/ NotifyCompleted
  PROVE  /\ UNCHANGED <<slots, inflight, tx_completion, tx_block_index>>
         /\ wpc' \in {wpc, WokenByTxCv(wpc), WokenByChanged(wpc)}
BY DEF PollerAction, PollCall, PollerDeadline, PollerStep, LockStatus,
       CheckStart, ReadUnderruns, CompareUnderruns, PaceTest, LeavePoll,
       NotifyPollLeft, PollerFrame, PollerOnly,
       NotifyCompleted, HardwareAction, PpsEdge, PpsPublish, PpsNotify, Underrun,
       CounterReset, OthersFrame, ControlAction, ControlStep, StopStep,
       ActivateStream, StartNow, ResetBaseline, ArmPps, SpawnPps, CloseGate,
       OpenAdmission, StopCall, CloseAdmission, NotifyStop, Drain, JoinPps,
       StopHardware, FinishStop, ControlFrame

LEMMA GenerationStep ==
  ASSUME OwnedInv, [Next]_vars
  PROVE  GenerationInv'
<1>1. tx_completion \in Nat
  BY DEF OwnedInv, TypeInv, TypeOK, StreamTypeOK
<1> USE DEF OwnedInv, GenerationInv
<1>2. CASE WriterAction
  <2>1. UNCHANGED <<active_tx_stream, tx_completion>>
    BY <1>2 DEF WriterAction, WriterStep, CheckRequest, PpsTest, SlotTest,
           BlockWriter, PreparePacket, Transmit, ReleaseReservation, FullTest, Advance,
           LeaveWrite, NotifyLeft, WriterDeadline, WakeWriter, WriteCall, WriterFrame, WriterOnly
  <2>2. wpc # "idle" \/ active_tx_stream
    BY <1>2 DEF WriterAction, WriterStep, CheckRequest, PpsTest, SlotTest,
           BlockWriter, PreparePacket, Transmit, ReleaseReservation, FullTest, Advance,
           LeaveWrite, NotifyLeft, WriterDeadline, WakeWriter, WriteCall, Callable, WriterAt
  <2>3. inflight' \subseteq inflight \cup {<<tx_completion, tx_block_index>>}
    BY <1>2 DEF WriterAction, WriterStep, CheckRequest, PpsTest, SlotTest,
           BlockWriter, PreparePacket, Transmit, ReleaseReservation, FullTest, Advance,
           LeaveWrite, NotifyLeft, WriterDeadline, WakeWriter, WriteCall, WriterFrame, WriterOnly
  <2> QED  BY <2>1, <2>2, <2>3
<1>3. ASSUME NEW g \in Streams, NEW i \in Slots, Complete(g, i) PROVE GenerationInv'
  BY <1>3 DEF Complete
<1>4. CASE SetupStream
  BY <1>1, <1>4 DEF SetupStream
<1>5. CASE \/ PollerAction \/ HardwareAction \/ (ControlAction /\ ~ SetupStream)
           \/ NotifyCompleted
  <2>1. active_tx_stream' => active_tx_stream
    BY <1>5 DEF PollerAction, PollCall, PollerDeadline, PollerStep, LockStatus,
       CheckStart, ReadUnderruns, CompareUnderruns, PaceTest, LeavePoll,
       NotifyPollLeft, PollerFrame, PollerOnly,
       NotifyCompleted, HardwareAction, PpsEdge, PpsPublish, PpsNotify, Underrun,
       CounterReset, OthersFrame, ControlAction, ControlStep, StopStep,
       ActivateStream, StartNow, ResetBaseline, ArmPps, SpawnPps, CloseGate,
       OpenAdmission, StopCall, CloseAdmission, NotifyStop, Drain, JoinPps,
       StopHardware, FinishStop, ControlFrame
  <2>2. wpc' # "idle" => wpc # "idle"
    BY <1>5, OthersUnseen DEF WokenByTxCv, WokenByChanged
  <2> QED  BY <1>5, <2>1, <2>2, OthersUnseen
<1>6. CASE UNCHANGED vars
  BY <1>6 DEF vars
<1> QED  BY <1>2, <1>3, <1>4, <1>5, <1>6, NextCases DEF CompletionAction, ControlAction

LEMMA OwnedInvariant == Spec => []OwnedInv
<1>1. Init => GenerationInv
  BY DEF Init, GenerationInv
<1>2. OwnedInv /\ [Next]_vars => GenerationInv'
  BY GenerationStep
<1> QED  BY <1>1, <1>2, OwnershipInvariant, PTL DEF Spec, OwnedInv

\* Changing the owner of one block.
LEMMA GiveMaps ==
  ASSUME NEW g \in 1 .. MaxStreams, NEW i \in Slots, NEW o,
         \A h \in 1 .. MaxStreams, j \in Slots :
           Owner(h, j)' = IF h = g /\ j = i THEN o ELSE Owner(h, j)
  PROVE  Ownership!Give(g, i, o)
<1> DEFINE own  == [h \in 1 .. MaxStreams |-> [j \in Slots |-> Owner(h, j)]]
           new  == [own EXCEPT ![g][i] = o]
<1>1. own' = [h \in 1 .. MaxStreams |-> [j \in Slots |-> Owner(h, j)']]
  OBVIOUS
<1>2. new = [h \in 1 .. MaxStreams |->
               [j \in Slots |-> IF h = g /\ j = i THEN o ELSE Owner(h, j)]]
  OBVIOUS
<1>3. own' = new
  BY <1>1, <1>2
<1> QED  BY <1>3 DEF Ownership!Give

\* The writer's block, as the protocol sees it.
LEMMA WriterSeen ==
  ASSUME OwnedInv
  PROVE  /\ \A g \in 1 .. MaxStreams, i \in Slots :
              Owner(g, i) = "writer" <=>
                Holding /\ g = tx_completion /\ i = tx_block_index
         /\ Holding => tx_completion \in 1 .. MaxStreams /\ tx_block_index \in Slots
<1>1. slots \in [Streams -> [Slots -> {0, 1}]] /\ tx_completion \in Streams
      /\ tx_block_index \in Slots
  BY DEF OwnedInv, TypeInv, TypeOK, StreamTypeOK, RingTypeOK
<1>2. Holding => tx_completion # 0
  BY DEF OwnedInv, GenerationInv, Holding
<1>3. ASSUME NEW g \in 1 .. MaxStreams, NEW i \in Slots
      PROVE  Owner(g, i) = "writer" <=> Holding /\ g = tx_completion /\ i = tx_block_index
  <2>1. g \in Streams /\ slots[g][i] \in {0, 1}
    BY <1>1
  <2>2. Owner(g, i) = "writer" <=> <<g, i>> \notin inflight /\ slots[g][i] = 1
    BY DEF Owner
  <2>3. slots[g][i] = 1 <=> \/ <<g, i>> \in inflight
                            \/ Holding /\ g = tx_completion /\ i = tx_block_index
    BY <2>1 DEF OwnedInv, SlotOwnership
  <2>4. Holding => <<tx_completion, tx_block_index>> \notin inflight
    BY DEF OwnedInv, SlotOwnership
  <2> QED  BY <2>2, <2>3, <2>4
<1> QED  BY <1>1, <1>2, <1>3

LEMMA WriterMaps ==
  ASSUME OwnedInv, WriterAction
  PROVE  [Ownership!Next]_Ownership!vars
<1>1. /\ slots \in [Streams -> [Slots -> {0, 1}]] /\ tx_completion \in Streams
      /\ tx_block_index \in Slots
  BY DEF OwnedInv, TypeInv, TypeOK, StreamTypeOK, RingTypeOK
<1>2. wpc # "idle" => tx_completion \in 1 .. MaxStreams
  BY <1>1 DEF OwnedInv, GenerationInv
<1> DEFINE here(h, j) == h = tx_completion /\ j = tx_block_index
<1> USE DEF WriterFrame, WriterOnly, WriterAt, Return, Resume
<1>3. CASE SlotTest
  <2>1. CASE slots' = [slots EXCEPT ![tx_completion][tx_block_index] = 1] /\ SlotFree
    <3>1. /\ UNCHANGED <<inflight, tx_completion, tx_block_index>>
          /\ wpc # "idle" /\ wpc # "accepted" /\ wpc' # "accepted" /\ ~ Holding
      BY <1>3, <2>1 DEF SlotTest, Holding
    <3>2. <<tx_completion, tx_block_index>> \notin inflight
      BY <1>1, <2>1, <3>1 DEF OwnedInv, SlotOwnership, SlotFree
    <3>3. Owner(tx_completion, tx_block_index) = "driver"
      BY <2>1, <3>2 DEF Owner, SlotFree
    <3>4. \A h \in 1 .. MaxStreams, j \in Slots :
            Owner(h, j)' = IF here(h, j) THEN "writer" ELSE Owner(h, j)
      <4> SUFFICES ASSUME NEW h \in 1 .. MaxStreams, NEW j \in Slots
                   PROVE  Owner(h, j)' = IF here(h, j) THEN "writer" ELSE Owner(h, j)
        OBVIOUS
      <4>1. slots'[h][j] = IF here(h, j) THEN 1 ELSE slots[h][j]
        BY <1>1, <2>1
      <4> QED  BY <3>1, <3>2, <4>1 DEF Owner
    <3>5. Ownership!Give(tx_completion, tx_block_index, "writer")
      BY <1>1, <1>2, <3>1, <3>4, GiveMaps
    <3>6. Ownership!NoWriter
      BY <3>1, WriterSeen DEF Ownership!NoWriter, Ownership!WriterHolds,
         Ownership!Streams, Ownership!Slots
    <3>7. Ownership!Reserve
      BY <1>1, <1>2, <3>1, <3>3, <3>5, <3>6 DEF Ownership!Reserve, Ownership!Streams
    <3> QED  BY <3>7 DEF Ownership!Next
  <2>2. CASE UNCHANGED slots
    <3>1. /\ UNCHANGED <<inflight, tx_completion, tx_block_index>>
          /\ wpc' # "accepted" /\ wpc # "accepted"
      BY <1>3 DEF SlotTest
    <3> QED  BY <2>2, <3>1, UnseenFrame
  <2> QED  BY <1>3, <2>1, <2>2 DEF SlotTest
<1>4. CASE Transmit
  <2>1. /\ UNCHANGED <<slots, tx_completion, tx_block_index>> /\ Holding
        /\ wpc # "idle" /\ wpc # "accepted"
    BY <1>4 DEF Transmit, Holding
  <2>2. CASE /\ inflight' = inflight \cup {<<tx_completion, tx_block_index>>}
             /\ wpc' = "accepted"
    <3>1. Owner(tx_completion, tx_block_index) = "writer"
      BY <1>1, <1>2, <2>1, WriterSeen
    <3>2. \A h \in 1 .. MaxStreams, j \in Slots :
            Owner(h, j)' = IF here(h, j) THEN "sdk" ELSE Owner(h, j)
      BY <2>1, <2>2 DEF Owner
    <3>3. Ownership!Give(tx_completion, tx_block_index, "sdk")
      BY <1>1, <1>2, <2>1, <3>2, GiveMaps
    <3>4. Ownership!Submit
      BY <1>1, <1>2, <2>1, <2>2, <3>1, <3>3
         DEF Ownership!Submit, Ownership!Streams, Ownership!WriterHolds, NextSlot
    <3> QED  BY <3>4 DEF Ownership!Next
  <2>3. CASE UNCHANGED inflight /\ wpc' = "release"
    BY <2>1, <2>3, UnseenFrame
  <2> QED  BY <1>4, <2>2, <2>3 DEF Transmit
<1>5. CASE ReleaseReservation
  <2>1. /\ slots' = [slots EXCEPT ![tx_completion][tx_block_index] = 0]
        /\ UNCHANGED <<inflight, tx_completion, tx_block_index>> /\ Holding
        /\ wpc # "idle" /\ wpc # "accepted" /\ wpc' # "accepted"
    BY <1>5 DEF ReleaseReservation, Holding
  <2>2. <<tx_completion, tx_block_index>> \notin inflight
    BY <2>1 DEF OwnedInv, SlotOwnership
  <2>3. Owner(tx_completion, tx_block_index) = "writer"
    BY <1>1, <1>2, <2>1, WriterSeen
  <2>4. \A h \in 1 .. MaxStreams, j \in Slots :
          Owner(h, j)' = IF here(h, j) THEN "driver" ELSE Owner(h, j)
    <3>1. \A h \in 1 .. MaxStreams, j \in Slots :
            slots'[h][j] = IF here(h, j) THEN 0 ELSE slots[h][j]
      BY <1>1, <1>2, <2>1
    <3> QED  BY <2>1, <2>2, <3>1 DEF Owner
  <2>5. Ownership!Give(tx_completion, tx_block_index, "driver")
    BY <1>1, <1>2, <2>1, <2>4, GiveMaps
  <2>6. Ownership!Withdraw
    BY <1>1, <1>2, <2>1, <2>3, <2>5
       DEF Ownership!Withdraw, Ownership!Streams, Ownership!WriterHolds
  <2> QED  BY <2>6 DEF Ownership!Next
<1>6. CASE Advance
  <2>1. /\ UNCHANGED <<slots, inflight, tx_completion>>
        /\ wpc = "accepted" /\ wpc' # "accepted"
        /\ tx_block_index' = NextSlot(tx_block_index)
    BY <1>6 DEF Advance
  <2>2. \A g \in 1 .. MaxStreams, i \in Slots : Owner(g, i)' = Owner(g, i)
    BY <2>1 DEF Owner
  <2>3. UNCHANGED Ownership!vars
    BY <2>1, <2>2 DEF Ownership!vars
  <2> QED  BY <2>3
<1>7. CASE \/ CheckRequest \/ PpsTest \/ BlockWriter \/ PreparePacket \/ FullTest
           \/ LeaveWrite \/ NotifyLeft \/ WriterDeadline \/ WakeWriter
           \/ \E n \in Requests : WriteCall(n)
  <2>1. UNCHANGED <<slots, inflight, tx_completion, tx_block_index>>
    BY <1>7 DEF CheckRequest, PpsTest, BlockWriter, PreparePacket, FullTest,
                LeaveWrite, NotifyLeft, WriterDeadline, WakeWriter, WriteCall
  <2>2. wpc' = "accepted" <=> wpc = "accepted"
    BY <1>7 DEF CheckRequest, PpsTest, BlockWriter, PreparePacket, FullTest,
                LeaveWrite, NotifyLeft, WriterDeadline, WakeWriter, WriteCall,
                WokenByTxCv, WokenByChanged
  <2> QED  BY <2>1, <2>2, UnseenFrame
<1> QED  BY <1>3, <1>4, <1>5, <1>6, <1>7 DEF WriterAction, WriterStep

LEMMA CompletionMaps ==
  ASSUME OwnedInv, NEW g \in Streams, NEW i \in Slots, Complete(g, i)
  PROVE  [Ownership!Next]_Ownership!vars
<1>1. /\ <<g, i>> \in inflight /\ inflight' = inflight \ {<<g, i>>}
      /\ slots' = [slots EXCEPT ![g][i] = 0]
      /\ UNCHANGED <<tx_completion, tx_block_index, wpc>>
  BY DEF Complete, SlotsAfter
<1>2. g \in 1 .. MaxStreams /\ slots \in [Streams -> [Slots -> {0, 1}]]
  BY <1>1 DEF OwnedInv, GenerationInv, TypeInv, TypeOK, RingTypeOK
<1>3. Owner(g, i) = "sdk"
  BY <1>1 DEF Owner
<1>4. \A h \in 1 .. MaxStreams, j \in Slots :
        Owner(h, j)' = IF h = g /\ j = i THEN "driver" ELSE Owner(h, j)
  BY <1>1, <1>2 DEF Owner
<1>5. Ownership!Give(g, i, "driver")
  BY <1>2, <1>4, GiveMaps
<1>6. Ownership!Complete(g, i)
  BY <1>1, <1>2, <1>3, <1>5 DEF Ownership!Complete
<1> QED  BY <1>2, <1>6 DEF Ownership!Next, Ownership!Streams, Ownership!Slots

LEMMA SetupMaps ==
  ASSUME OwnedInv, SetupStream
  PROVE  Ownership!NewStream
<1>1. /\ tx_completion < MaxStreams /\ tx_completion' = tx_completion + 1
      /\ tx_block_index' = 0 /\ UNCHANGED <<slots, inflight, wpc>> /\ wpc = "idle"
  BY DEF SetupStream, NoCallInProgress
<1>2. \A g \in 1 .. MaxStreams, i \in Slots : Owner(g, i)' = Owner(g, i)
  BY <1>1 DEF Owner
<1>3. Ownership!NoWriter
  BY <1>1, WriterSeen DEF Ownership!NoWriter, Ownership!WriterHolds, Holding,
     Ownership!Streams, Ownership!Slots
<1> QED  BY <1>1, <1>2, <1>3 DEF Ownership!NewStream

\* Every step of every thread is a step of the ownership protocol or none: a block
\* passes from the driver to the writer, from the writer to the SDK or back, and
\* from the SDK to the driver, in ring order and within its own stream generation
\* (TxStreaming.cpp:47-61, 278-304, 328-336, 390-393).
THEOREM KeepsOwnershipProtocol == Spec => ImplementsOwnership
<1>1. Init => Ownership!Init
  BY DEF Init, Ownership!Init, Ownership!Streams, Ownership!Slots, Owner
<1>2. OwnedInv /\ [Next]_vars => [Ownership!Next]_Ownership!vars
  <2> SUFFICES ASSUME OwnedInv, [Next]_vars PROVE [Ownership!Next]_Ownership!vars
    OBVIOUS
  <2>1. CASE WriterAction
    BY <2>1, WriterMaps
  <2>2. ASSUME NEW g \in Streams, NEW i \in Slots, Complete(g, i)
        PROVE  [Ownership!Next]_Ownership!vars
    BY <2>2, CompletionMaps
  <2>3. CASE SetupStream
    BY <2>3, SetupMaps DEF Ownership!Next
  <2>4. CASE \/ PollerAction \/ HardwareAction \/ (ControlAction /\ ~ SetupStream)
             \/ NotifyCompleted
    BY <2>4, OthersUnseen, UnseenFrame DEF WokenByTxCv, WokenByChanged
  <2>5. CASE UNCHANGED vars
    BY <2>5, UnseenFrame DEF vars
  <2> QED
    BY <2>1, <2>2, <2>3, <2>4, <2>5, NextCases DEF CompletionAction
<1> QED
  BY <1>1, <1>2, OwnedInvariant, PTL DEF Spec, ImplementsOwnership, Ownership!Spec

----------------------------------------------------------------------------
(* Hardware. *)

Starting == cpc \in {"start", "baseline", "arm", "spawn", "gate", "open"}

\* Whoever has hardware or a PPS worker is known as active, or about to be.
HardwareInv ==
  /\ hw \/ pps # "none" => tx_stream_active \/ cpc = "gate"
  /\ cpc \in {"start", "arm", "spawn"} => ~ tx_stream_active /\ active_tx_stream
  /\ cpc = "gate" => active_tx_stream
  /\ Starting => cop = "activate"
  /\ cpc = "stop" \/ Stopping => cop \in {"deactivate", "close", "destroy"}
  /\ cop = "close" => ~ tx_stream_active
  /\ ~ active_tx_stream => ~ hw /\ pps = "none"

\* Steps of threads that only use the stream.
Bystander == WriterAction \/ PollerAction \/ CompletionAction

LEMMA BystandersKeepHardware ==
  ASSUME Bystander
  PROVE  /\ UNCHANGED <<streamVars, cop, tx_start_finished, tx_start_status, pps>>
         /\ cpc' \in {cpc, WokenByChanged(cpc)}
         /\ tx_writes_stopping' = tx_writes_stopping
BY DEF Bystander, WriterAction, WriterStep, CheckRequest, PpsTest, SlotTest,
       BlockWriter, PreparePacket, Transmit, ReleaseReservation, FullTest, Advance,
       LeaveWrite, NotifyLeft, WriterDeadline, WakeWriter, WriteCall, WriterFrame, WriterOnly,
       PollerAction, PollCall, PollerDeadline, PollerStep, LockStatus,
       CheckStart, ReadUnderruns, CompareUnderruns, PaceTest, LeavePoll,
       NotifyPollLeft, PollerFrame, PollerOnly, CompletionAction, Complete, NotifyCompleted

LEMMA HardwareStep ==
  ASSUME DrainInv, HardwareInv, [Next]_vars
  PROVE  HardwareInv'
<1> USE DEF HardwareInv, Starting, Stopping
<1>1. CASE Bystander
  BY <1>1, BystandersKeepHardware DEF WokenByChanged
<1>2. CASE HardwareAction
  BY <1>2 DEF HardwareAction, PpsEdge, PpsPublish, PpsNotify, Underrun, CounterReset,
              OthersFrame, HardwareStarts
<1>3. CASE ControlAction
  <2> USE DEF ControlFrame
  <2>1. CASE SetupStream
    BY <2>1 DEF SetupStream, ControlIdle
  <2>2. CASE ActivateStream
    BY <2>2 DEF ActivateStream, ControlIdle
  <2>3. CASE StartNow
    BY <2>3 DEF StartNow, HardwareStarts
  <2>4. CASE ResetBaseline \/ ArmPps \/ CloseGate \/ OpenAdmission
    BY <2>4 DEF ResetBaseline, ArmPps, CloseGate, OpenAdmission
  <2>5. CASE SpawnPps
    BY <2>5 DEF SpawnPps
  <2>6. CASE \E op \in {"deactivate", "close", "destroy"} : StopCall(op)
    BY <2>6 DEF StopCall, MayStop, ControlIdle
  <2>7. CASE CloseAdmission \/ NotifyStop \/ Drain
    BY <2>7 DEF CloseAdmission, NotifyStop, Drain
  <2>8. CASE JoinPps
    BY <2>8 DEF JoinPps
  <2>9. CASE StopHardware
    <3>1. pps = "none"
      BY <2>9 DEF StopHardware, DrainInv, Drained
    <3>2. \/ hw' = FALSE /\ tx_stream_active' = FALSE
          \/ UNCHANGED <<hw, tx_stream_active>>
      BY <2>9 DEF StopHardware, KeepFailedStop
    <3> QED  BY <2>9, <3>1, <3>2 DEF StopHardware
  <2>10. CASE FinishStop
    <3>1. /\ pps = "none" /\ cpc = "finish" /\ cpc' = "idle" /\ cop' = "none"
          /\ UNCHANGED <<pps, tx_stream_active>>
          /\ hw' = (hw /\ cop # "destroy")
          /\ active_tx_stream' = (cop = "deactivate" /\ active_tx_stream)
      BY <2>10 DEF FinishStop, DrainInv, Drained
    <3>2. active_tx_stream \in BOOLEAN /\ hw \in BOOLEAN
      BY DEF DrainInv, TypeInv, TypeOK, StreamTypeOK
    <3>4. cop \in {"deactivate", "close", "destroy"}
      BY <3>1 DEF Stopping
    <3> QED  BY <3>1, <3>2, <3>4
  <2> QED
    BY <1>3, <2>1, <2>2, <2>3, <2>4, <2>5, <2>6, <2>7, <2>8, <2>9, <2>10
       DEF ControlAction, ControlStep, StopStep
<1>4. CASE UNCHANGED vars
  BY <1>4 DEF vars
<1> QED  BY <1>1, <1>2, <1>3, <1>4, NextCases DEF Bystander

LEMMA HardwareInvariant == Spec => [](DrainInv /\ HardwareInv)
<1>1. Init => HardwareInv
  BY DEF Init, HardwareInv, Starting, Stopping
<1> QED  BY <1>1, DrainInvariant, HardwareStep, PTL DEF Spec

\* TX hardware and the PPS worker always have a stream that can stop and join them,
\* and are started only from rest, whatever starts and stops have failed
\* (TxStreaming.cpp:80-119, Streaming.cpp:265-280, 428-431, 512-558).
THEOREM TxHardwareKeepsOwner == Spec => []HardwareOwned
<1>1. HardwareInv => HardwareOwned
  BY DEF HardwareInv, HardwareOwned
<1> QED  BY <1>1, HardwareInvariant, PTL

\* A call past the PPS gate.
PastStart == wpc \in {"slotTest", "slotBlocking", "slotAsleep", "prepare", "submit",
                      "release", "fullEnter", "fullTest", "fullBlocking", "fullAsleep",
                      "accepted"}

StartOk == tx_start_finished /\ tx_start_status = 0

\* Hardware runs, or the gate that keeps writes from it is shut.
GateTells == tx_stream_active /\ (~ first_transmit \/ StartOk => hw)

SubmitInv ==
  /\ Starting => tx_writes_stopping /\ ~ WriterAdmitted
  /\ WriterAdmitted \/ ~ tx_writes_stopping \/ cpc = "open" => GateTells
  /\ cpc = "baseline" => hw /\ tx_stream_active
  /\ cpc = "gate" /\ StartOk => hw
  /\ cpc = "spawn" => ~ tx_start_finished
  /\ pps = "started" => hw
  /\ PastStart => ~ first_transmit

LEMMA SubmitByWriter ==
  ASSUME SubmitInv, WriterAction
  PROVE  SubmitInv'
<1> USE DEF SubmitInv, GateTells, StartOk, Starting, PastStart, WriterAdmitted, WriterFrame,
            WriterOnly, WriterAt, Return, Resume
<1>1. CASE \E n \in Requests : WriteCall(n)
  BY <1>1 DEF WriteCall
<1>2. CASE CheckRequest
  BY <1>2 DEF CheckRequest
<1>3. CASE PpsTest
  BY <1>3 DEF PpsTest, StartSucceeded
<1>4. CASE NotifyLeft
  BY <1>4 DEF NotifyLeft, WokenByChanged
<1>5. CASE \/ SlotTest \/ BlockWriter \/ PreparePacket \/ Transmit \/ ReleaseReservation
           \/ FullTest \/ Advance \/ LeaveWrite \/ WriterDeadline \/ WakeWriter
  <2>1. UNCHANGED <<streamVars, cpc, tx_writes_stopping, startVars>>
    BY <1>5 DEF SlotTest, BlockWriter, PreparePacket, Transmit, ReleaseReservation,
         FullTest, Advance, LeaveWrite, WriterDeadline, WakeWriter
  <2>2. (PastStart' => PastStart) /\ (WriterAdmitted' => WriterAdmitted)
    BY <1>5 DEF SlotTest, BlockWriter, PreparePacket, Transmit, ReleaseReservation,
         FullTest, Advance, LeaveWrite, WriterDeadline, WakeWriter, WokenByTxCv, WokenByChanged
  <2> QED  BY <2>1, <2>2
<1> QED  BY <1>1, <1>2, <1>3, <1>4, <1>5 DEF WriterAction, WriterStep

LEMMA SubmitByBystander ==
  ASSUME SubmitInv, PollerAction \/ CompletionAction
  PROVE  SubmitInv'
<1>1. UNCHANGED <<streamVars, tx_writes_stopping, startVars>>
  BY DEF PollerAction, PollCall, PollerDeadline, PollerStep, LockStatus,
       CheckStart, ReadUnderruns, CompareUnderruns, PaceTest, LeavePoll,
       NotifyPollLeft, PollerFrame, PollerOnly, CompletionAction, Complete, NotifyCompleted
<1>2. wpc' \in {wpc, WokenByChanged(wpc)} /\ cpc' \in {cpc, WokenByChanged(cpc)}
  BY DEF PollerAction, PollCall, PollerDeadline, PollerStep, LockStatus,
       CheckStart, ReadUnderruns, CompareUnderruns, PaceTest, LeavePoll,
       NotifyPollLeft, PollerFrame, PollerOnly, CompletionAction, Complete, NotifyCompleted
<1>3. (PastStart' => PastStart) /\ (WriterAdmitted' => WriterAdmitted)
  BY <1>2 DEF PastStart, WriterAdmitted, WokenByChanged
<1> QED
  BY <1>1, <1>2, <1>3 DEF SubmitInv, GateTells, StartOk, Starting, WokenByChanged

LEMMA SubmitByHardware ==
  ASSUME HardwareInv, SubmitInv, HardwareAction
  PROVE  SubmitInv'
<1> USE DEF SubmitInv, GateTells, StartOk, Starting, OthersFrame
<1>1. CASE PpsEdge
  BY <1>1 DEF PpsEdge, HardwareStarts, WriterAdmitted, PastStart
<1>2. CASE PpsPublish
  BY <1>2 DEF PpsPublish, HardwareInv, WriterAdmitted, PastStart
<1>3. CASE PpsNotify \/ Underrun \/ CounterReset
  <2>1. UNCHANGED <<streamVars, tx_writes_stopping, cpc, first_transmit,
                    tx_start_finished, tx_start_status>> /\ wpc' \in {wpc, WokenByTxCv(wpc)}
    BY <1>3 DEF PpsNotify, Underrun, CounterReset
  <2>2. pps' = "started" => pps = "started"
    BY <1>3 DEF PpsNotify, Underrun, CounterReset
  <2>3. (PastStart' => PastStart) /\ (WriterAdmitted' => WriterAdmitted)
    BY <2>1 DEF PastStart, WriterAdmitted, WokenByTxCv
  <2> QED  BY <2>1, <2>2, <2>3
<1> QED  BY <1>1, <1>2, <1>3 DEF HardwareAction

LEMMA SubmitByControl ==
  ASSUME DrainInv, HardwareInv, SubmitInv, ControlAction
  PROVE  SubmitInv'
<1>0. /\ WriterAdmitted' <=> WriterAdmitted
      /\ PastStart' <=> PastStart
  <2>1. wpc' \in {wpc, WokenByTxCv(wpc), WokenByChanged(wpc)}
    BY DEF ControlAction, ControlStep, StopStep, SetupStream, ActivateStream, StartNow,
           ResetBaseline, ArmPps, SpawnPps, CloseGate, OpenAdmission, StopCall,
           CloseAdmission, NotifyStop, Drain, JoinPps, StopHardware, FinishStop
  <2> QED  BY <2>1 DEF PastStart, WriterAdmitted, WokenByTxCv, WokenByChanged
<1>1. PastStart => WriterAdmitted
  BY DEF PastStart, WriterAdmitted
<1> USE <1>0, <1>1 DEF SubmitInv, GateTells, StartOk, Starting, ControlFrame
<1>2. CASE SetupStream
  BY <1>2 DEF SetupStream
<1>3. CASE ActivateStream
  BY <1>3 DEF ActivateStream, ControlIdle
<1>4. CASE StartNow
  BY <1>4 DEF StartNow, HardwareStarts
<1>5. CASE ResetBaseline \/ ArmPps \/ CloseGate \/ OpenAdmission
  BY <1>5 DEF ResetBaseline, ArmPps, CloseGate, OpenAdmission
<1>6. CASE SpawnPps
  BY <1>6 DEF SpawnPps
<1>7. CASE \E op \in {"deactivate", "close", "destroy"} : StopCall(op)
  BY <1>7 DEF StopCall, ControlIdle
<1>8. CASE CloseAdmission \/ NotifyStop \/ Drain
  BY <1>8 DEF CloseAdmission, NotifyStop, Drain
<1>9. CASE JoinPps \/ StopHardware \/ FinishStop
  <2>1. ~ WriterAdmitted /\ tx_writes_stopping
    BY <1>9 DEF JoinPps, StopHardware, FinishStop, DrainInv, Drained, GateShut, Stopping
  <2>2. /\ UNCHANGED <<tx_writes_stopping, first_transmit>>
        /\ cpc' \in {"sdkStop", "finish", "idle"}
        /\ pps' # "started"
    BY <1>9 DEF JoinPps, StopHardware, FinishStop, DrainInv, Drained
  <2> QED  BY <2>1, <2>2
<1> QED
  BY <1>2, <1>3, <1>4, <1>5, <1>6, <1>7, <1>8, <1>9 DEF ControlAction, ControlStep, StopStep

LEMMA SubmitInvariant == Spec => []SubmitInv
<1>1. Init => SubmitInv
  BY DEF Init, SubmitInv, GateTells, Starting, PastStart, WriterAdmitted
<1>2. DrainInv /\ HardwareInv /\ SubmitInv /\ [Next]_vars => SubmitInv'
  <2> SUFFICES ASSUME DrainInv, HardwareInv, SubmitInv, [Next]_vars PROVE SubmitInv'
    OBVIOUS
  <2>1. CASE UNCHANGED vars
    BY <2>1 DEF vars, SubmitInv, GateTells, StartOk, Starting, PastStart, WriterAdmitted
  <2> QED
    BY <2>1, NextCases, SubmitByWriter, SubmitByBystander, SubmitByHardware, SubmitByControl
<1> QED  BY <1>1, <1>2, HardwareInvariant, PTL DEF Spec

\* A block is prepared and submitted only while the hardware runs: never before a
\* PPS start has succeeded, after one has failed, or beside or after a stop
\* (TxStreaming.cpp:67-78, 121-139, 235-256, 328, Streaming.cpp:512-558).
THEOREM SubmitsOnlyWhileRunning == Spec => []SubmitsToRunningHardware
<1>1. SubmitInv => SubmitsToRunningHardware
  BY DEF SubmitInv, GateTells, SubmitsToRunningHardware, PastStart, WriterAdmitted
<1> QED  BY <1>1, SubmitInvariant, PTL

----------------------------------------------------------------------------
(* What a write returns. *)

PrefixInv ==
  /\ InRequest \/ wpc = "check" =>
       Len(accepted) = IF wpc = "accepted" THEN curr_block + 1 ELSE curr_block
  /\ wpc \in {"ppsTest", "ppsBlocking", "ppsAsleep"} => curr_block = 0
  /\ \A k \in 1 .. Len(accepted) : accepted[k] = k - 1
  /\ AcceptedPrefix

LEMMA PrefixByWriter ==
  ASSUME TypeInv, PrefixInv, WriterAction
  PROVE  PrefixInv'
<1>1. curr_block \in Nat /\ accepted \in Seq(Nat) /\ RequestInProgress
  BY DEF TypeInv, TypeOK, WriterTypeOK
<1> USE <1>1 DEF PrefixInv, AcceptedPrefix, InRequest, RequestInProgress, WriterFrame,
                 WriterOnly, WriterAt, Return, Resume, PrefixOr
<1>2. CASE \E n \in Requests : WriteCall(n)
  BY <1>2 DEF WriteCall
<1>3. CASE CheckRequest
  BY <1>3 DEF CheckRequest
<1>4. CASE PpsTest
  BY <1>4 DEF PpsTest
<1>5. CASE SlotTest
  BY <1>5 DEF SlotTest
<1>6. CASE Transmit
  <2>1. CASE accepted' = Append(accepted, curr_block) /\ wpc' = "accepted"
    <3>1. Len(accepted) = curr_block /\ UNCHANGED curr_block
      BY <1>6 DEF Transmit
    <3>2. /\ Len(accepted') = curr_block + 1 /\ accepted'[curr_block + 1] = curr_block
          /\ \A k \in 1 .. curr_block : accepted'[k] = accepted[k]
      BY <2>1, <3>1
    <3>3. \A k \in 1 .. Len(accepted') : accepted'[k] = k - 1
      BY <3>1, <3>2
    <3> QED  BY <2>1, <3>1, <3>2, <3>3
  <2>2. CASE UNCHANGED accepted /\ wpc' = "release"
    BY <1>6, <2>2 DEF Transmit
  <2> QED  BY <1>6, <2>1, <2>2 DEF Transmit
<1>7. CASE ReleaseReservation
  BY <1>7 DEF ReleaseReservation
<1>8. CASE FullTest
  BY <1>8 DEF FullTest
<1>9. CASE Advance
  BY <1>9 DEF Advance
<1>10. CASE LeaveWrite
  BY <1>10 DEF LeaveWrite
<1>11. CASE BlockWriter \/ PreparePacket \/ NotifyLeft \/ WriterDeadline \/ WakeWriter
  BY <1>11 DEF BlockWriter, PreparePacket, NotifyLeft, WriterDeadline, WakeWriter,
     WokenByTxCv, WokenByChanged
<1> QED
  BY <1>2, <1>3, <1>4, <1>5, <1>6, <1>7, <1>8, <1>9, <1>10, <1>11 DEF WriterAction, WriterStep

LEMMA PrefixStep ==
  ASSUME TypeInv, PrefixInv, [Next]_vars
  PROVE  PrefixInv'
<1>1. CASE WriterAction
  BY <1>1, PrefixByWriter
<1>2. CASE PollerAction \/ CompletionAction \/ HardwareAction \/ ControlAction \/ UNCHANGED vars
  <2>1. /\ UNCHANGED <<wn, curr_block, accepted, wret>>
        /\ wpc' \in {wpc, WokenByTxCv(wpc), WokenByChanged(wpc)}
    BY <1>2 DEF vars, PollerAction, PollCall, PollerDeadline, PollerStep, LockStatus,
       CheckStart, ReadUnderruns, CompareUnderruns, PaceTest, LeavePoll,
       NotifyPollLeft, PollerFrame, PollerOnly, CompletionAction, Complete, NotifyCompleted,
       HardwareAction, PpsEdge, PpsPublish, PpsNotify, Underrun,
       CounterReset, OthersFrame, ControlAction, ControlStep, StopStep, SetupStream,
       ActivateStream, StartNow, ResetBaseline, ArmPps, SpawnPps, CloseGate,
       OpenAdmission, StopCall, CloseAdmission, NotifyStop, Drain, JoinPps,
       StopHardware, FinishStop, ControlFrame
  <2> QED
    BY <2>1 DEF PrefixInv, AcceptedPrefix, InRequest, WokenByTxCv, WokenByChanged
<1> QED  BY <1>1, <1>2, NextCases

\* A write answers for what the SDK accepted: the first blocks of the request, in
\* order and once, and an error or a timeout only if there are none, wherever a
\* deadline, stop, exception or SDK error ends it (TxStreaming.cpp:264-400).
THEOREM WritesAnswerForAccepted == Spec => []AcceptedPrefix
<1>1. Init => PrefixInv
  BY DEF Init, PrefixInv, InRequest, AcceptedPrefix
<1>2. TypeInv /\ PrefixInv /\ [Next]_vars => PrefixInv'
  BY PrefixStep
<1>3. PrefixInv => AcceptedPrefix
  BY DEF PrefixInv
<1> QED  BY <1>1, <1>2, <1>3, TypeInvariant, PTL DEF Spec

----------------------------------------------------------------------------
(* What the pollers report. *)

StartPending == pps \in {"starting", "started", "failed"}
Reading(p) == ppc[p] \in {"read", "compare"}
Serialized(p) == ppc[p] \in {"check", "read", "compare"}

\* Pollers read the counter only of hardware whose start has been published.
ReadingInv ==
  /\ \A p \in Pollers : PollerAdmitted(p) => tx_stream_active /\ ~ Starting
  /\ StartPending => ~ tx_start_finished /\ (first_transmit \/ cpc = "gate")
  /\ \A p \in Pollers : Reading(p) => ~ StartPending
  /\ \A p, q \in Pollers : Serialized(p) /\ Serialized(q) => p = q

\* The baseline of the readings, while the one of an earlier start is stored.
Stale == cpc = "baseline" \/ pps = "started"
Comparing(p) == ppc[p] = "compare"

\* The counter against its last reading b: it is not above b without an underrun
\* since, not below b unless it fell back, and above b if only underruns came.
Agrees(b) ==
  /\ ~ unread => sdk_underruns <= b
  /\ ~ fell_back => b <= sdk_underruns
  /\ unread /\ ~ fell_back => b < sdk_underruns

\* What a reading calls for is what its comparison will find.
DueFound(p) ==
  /\ due[p] = "report" => perrors[p] > tx_underruns
  /\ due[p] = "none" => perrors[p] <= tx_underruns

CountInv ==
  /\ \A p \in Pollers : ppc[p] # "leave" => pret[p] = NoResult
  /\ \A p \in Pollers : Comparing(p) => Agrees(perrors[p]) /\ DueFound(p)
  /\ (\A p \in Pollers : ~ Comparing(p)) => Agrees(IF Stale THEN 0 ELSE tx_underruns)

ReportInv == ReadingInv /\ CountInv

ReportTypes ==
  /\ ppc \in [Pollers -> PollerPcs] /\ perrors \in [Pollers -> Nat]
  /\ pret \in [Pollers -> {NoResult, STREAM_ERROR, TIMEOUT, UNDERFLOW}]
  /\ tx_underruns \in Nat /\ sdk_underruns \in Nat
  /\ unread \in BOOLEAN /\ fell_back \in BOOLEAN
  /\ due \in [Pollers -> {"none", "either", "report"}]

LEMMA ReportTyped == TypeInv => ReportTypes
BY DEF TypeInv, TypeOK, PollerTypeOK, ReportTypes

\* Steps that leave pollers, counters and the start alone.
LEMMA ReportFrame ==
  ASSUME ReportInv, UNCHANGED <<ppc, perrors, pret, statusVars, pps, tx_stream_active,
                                tx_start_finished, first_transmit>>,
         Starting' => Starting, cpc' = "baseline" <=> cpc = "baseline",
         cpc = "gate" => cpc' = "gate"
  PROVE  ReportInv'
<1>1. ReadingInv'
  BY DEF ReportInv, ReadingInv, StartPending, Reading, Serialized, PollerAdmitted
<1>2. CountInv'
  BY DEF ReportInv, CountInv, Agrees, DueFound, Comparing, Stale
<1> QED  BY <1>1, <1>2 DEF ReportInv

LEMMA ReportByWriter ==
  ASSUME ReportInv, WriterAction \/ CompletionAction
  PROVE  ReportInv'
<1>1. /\ UNCHANGED <<ppc, perrors, pret, statusVars, pps, tx_stream_active, tx_start_finished>>
      /\ cpc' \in {cpc, WokenByChanged(cpc)}
  BY DEF WriterAction, WriterStep, CheckRequest, PpsTest, SlotTest, BlockWriter,
       PreparePacket, Transmit, ReleaseReservation, FullTest, Advance, LeaveWrite,
       NotifyLeft, WriterDeadline, WakeWriter, WriteCall, WriterFrame, WriterOnly,
       CompletionAction, Complete, NotifyCompleted
<1>2. UNCHANGED first_transmit \/ tx_start_finished
  BY DEF WriterAction, WriterStep, CheckRequest, PpsTest, StartSucceeded, SlotTest, BlockWriter,
       PreparePacket, Transmit, ReleaseReservation, FullTest, Advance, LeaveWrite,
       NotifyLeft, WriterDeadline, WakeWriter, WriteCall, WriterFrame, WriterOnly,
       CompletionAction, Complete, NotifyCompleted
<1>3. /\ Starting' <=> Starting
      /\ cpc' = "baseline" <=> cpc = "baseline"
      /\ cpc' = "gate" <=> cpc = "gate"
  BY <1>1 DEF Starting, WokenByChanged
<1>4. ReadingInv'
  BY <1>1, <1>2, <1>3
     DEF ReportInv, ReadingInv, StartPending, Reading, Serialized, PollerAdmitted
<1>5. CountInv'
  BY <1>1, <1>3 DEF ReportInv, CountInv, Agrees, DueFound, Comparing, Stale
<1> QED  BY <1>4, <1>5 DEF ReportInv

LEMMA ReadingByPoller ==
  ASSUME TypeInv, SubmitInv, ReportInv, NEW p \in Pollers,
         PollCall(p) \/ PollerDeadline(p) \/ PollerStep(p)
  PROVE  ReadingInv'
<1>1. ReportTypes
  BY ReportTyped
<1> USE DEF PollerFrame, PollerOnly, PollerAt, PollerGoto, PollerReturn
<1>2. /\ UNCHANGED <<tx_stream_active, startVars>>
      /\ \A q \in Pollers : q # p => ppc'[q] = ppc[q]
      /\ cpc' \in {cpc, WokenByChanged(cpc)}
  BY <1>1 DEF ReportTypes, PollCall, PollerDeadline, PollerStep, LockStatus, CheckStart,
     ReadUnderruns, CompareUnderruns, PaceTest, LeavePoll, NotifyPollLeft
<1>3. /\ Starting' <=> Starting
      /\ cpc' = "gate" <=> cpc = "gate"
  BY <1>2 DEF Starting, WokenByChanged
<1>4. PollerAdmitted(p)' => tx_stream_active /\ ~ Starting
  <2>1. CASE PollCall(p)
    BY <2>1 DEF PollCall, SubmitInv, GateTells
  <2>2. CASE ~ PollCall(p)
    <3>1. PollerAdmitted(p)' => PollerAdmitted(p)
      BY <1>1, <2>2 DEF ReportTypes, PollerAdmitted, PollerDeadline, PollerStep, LockStatus,
         CheckStart, ReadUnderruns, CompareUnderruns, PaceTest, LeavePoll, NotifyPollLeft
    <3> QED  BY <3>1 DEF ReportInv, ReadingInv
  <2> QED  BY <2>1, <2>2
<1>5. Reading(p)' => Reading(p) \/ CheckStart(p)
  BY <1>1 DEF ReportTypes, Reading, PollCall, PollerDeadline, PollerStep, LockStatus,
     ReadUnderruns, CompareUnderruns, PaceTest, LeavePoll, NotifyPollLeft
<1>6. CheckStart(p) /\ Reading(p)' => ~ StartPending
  <2> SUFFICES ASSUME CheckStart(p), Reading(p)' PROVE ~ StartPending
    OBVIOUS
  <2>1. ppc'[p] = "read" /\ PollerAdmitted(p)
    BY <1>1 DEF CheckStart, Reading, PollerAdmitted, ReportTypes
  <2>2. first_transmit => tx_start_finished
    BY <1>1, <2>1 DEF CheckStart, ReportTypes
  <2>3. cpc # "gate"
    BY <2>1 DEF ReportInv, ReadingInv, Starting
  <2> QED  BY <2>2, <2>3 DEF ReportInv, ReadingInv
<1>7. Serialized(p)' => Serialized(p) \/ StatusMutexFree
  BY <1>1 DEF ReportTypes, Serialized, PollCall, PollerDeadline, PollerStep, LockStatus,
     CheckStart, ReadUnderruns, CompareUnderruns, PaceTest, LeavePoll, NotifyPollLeft
<1>8. ASSUME NEW a \in Pollers, NEW b \in Pollers, Serialized(a)', Serialized(b)'
      PROVE  a = b
  <2>1. \A q \in Pollers : q # p => (Serialized(q)' <=> Serialized(q))
    BY <1>2 DEF Serialized
  <2>2. StatusMutexFree => \A q \in Pollers : ~ Serialized(q)
    BY DEF StatusMutexFree, Serialized
  <2> QED  BY <1>7, <1>8, <2>1, <2>2 DEF ReportInv, ReadingInv
<1>9. /\ \A q \in Pollers : q # p => (PollerAdmitted(q)' <=> PollerAdmitted(q))
      /\ \A q \in Pollers : q # p => (Reading(q)' <=> Reading(q))
      /\ StartPending' <=> StartPending
  BY <1>2 DEF PollerAdmitted, Reading, StartPending
<1> QED
  BY <1>2, <1>3, <1>4, <1>5, <1>6, <1>8, <1>9 DEF ReportInv, ReadingInv

LEMMA CountByPoller ==
  ASSUME TypeInv, ReportInv, NEW p \in Pollers,
         PollCall(p) \/ PollerDeadline(p) \/ PollerStep(p)
  PROVE  CountInv'
<1>1. ReportTypes
  BY ReportTyped
<1> USE DEF PollerFrame, PollerOnly, PollerAt, PollerGoto, PollerReturn
<1>9. \A q \in Pollers : ppc'[q] # "leave" => pret'[q] = NoResult
  BY <1>1 DEF ReportInv, CountInv, ReportTypes, PollCall, PollerDeadline, PollerStep,
     LockStatus, CheckStart, ReadUnderruns, CompareUnderruns, PaceTest, LeavePoll,
     NotifyPollLeft
<1>2. CASE CompareUnderruns(p)
  <2>1. /\ UNCHANGED <<cpc, pps, sdk_underruns, unread, fell_back>>
        /\ tx_underruns' = perrors[p]
        /\ Comparing(p)
    BY <1>2 DEF CompareUnderruns, Comparing
  <2>2. Reading(p) /\ PollerAdmitted(p) /\ Serialized(p)
    BY <2>1 DEF Reading, PollerAdmitted, Serialized, Comparing
  <2>3. ~ Stale'
    BY <2>1, <2>2 DEF ReportInv, ReadingInv, StartPending, Starting, Stale
  <2>4. ASSUME NEW q \in Pollers, Comparing(q)' PROVE FALSE
    <3>1. q # p
      BY <1>1, <1>2, <2>4 DEF CompareUnderruns, ReportTypes, Comparing
    <3>2. ppc[q] = "compare"
      BY <1>1, <1>2, <2>4, <3>1 DEF CompareUnderruns, ReportTypes, Comparing
    <3> QED  BY <2>2, <3>1, <3>2 DEF ReportInv, ReadingInv, Serialized
  <2>5. Agrees(tx_underruns)'
    BY <2>1 DEF ReportInv, CountInv, Agrees
  <2> QED  BY <1>9, <2>3, <2>4, <2>5 DEF CountInv
<1>3. CASE ReadUnderruns(p)
  <2>1. UNCHANGED <<cpc, pps, tx_underruns, sdk_underruns>> /\ ppc[p] = "read"
    BY <1>3 DEF ReadUnderruns
  <2>2. Reading(p) /\ PollerAdmitted(p) /\ Serialized(p)
    BY <2>1 DEF Reading, PollerAdmitted, Serialized
  <2>3. ~ Stale /\ ~ Stale'
    BY <2>1, <2>2 DEF ReportInv, ReadingInv, StartPending, Starting, Stale
  <2>4. \A q \in Pollers : ~ Comparing(q)
    BY <2>1, <2>2 DEF ReportInv, ReadingInv, Serialized, Comparing
  <2>5. Agrees(tx_underruns)
    BY <2>3, <2>4 DEF ReportInv, CountInv
  <2>6. CASE ppc'[p] = "compare"
    <3>1. /\ perrors'[p] = sdk_underruns /\ due'[p] = CalledFor
          /\ unread' = FALSE /\ fell_back' = FALSE
          /\ \A q \in Pollers : q # p => ~ Comparing(q)'
      BY <1>1, <1>3, <2>4, <2>6 DEF ReadUnderruns, ReportTypes, Comparing
    <3>2. Agrees(perrors[p])'
      BY <1>1, <2>1, <3>1 DEF Agrees, ReportTypes
    <3>3. DueFound(p)'
      BY <1>1, <2>1, <2>5, <3>1 DEF DueFound, Agrees, CalledFor, ReportTypes
    <3> QED  BY <1>9, <2>6, <3>1, <3>2, <3>3 DEF CountInv, Comparing
  <2>7. CASE ppc'[p] # "compare"
    <3>1. /\ UNCHANGED historyVars
          /\ \A q \in Pollers : ~ Comparing(q)'
      BY <1>1, <1>3, <2>4, <2>7 DEF ReadUnderruns, ReportTypes, Comparing
    <3>2. Agrees(tx_underruns)'
      BY <2>1, <2>5, <3>1 DEF Agrees
    <3> QED  BY <1>9, <2>3, <3>1, <3>2 DEF CountInv
  <2> QED  BY <2>6, <2>7
<1>4. CASE ~ CompareUnderruns(p) /\ ~ ReadUnderruns(p)
  <2>1. /\ UNCHANGED <<perrors, pps, statusVars>> /\ cpc' \in {cpc, WokenByChanged(cpc)}
    BY <1>4 DEF PollCall, PollerDeadline, PollerStep, LockStatus, CheckStart,
       PaceTest, LeavePoll, NotifyPollLeft
  <2>2. \A q \in Pollers : Comparing(q)' <=> Comparing(q)
    BY <1>1, <1>4 DEF PollCall, PollerDeadline, PollerStep, LockStatus, CheckStart,
       PaceTest, LeavePoll, NotifyPollLeft, ReportTypes, Comparing
  <2>3. Stale' <=> Stale
    BY <2>1 DEF WokenByChanged, Stale
  <2>4. \A q \in Pollers : Comparing(q) => Agrees(perrors[q])' /\ DueFound(q)'
    BY <2>1 DEF ReportInv, CountInv, Agrees, DueFound
  <2>5. (\A q \in Pollers : ~ Comparing(q)) => Agrees(IF Stale THEN 0 ELSE tx_underruns)'
    BY <2>1, <2>3 DEF ReportInv, CountInv, Agrees
  <2> QED  BY <1>9, <2>2, <2>4, <2>5 DEF CountInv
<1> QED  BY <1>2, <1>3, <1>4

LEMMA ReportByHardware ==
  ASSUME TypeInv, ReportInv, HardwareAction
  PROVE  ReportInv'
<1>1. ReportTypes
  BY ReportTyped
<1>2. UNCHANGED <<ppc, perrors, pret, cpc, tx_stream_active, first_transmit>>
  BY DEF HardwareAction, PpsEdge, PpsPublish, PpsNotify, Underrun, CounterReset, OthersFrame
<1>3. ReadingInv'
  <2>1. /\ tx_start_finished' = tx_start_finished \/ ~ StartPending'
        /\ StartPending' => StartPending
    BY DEF HardwareAction, PpsEdge, PpsPublish, PpsNotify, Underrun, CounterReset,
       OthersFrame, StartPending
  <2> QED  BY <1>2, <2>1
     DEF ReportInv, ReadingInv, Reading, Serialized, PollerAdmitted, Starting
<1> USE DEF OthersFrame
<1>9. \A p \in Pollers : ppc'[p] # "leave" => pret'[p] = NoResult
  BY <1>2 DEF ReportInv, CountInv
<1>4. CASE PpsEdge
  <2>1. CASE pps' = "started" /\ HardwareStarts
    <3>1. \A p \in Pollers : ~ Comparing(p)'
      BY <1>2, <1>4 DEF PpsEdge, ReportInv, ReadingInv, Reading, StartPending, Comparing
    <3>2. Agrees(0)' /\ Stale'
      BY <2>1 DEF HardwareStarts, Agrees, Stale
    <3> QED  BY <1>3, <1>9, <3>1, <3>2 DEF ReportInv, CountInv
  <2>2. CASE UNCHANGED <<sdk_underruns, underrun_events, historyVars>> /\ pps' = "failed"
    <3>1. pps = "starting" /\ tx_underruns' = tx_underruns
      BY <1>4 DEF PpsEdge
    <3> QED
      BY <1>2, <1>3, <2>2, <3>1 DEF ReportInv, CountInv, Agrees, DueFound, Comparing, Stale
  <2> QED  BY <1>4, <2>1, <2>2 DEF PpsEdge
<1>5. CASE PpsPublish
  <2>1. /\ pps' = "published" /\ UNCHANGED <<sdk_underruns, historyVars>>
        /\ pps \in {"started", "failed"}
        /\ tx_underruns' = IF pps = "started" THEN 0 ELSE tx_underruns
    BY <1>5 DEF PpsPublish
  <2>2. \A p \in Pollers : ~ Comparing(p) /\ ~ Comparing(p)'
    BY <1>2, <2>1 DEF ReportInv, ReadingInv, Reading, StartPending, Comparing
  <2>3. Agrees(IF Stale THEN 0 ELSE tx_underruns)
    BY <2>2 DEF ReportInv, CountInv
  <2>4. Agrees(IF Stale THEN 0 ELSE tx_underruns)'
    BY <1>2, <2>1, <2>3 DEF Agrees, Stale
  <2> QED  BY <1>3, <1>9, <2>2, <2>4 DEF ReportInv, CountInv
<1>6. CASE PpsNotify
  BY <1>2, <1>3, <1>6
     DEF PpsNotify, ReportInv, CountInv, Agrees, DueFound, Comparing, Stale
<1>7. CASE Underrun
  <2>1. /\ sdk_underruns' = sdk_underruns + 1 /\ unread' = TRUE
        /\ UNCHANGED <<pps, tx_underruns, fell_back, due>>
    BY <1>7 DEF Underrun
  <2>2. \A b \in Nat : Agrees(b) /\ ~ fell_back' => b < sdk_underruns'
    BY <1>1, <2>1 DEF Agrees, ReportTypes
  <2>3. \A p \in Pollers : Comparing(p)' =>
          Comparing(p) /\ Agrees(perrors[p])' /\ DueFound(p)'
    BY <1>1, <1>2, <2>1, <2>2
       DEF ReportInv, CountInv, Comparing, Agrees, DueFound, ReportTypes
  <2>4. (\A p \in Pollers : ~ Comparing(p)') =>
          Agrees(IF Stale THEN 0 ELSE tx_underruns)'
    BY <1>1, <1>2, <2>1, <2>2
       DEF ReportInv, CountInv, Comparing, Agrees, Stale, ReportTypes
  <2> QED  BY <1>3, <1>9, <2>3, <2>4 DEF ReportInv, CountInv
<1>8. CASE CounterReset
  <2>1. /\ sdk_underruns' = 0 /\ fell_back' = TRUE
        /\ UNCHANGED <<pps, tx_underruns, unread, due>>
    BY <1>8 DEF CounterReset
  <2>2. \A p \in Pollers : Comparing(p)' =>
          Comparing(p) /\ Agrees(perrors[p])' /\ DueFound(p)'
    BY <1>1, <1>2, <2>1
       DEF ReportInv, CountInv, Comparing, Agrees, DueFound, ReportTypes
  <2>3. Agrees(IF Stale THEN 0 ELSE tx_underruns)'
    BY <1>1, <1>2, <2>1 DEF Agrees, Stale, ReportTypes
  <2> QED  BY <1>3, <1>9, <2>2, <2>3 DEF ReportInv, CountInv
<1> QED  BY <1>4, <1>5, <1>6, <1>7, <1>8 DEF HardwareAction

LEMMA ReportByControl ==
  ASSUME DrainInv, HardwareInv, SubmitInv, ReportInv, ControlAction
  PROVE  ReportInv'
<1>1. ReportTypes
  BY ReportTyped DEF DrainInv
<1> USE DEF ControlFrame
<1>2. CASE ActivateStream
  <2>1. /\ UNCHANGED <<ppc, perrors, pret, statusVars, pps, tx_stream_active, tx_start_finished>>
        /\ cpc = "idle" /\ cpc' \in {"start", "arm"} /\ ~ tx_stream_active /\ pps = "none"
    BY <1>2 DEF ActivateStream, ControlIdle
  <2>2. \A p \in Pollers : ~ PollerAdmitted(p) /\ ~ Reading(p) /\ ~ Serialized(p)
    BY <2>1 DEF ReportInv, ReadingInv, PollerAdmitted, Reading, Serialized
  <2>3. ReadingInv'
    BY <2>1, <2>2 DEF ReadingInv, StartPending, PollerAdmitted, Reading, Serialized
  <2>4. CountInv'
    BY <2>1 DEF ReportInv, CountInv, Agrees, DueFound, Comparing, Stale
  <2> QED  BY <2>3, <2>4 DEF ReportInv
<1>3. CASE Starting /\ (StartNow \/ ResetBaseline \/ ArmPps \/ SpawnPps \/ CloseGate)
  <2>1. \A p \in Pollers : ~ PollerAdmitted(p) /\ ~ Reading(p) /\ ~ Serialized(p)
    BY <1>3 DEF ReportInv, ReadingInv, PollerAdmitted, Reading, Serialized
  <2>2. UNCHANGED <<ppc, perrors, pret>>
    BY <1>3 DEF StartNow, ResetBaseline, ArmPps, SpawnPps, CloseGate
  <2>3. /\ \A p \in Pollers : ~ PollerAdmitted(p)' /\ ~ Reading(p)' /\ ~ Serialized(p)'
        /\ \A p \in Pollers : ppc'[p] # "compare"
    BY <2>1, <2>2 DEF PollerAdmitted, Reading, Serialized
  <2>9. \A p \in Pollers : ppc'[p] # "leave" => pret'[p] = NoResult
    BY <2>2 DEF ReportInv, CountInv
  <2>10. Agrees(IF Stale THEN 0 ELSE tx_underruns)
    BY <2>1 DEF ReportInv, CountInv, Comparing, Reading
  <2>11. ASSUME Agrees(IF Stale THEN 0 ELSE tx_underruns)' PROVE CountInv'
    BY <2>3, <2>9, <2>11 DEF CountInv, Comparing
  <2>4. CASE StartNow
    <3>1. pps = "none" /\ UNCHANGED <<startVars, tx_underruns>> /\ cpc = "start"
      BY <2>4 DEF StartNow, HardwareInv
    <3>2. \/ cpc' = "baseline" /\ HardwareStarts
          \/ cpc' = "idle" /\ UNCHANGED <<sdk_underruns, underrun_events, historyVars>>
      BY <2>4 DEF StartNow
    <3>3. ReadingInv'
      BY <2>3, <3>1 DEF ReadingInv, StartPending
    <3>4. CountInv'
      BY <2>10, <2>11, <3>1, <3>2 DEF Agrees, Stale, HardwareStarts
    <3> QED  BY <3>3, <3>4 DEF ReportInv
  <2>5. CASE ResetBaseline
    <3>1. /\ tx_underruns' = 0 /\ cpc = "baseline" /\ cpc' = "open"
          /\ UNCHANGED <<startVars, sdk_underruns, underrun_events, historyVars>>
      BY <2>5 DEF ResetBaseline
    <3>2. ReadingInv'
      BY <2>3, <3>1 DEF ReportInv, ReadingInv, StartPending
    <3>3. CountInv'
      BY <2>10, <2>11, <3>1 DEF Agrees, Stale
    <3> QED  BY <3>2, <3>3 DEF ReportInv
  <2>6. CASE ArmPps
    <3>1. /\ pps = "none" /\ UNCHANGED <<pps, statusVars>>
          /\ cpc = "arm" /\ cpc' = "spawn"
      BY <2>6 DEF ArmPps, HardwareInv
    <3>2. ReadingInv'
      BY <2>3, <3>1 DEF ReadingInv, StartPending
    <3>3. CountInv'
      BY <2>10, <2>11, <3>1 DEF Agrees, Stale
    <3> QED  BY <3>2, <3>3 DEF ReportInv
  <2>7. CASE SpawnPps
    <3>1. /\ cpc = "spawn" /\ ~ tx_start_finished /\ pps = "none"
          /\ UNCHANGED <<statusVars, tx_start_finished>>
      BY <2>7 DEF SpawnPps, SubmitInv, HardwareInv
    <3>2. \/ cpc' = "gate" /\ pps' = "starting"
          \/ cpc' = "idle" /\ pps' = "none"
      BY <2>7, <3>1 DEF SpawnPps
    <3>3. ReadingInv'
      BY <2>3, <3>1, <3>2 DEF ReadingInv, StartPending
    <3>4. CountInv'
      BY <2>10, <2>11, <3>1, <3>2 DEF Agrees, Stale
    <3> QED  BY <3>3, <3>4 DEF ReportInv
  <2>8. CASE CloseGate
    <3>1. /\ cpc = "gate" /\ cpc' = "open" /\ first_transmit' = TRUE
          /\ UNCHANGED <<statusVars, pps, tx_start_finished>>
      BY <2>8 DEF CloseGate
    <3>2. ReadingInv'
      BY <2>3, <3>1 DEF ReportInv, ReadingInv, StartPending
    <3>3. CountInv'
      BY <2>10, <2>11, <3>1 DEF Agrees, Stale
    <3> QED  BY <3>2, <3>3 DEF ReportInv
  <2> QED  BY <1>3, <2>4, <2>5, <2>6, <2>7, <2>8
<1>4. CASE \/ SetupStream \/ OpenAdmission \/ CloseAdmission \/ NotifyStop \/ Drain
           \/ \E op \in {"deactivate", "close", "destroy"} : StopCall(op)
  <2>1. /\ UNCHANGED <<ppc, perrors, pret, statusVars, pps, tx_stream_active, tx_start_finished,
                       first_transmit>>
        /\ Starting' => Starting
        /\ cpc' # "baseline" /\ cpc # "baseline" /\ cpc # "gate"
    BY <1>4 DEF SetupStream, OpenAdmission, CloseAdmission, NotifyStop, Drain, StopCall,
       ControlIdle, Starting
  <2> QED  BY <2>1, ReportFrame
<1>5. CASE JoinPps \/ StopHardware \/ FinishStop
  <2>1. /\ UNCHANGED <<ppc, perrors, pret, statusVars, tx_start_finished, first_transmit>>
        /\ cpc # "baseline" /\ cpc' \notin {"baseline", "gate"} /\ ~ Starting'
        /\ pps' = "none" \/ pps' = pps
        /\ pps \notin {"starting", "started", "failed"}
    BY <1>5 DEF JoinPps, StopHardware, FinishStop, Starting, DrainInv, Drained
  <2>2. \A p \in Pollers : ~ PollerAdmitted(p)
    BY <1>5 DEF JoinPps, StopHardware, FinishStop, DrainInv, Drained
  <2>3. \A p \in Pollers : ~ PollerAdmitted(p)' /\ ~ Reading(p)' /\ ~ Serialized(p)'
    BY <2>1, <2>2 DEF PollerAdmitted, Reading, Serialized
  <2>4. ReadingInv'
    BY <2>1, <2>3 DEF ReadingInv, StartPending
  <2>5. CountInv'
    BY <2>1 DEF ReportInv, CountInv, Agrees, DueFound, Comparing, Stale
  <2> QED  BY <2>4, <2>5 DEF ReportInv
<1>6. StartNow \/ ResetBaseline \/ ArmPps \/ SpawnPps \/ CloseGate => Starting
  BY DEF StartNow, ResetBaseline, ArmPps, SpawnPps, CloseGate, Starting
<1> QED
  BY <1>2, <1>3, <1>4, <1>5, <1>6 DEF ControlAction, ControlStep, StopStep

LEMMA AnsweredByPoller ==
  ASSUME TypeInv, ReportInv, NEW p \in Pollers,
         PollCall(p) \/ PollerDeadline(p) \/ PollerStep(p)
  PROVE  \A q \in Pollers : AnswersAsDue(q)
<1>1. ReportTypes
  BY ReportTyped
<1> USE DEF PollerFrame, PollerOnly, PollerAt, PollerGoto, PollerReturn
<1>2. \A q \in Pollers : q # p => ppc'[q] = ppc[q]
  BY <1>1 DEF ReportTypes, PollCall, PollerDeadline, PollerStep, LockStatus, CheckStart,
     ReadUnderruns, CompareUnderruns, PaceTest, LeavePoll, NotifyPollLeft
<1>3. ppc[p] = "compare" /\ ppc'[p] # "compare" => CompareUnderruns(p)
  BY <1>1 DEF ReportTypes, PollCall, PollerDeadline, PollerStep, LockStatus, CheckStart,
     ReadUnderruns, PaceTest, LeavePoll, NotifyPollLeft
<1>4. ASSUME CompareUnderruns(p) PROVE AnswersAsDue(p)
  <2>1. Comparing(p) /\ DueFound(p)
    BY <1>4 DEF CompareUnderruns, ReportInv, CountInv, Comparing
  <2>2. CASE perrors[p] > tx_underruns
    <3>1. pret'[p] = UNDERFLOW
      BY <1>1, <1>4, <2>2 DEF CompareUnderruns, ReportTypes
    <3>2. due[p] # "none"
      BY <1>1, <2>1, <2>2 DEF DueFound, ReportTypes
    <3> QED  BY <3>1, <3>2 DEF AnswersAsDue
  <2>3. CASE ~ perrors[p] > tx_underruns
    <3>1. ppc[p] = "compare" /\ pret' = pret /\ due[p] # "report"
      BY <1>4, <2>1, <2>3 DEF CompareUnderruns, DueFound
    <3>2. pret[p] # UNDERFLOW
      BY <3>1 DEF ReportInv, CountInv
    <3> QED  BY <3>1, <3>2 DEF AnswersAsDue
  <2> QED  BY <2>2, <2>3
<1> QED  BY <1>2, <1>3, <1>4 DEF AnswersAsDue

\* readStreamStatus (TxStreaming.cpp:402-490): for any number of pollers, a poll
\* that reads the counter after an underrun reports it, a poll that reads it
\* without one does not, over any starts, stops and pending PPS starts
\* (:133-138, Streaming.cpp:543-546); only where the SDK's counter has also fallen
\* back since it was last read may the answer be either.
THEOREM UnderrunsAccounted == Spec => UnderrunsReportedOnce
<1>1. Init => ReportInv
  BY DEF Init, ReportInv, ReadingInv, CountInv, Agrees, DueFound, Comparing, Stale,
     StartPending, Reading, Serialized, PollerAdmitted, Starting
<1>2. DrainInv /\ HardwareInv /\ SubmitInv /\ ReportInv /\ [Next]_vars => ReportInv'
  <2> SUFFICES ASSUME DrainInv, HardwareInv, SubmitInv, ReportInv, [Next]_vars
               PROVE  ReportInv'
    OBVIOUS
  <2>1. TypeInv
    BY DEF DrainInv
  <2>2. CASE PollerAction
    BY <2>1, <2>2, ReadingByPoller, CountByPoller DEF PollerAction, ReportInv
  <2>3. CASE UNCHANGED vars
    <3>1. Starting' <=> Starting
      BY <2>3 DEF vars, Starting
    <3> QED  BY <2>3, <3>1, ReportFrame DEF vars
  <2> QED
    BY <2>1, <2>2, <2>3, NextCases, ReportByWriter, ReportByHardware, ReportByControl
<1>3. TypeInv /\ ReportInv /\ [Next]_vars => [\A p \in Pollers : AnswersAsDue(p)]_vars
  <2> SUFFICES ASSUME TypeInv, ReportInv, Next
               PROVE  \A p \in Pollers : AnswersAsDue(p)
    BY DEF vars
  <2>1. CASE PollerAction
    BY <2>1, AnsweredByPoller DEF PollerAction
  <2>2. CASE UNCHANGED ppc
    BY <2>2 DEF AnswersAsDue
  <2>3. PollerAction \/ UNCHANGED ppc
    <3>1. WriterAction \/ CompletionAction => UNCHANGED ppc
      BY DEF WriterAction, WriterStep, CheckRequest, PpsTest, SlotTest, BlockWriter,
         PreparePacket, Transmit, ReleaseReservation, FullTest, Advance, LeaveWrite,
         NotifyLeft, WriterDeadline, WakeWriter, WriteCall, WriterFrame, WriterOnly,
         CompletionAction, Complete, NotifyCompleted
    <3>2. HardwareAction => UNCHANGED ppc
      BY DEF HardwareAction, PpsEdge, PpsPublish, PpsNotify, Underrun, CounterReset,
         OthersFrame
    <3>3. ControlAction => UNCHANGED ppc
      BY DEF ControlAction, ControlStep, StopStep, ControlFrame, SetupStream,
         ActivateStream, StartNow, ResetBaseline, ArmPps, SpawnPps, CloseGate,
         OpenAdmission, StopCall, CloseAdmission, NotifyStop, Drain, JoinPps,
         StopHardware, FinishStop
    <3> QED  BY <3>1, <3>2, <3>3, NextCases DEF vars
  <2> QED  BY <2>1, <2>2, <2>3
<1> QED
  BY <1>1, <1>2, <1>3, HardwareInvariant, SubmitInvariant, TypeInvariant, PTL
     DEF Spec, UnderrunsReportedOnce

----------------------------------------------------------------------------
(***************************************************************************)
(* No wake-up is lost.  NoWakeupLost is not inductive: it speaks of        *)
(* threads asleep, and a thread falls asleep one step after its test.      *)
(* Each wait below adds what holds in between, that the mutex the waiter   *)
(* still holds keeps the test false, and is proved by itself.              *)
(***************************************************************************)
HIDE DEF WriterPcs, PollerPcs, ControlPcs

\* tx_cv, on which a writer waits for the result of a PPS start.
PpsOver == tx_start_finished \/ tx_writes_stopping

PpsWait ==
  /\ cpc \in {"arm", "spawn"} => pps = "none"
  /\ wpc = "ppsBlocking" => ~ PpsOver
  /\ wpc = "ppsAsleep" /\ PpsOver => pps = "published" \/ cpc = "notifyTxCv"

\* tx_completion->changed, on which a writer waits for its slot or for the SDK.
RingOver == \/ wpc \in {"slotBlocking", "slotAsleep"} /\ SlotFree
            \/ wpc \in {"fullBlocking", "fullAsleep"} /\ progressed
            \/ tx_writes_stopping

RingWait ==
  /\ wpc \in {"slotBlocking", "fullBlocking"} => ~ RingOver
  /\ wpc \in {"slotAsleep", "fullAsleep"} /\ RingOver =>
       unnotified \/ cpc \in {"notifyTxCv", "notifyChanged"}

\* The same condition, on which a stop waits for the calls to leave.
SomebodyLeaves == wpc = "leaveNotify" \/ \E p \in Pollers : ppc[p] = "leaveNotify"

DrainWait ==
  /\ cpc = "drainBlocking" => ~ NoneAdmitted
  /\ cpc = "drainAsleep" /\ NoneAdmitted => SomebodyLeaves

----------------------------------------------------------------------------
(* The wait for a PPS start *)

LEMMA PpsWaitStep ==
  ASSUME PpsWait, [Next]_vars
  PROVE  PpsWait'
<1> USE DEF PpsWait, PpsOver, WriterFrame, WriterOnly, WriterAt, Return, Resume
<1>1. CASE WriterAction
  <2>1. CASE PpsTest
    BY <2>1 DEF PpsTest
  <2>2. CASE BlockWriter
    BY <2>2 DEF BlockWriter
  <2>3. CASE NotifyLeft
    BY <2>3 DEF NotifyLeft, WokenByChanged
  <2>4. CASE WriterDeadline \/ WakeWriter \/ \E n \in Requests : WriteCall(n)
    BY <2>4 DEF WriterDeadline, WakeWriter, WriteCall, WokenByTxCv, WokenByChanged
  <2>5. CASE \/ CheckRequest \/ SlotTest \/ PreparePacket \/ Transmit
             \/ ReleaseReservation \/ FullTest \/ Advance \/ LeaveWrite
    BY <2>5 DEF CheckRequest, SlotTest, PreparePacket, Transmit, ReleaseReservation,
           FullTest, Advance, LeaveWrite
  <2> QED  BY <1>1, <2>1, <2>2, <2>3, <2>4, <2>5 DEF WriterAction, WriterStep
<1>2. CASE PollerAction
  <2> PICK p \in Pollers : PollCall(p) \/ PollerDeadline(p) \/ PollerStep(p)
    BY <1>2 DEF PollerAction
  <2>1. UNCHANGED <<startVars, tx_writes_stopping>>
    BY DEF PollCall, PollerDeadline, PollerStep, LockStatus, CheckStart, ReadUnderruns,
           CompareUnderruns, PaceTest, LeavePoll, NotifyPollLeft, PollerFrame, PollerOnly
  <2>2. wpc' \in {wpc, WokenByChanged(wpc)} /\ cpc' \in {cpc, WokenByChanged(cpc)}
    BY DEF PollCall, PollerDeadline, PollerStep, LockStatus, CheckStart, ReadUnderruns,
           CompareUnderruns, PaceTest, LeavePoll, NotifyPollLeft, PollerFrame, PollerOnly
  <2> QED  BY <2>1, <2>2 DEF WokenByChanged
<1>3. CASE CompletionAction
  <2>1. UNCHANGED <<startVars, tx_writes_stopping>>
    BY <1>3 DEF CompletionAction, Complete, NotifyCompleted
  <2>2. wpc' \in {wpc, WokenByChanged(wpc)} /\ cpc' \in {cpc, WokenByChanged(cpc)}
    BY <1>3 DEF CompletionAction, Complete, NotifyCompleted
  <2> QED  BY <2>1, <2>2 DEF WokenByChanged
<1>4. CASE HardwareAction
  BY <1>4 DEF HardwareAction, PpsEdge, PpsPublish, PpsNotify, Underrun, CounterReset,
              OthersFrame, TxMutexFree, WokenByTxCv
<1>5. CASE ControlAction
  <2> USE DEF ControlFrame
  <2>1. CASE CloseAdmission \/ NotifyStop
    BY <2>1 DEF CloseAdmission, NotifyStop, TxMutexFree, WokenByTxCv, WokenByChanged
  <2>2. CASE Drain \/ JoinPps \/ StopHardware \/ FinishStop
    BY <2>2 DEF Drain, JoinPps, StopHardware, FinishStop
  <2>3. CASE \E op \in {"deactivate", "close", "destroy"} : StopCall(op)
    BY <2>3 DEF StopCall, ControlIdle
  <2>4. CASE \/ SetupStream \/ ActivateStream \/ StartNow \/ ResetBaseline \/ ArmPps
             \/ SpawnPps \/ CloseGate \/ OpenAdmission
    BY <2>4 DEF SetupStream, ActivateStream, StartNow, ResetBaseline, ArmPps, SpawnPps,
                CloseGate, OpenAdmission, ControlIdle, TxMutexFree
  <2> QED  BY <1>5, <2>1, <2>2, <2>3, <2>4 DEF ControlAction, ControlStep, StopStep
<1>6. CASE UNCHANGED vars
  BY <1>6 DEF vars
<1> QED  BY <1>1, <1>2, <1>3, <1>4, <1>5, <1>6, NextCases

----------------------------------------------------------------------------
(* The waits for a slot and for the SDK *)

\* A step that leaves the writer where it was, or wakes it, and does not end its
\* wait leaves the wait as it was; a notification still owed stays owed.
LEMMA RingWaitKept ==
  ASSUME RingWait, wpc' \in {wpc, WokenByTxCv(wpc)},
         UNCHANGED <<tx_completion, tx_block_index, slots, progressed, unnotified>>,
         tx_writes_stopping' => tx_writes_stopping,
         cpc \in {"notifyTxCv", "notifyChanged"} => UNCHANGED cpc
  PROVE  RingWait'
BY DEF RingWait, RingOver, SlotFree, WokenByTxCv

LEMMA RingWaitByWriter ==
  ASSUME RingWait, WriterAction
  PROVE  RingWait'
<1> USE DEF RingWait, RingOver, SlotFree, WriterFrame, WriterOnly, WriterAt, Return, Resume
<1>1. CASE SlotTest
  BY <1>1 DEF SlotTest
<1>2. CASE FullTest
  BY <1>2 DEF FullTest
<1>3. CASE BlockWriter
  BY <1>3 DEF BlockWriter
<1>4. CASE PpsTest
  BY <1>4 DEF PpsTest
<1>5. CASE WriterDeadline \/ WakeWriter
  BY <1>5 DEF WriterDeadline, WakeWriter, WokenByTxCv, WokenByChanged
<1>6. CASE \/ CheckRequest \/ PreparePacket \/ Transmit \/ ReleaseReservation
           \/ Advance \/ LeaveWrite \/ NotifyLeft \/ \E n \in Requests : WriteCall(n)
  <2>1. wpc' \notin {"slotBlocking", "slotAsleep", "fullBlocking", "fullAsleep"}
    BY <1>6 DEF CheckRequest, PreparePacket, Transmit, ReleaseReservation, Advance,
                LeaveWrite, NotifyLeft, WriteCall
  <2> QED  BY <2>1
<1> QED  BY <1>1, <1>2, <1>3, <1>4, <1>5, <1>6 DEF WriterAction, WriterStep

LEMMA RingWaitByCompletion ==
  ASSUME TypeInv, RingWait, CompletionAction
  PROVE  RingWait'
<1>1. ASSUME NEW g \in Streams, NEW i \in Slots, Complete(g, i)
      PROVE  RingWait'
  <2>1. /\ UNCHANGED <<tx_completion, tx_block_index, tx_writes_stopping, wpc, cpc>>
        /\ slots' = [slots EXCEPT ![g][i] = 0]
    BY <1>1 DEF Complete, SlotsAfter
  <2>2. CASE g = tx_completion
    <3>1. wpc \notin {"slotBlocking", "fullBlocking"}
      BY <1>1, <2>2 DEF Complete, CallbackMutexFree, CompletionMutexFree
    <3>2. unnotified'
      BY <1>1, <2>2, Zenon DEF Complete
    <3> QED  BY <2>1, <3>1, <3>2 DEF RingWait
  <2>3. CASE g # tx_completion
    <3>1. slots'[tx_completion][tx_block_index] = slots[tx_completion][tx_block_index]
      BY <2>1, <2>3 DEF TypeInv, TypeOK, RingTypeOK
    <3>2. progressed' <=> progressed
      BY <1>1, <2>3, Zenon DEF Complete
    <3>3. unnotified => unnotified'
      BY <1>1, Zenon DEF Complete
    <3> QED  BY <2>1, <3>1, <3>2, <3>3 DEF RingWait, RingOver, SlotFree
  <2> QED  BY <2>2, <2>3
<1>2. CASE NotifyCompleted
  <2>1. /\ UNCHANGED <<tx_completion, tx_block_index, slots, progressVars,
                       tx_writes_stopping>>
        /\ wpc' = WokenByChanged(wpc)
    BY <1>2 DEF NotifyCompleted
  <2>2. RingOver' /\ wpc' = wpc => RingOver
    BY <2>1 DEF RingOver, SlotFree
  <2> QED  BY <2>1, <2>2 DEF RingWait, WokenByChanged
<1> QED  BY <1>1, <1>2 DEF CompletionAction

LEMMA RingWaitStep ==
  ASSUME TypeInv, RingWait, [Next]_vars
  PROVE  RingWait'
<1>1. CASE WriterAction
  BY <1>1, RingWaitByWriter
<1>2. CASE PollerAction
  <2> PICK p \in Pollers : PollCall(p) \/ PollerDeadline(p) \/ PollerStep(p)
    BY <1>2 DEF PollerAction
  <2>1. /\ UNCHANGED <<tx_completion, tx_block_index, slots, progressed, unnotified,
                       tx_writes_stopping>>
        /\ wpc' \in {wpc, WokenByChanged(wpc)} /\ cpc' \in {cpc, WokenByChanged(cpc)}
    BY DEF PollCall, PollerDeadline, PollerStep, LockStatus, CheckStart, ReadUnderruns,
           CompareUnderruns, PaceTest, LeavePoll, NotifyPollLeft, PollerFrame, PollerOnly
  <2> QED  BY <2>1 DEF RingWait, RingOver, SlotFree, WokenByChanged
<1>3. CASE CompletionAction
  BY <1>3, RingWaitByCompletion
<1>4. CASE HardwareAction
  <2>1. /\ UNCHANGED <<tx_completion, tx_block_index, slots, progressed, unnotified,
                       tx_writes_stopping, cpc>>
        /\ wpc' \in {wpc, WokenByTxCv(wpc)}
    BY <1>4 DEF HardwareAction, PpsEdge, PpsPublish, PpsNotify, Underrun, CounterReset,
                OthersFrame
  <2> QED  BY <2>1, RingWaitKept
<1>5. CASE ControlAction
  <2> USE DEF ControlFrame
  <2>1. CASE CloseAdmission
    BY <2>1 DEF CloseAdmission, CompletionMutexFree, RingWait
  <2>2. CASE NotifyStop
    BY <2>2 DEF NotifyStop, RingWait, RingOver, SlotFree, WokenByTxCv, WokenByChanged
  <2>3. CASE SetupStream
    BY <2>3 DEF SetupStream, NoCallInProgress, RingWait
  <2>4. CASE \/ Drain \/ JoinPps \/ StopHardware \/ FinishStop
             \/ \E op \in {"deactivate", "close", "destroy"} : StopCall(op)
    BY <2>4, RingWaitKept DEF Drain, JoinPps, StopHardware, FinishStop, StopCall, ControlIdle
  <2>5. CASE \/ ActivateStream \/ StartNow \/ ResetBaseline \/ ArmPps \/ SpawnPps
             \/ CloseGate \/ OpenAdmission
    BY <2>5, RingWaitKept DEF ActivateStream, StartNow, ResetBaseline, ArmPps, SpawnPps,
       CloseGate, OpenAdmission, ControlIdle
  <2> QED  BY <1>5, <2>1, <2>2, <2>3, <2>4, <2>5 DEF ControlAction, ControlStep, StopStep
<1>6. CASE UNCHANGED vars
  BY <1>6, RingWaitKept DEF vars
<1> QED  BY <1>1, <1>2, <1>3, <1>4, <1>5, <1>6, NextCases

----------------------------------------------------------------------------
(* The drain *)

\* Nobody leaves, so that neither the counts nor the leavers change.
LEMMA DrainWaitKept ==
  ASSUME DrainWait, UNCHANGED <<countVars, ppc>>,
         wpc = "leaveNotify" => UNCHANGED wpc,
         cpc' \in {"drainBlocking", "drainAsleep"} => UNCHANGED cpc
  PROVE  DrainWait'
BY DEF DrainWait, NoneAdmitted, SomebodyLeaves

LEMMA DrainWaitByWriter ==
  ASSUME TypeInv, DrainWait, WriterAction
  PROVE  DrainWait'
<1> USE DEF WriterFrame, WriterOnly, WriterAt, Return, Resume
<1>1. CASE \E n \in Requests : WriteCall(n)
  <2>1. active_tx_writers' # 0 /\ cpc' = cpc
    BY <1>1 DEF WriteCall, TypeInv, AdmissionCounts
  <2> QED  BY <2>1 DEF DrainWait, NoneAdmitted
<1>2. CASE LeaveWrite
  BY <1>2 DEF LeaveWrite, CompletionMutexFree, DrainWait, SomebodyLeaves
<1>3. CASE NotifyLeft
  <2>1. cpc' = WokenByChanged(cpc) /\ UNCHANGED countVars
    BY <1>3 DEF NotifyLeft
  <2> QED  BY <2>1 DEF WokenByChanged, DrainWait, NoneAdmitted
<1>4. CASE ~ \/ LeaveWrite \/ NotifyLeft
             \/ \E n \in Requests : WriteCall(n)
  <2>1. UNCHANGED <<countVars, ppc, cpc>> /\ (wpc = "leaveNotify" => UNCHANGED wpc)
    BY <1>4 DEF WriterAction, WriterStep, CheckRequest, PpsTest, SlotTest, BlockWriter,
           PreparePacket, Transmit, ReleaseReservation, FullTest, Advance,
           WriterDeadline, WakeWriter
  <2> QED  BY <2>1, DrainWaitKept
<1> QED  BY <1>1, <1>2, <1>3, <1>4

LEMMA DrainWaitByPoller ==
  ASSUME TypeInv, DrainWait, NEW p \in Pollers,
         PollCall(p) \/ PollerDeadline(p) \/ PollerStep(p)
  PROVE  DrainWait'
<1> USE DEF PollerFrame, PollerOnly, PollerAt, PollerGoto, PollerReturn
<1>0. ppc \in [Pollers -> PollerPcs]
  BY DEF TypeInv, TypeOK, PollerTypeOK
<1>1. CASE PollCall(p)
  <2>1. active_tx_status_readers' # 0 /\ cpc' = cpc
    BY <1>1, AdmittedFinite DEF PollCall, TypeInv, AdmissionCounts
  <2> QED  BY <2>1 DEF DrainWait, NoneAdmitted
<1>2. CASE LeavePoll(p)
  <2>1. ppc'[p] = "leaveNotify" /\ cpc' = cpc /\ cpc # "drainBlocking"
    BY <1>0, <1>2 DEF LeavePoll, CompletionMutexFree
  <2> QED  BY <2>1 DEF DrainWait, SomebodyLeaves
<1>3. CASE NotifyPollLeft(p)
  <2>1. cpc' = WokenByChanged(cpc) /\ UNCHANGED countVars
    BY <1>3 DEF NotifyPollLeft
  <2> QED  BY <2>1 DEF WokenByChanged, DrainWait, NoneAdmitted
<1>4. CASE PollerDeadline(p) \/ LockStatus(p) \/ CheckStart(p) \/ ReadUnderruns(p)
           \/ CompareUnderruns(p) \/ PaceTest(p)
  <2>1. UNCHANGED <<countVars, wpc, cpc>>
    BY <1>4 DEF PollerDeadline, LockStatus, CheckStart, ReadUnderruns,
                CompareUnderruns, PaceTest
  <2>2. \A q \in Pollers : ppc[q] = "leaveNotify" => ppc'[q] = "leaveNotify"
    BY <1>0, <1>4 DEF PollerDeadline, LockStatus, CheckStart, ReadUnderruns,
                CompareUnderruns, PaceTest
  <2> QED  BY <2>1, <2>2 DEF DrainWait, NoneAdmitted, SomebodyLeaves
<1> QED  BY <1>1, <1>2, <1>3, <1>4 DEF PollerStep

LEMMA DrainWaitStep ==
  ASSUME TypeInv, DrainWait, [Next]_vars
  PROVE  DrainWait'
<1>1. CASE WriterAction
  BY <1>1, DrainWaitByWriter
<1>2. CASE PollerAction
  BY <1>2, DrainWaitByPoller DEF PollerAction
<1>3. CASE CompletionAction \/ HardwareAction
  <2>1. UNCHANGED <<countVars, ppc>>
    BY <1>3, OtherAdmission
  <2>2. /\ wpc = "leaveNotify" => UNCHANGED wpc
        /\ cpc' \in {cpc, WokenByChanged(cpc)}
    BY <1>3 DEF CompletionAction, HardwareAction, Complete, NotifyCompleted, PpsEdge,
       PpsPublish, PpsNotify, Underrun, CounterReset, OthersFrame, WokenByTxCv,
       WokenByChanged
  <2>3. cpc' \in {"drainBlocking", "drainAsleep"} => UNCHANGED cpc
    BY <2>2 DEF WokenByChanged
  <2> QED  BY <2>1, <2>2, <2>3, DrainWaitKept
<1>4. CASE ControlAction
  <2>1. UNCHANGED <<countVars, ppc>>
    BY <1>4, OtherAdmission
  <2>2. wpc = "leaveNotify" => UNCHANGED wpc
    BY <1>4 DEF ControlAction, ControlStep, StopStep, SetupStream, ActivateStream,
       StartNow, ResetBaseline, ArmPps, SpawnPps, CloseGate, OpenAdmission, StopCall,
       CloseAdmission, NotifyStop, Drain, JoinPps, StopHardware, FinishStop,
       WokenByTxCv, WokenByChanged
  <2>3. CASE Drain
    BY <2>1, <2>2, <2>3 DEF Drain, DrainWait, NoneAdmitted, SomebodyLeaves
  <2>4. CASE ~ Drain
    <3>1. cpc' \notin {"drainBlocking", "drainAsleep"} \/ UNCHANGED cpc
      BY <1>4, <2>4 DEF ControlAction, ControlStep, StopStep, SetupStream,
         ActivateStream, StartNow, ResetBaseline, ArmPps, SpawnPps, CloseGate,
         OpenAdmission, StopCall, CloseAdmission, NotifyStop, JoinPps, StopHardware,
         FinishStop
    <3> QED  BY <2>1, <2>2, <3>1, DrainWaitKept
  <2> QED  BY <2>3, <2>4
<1>5. CASE UNCHANGED vars
  BY <1>5, DrainWaitKept DEF vars
<1> QED  BY <1>1, <1>2, <1>3, <1>4, <1>5, NextCases

----------------------------------------------------------------------------
WaitInv == TypeInv /\ PpsWait /\ RingWait /\ DrainWait

\* No thread of the TX path sleeps on after its wait is over with nobody left to
\* wake it: neither a writer waiting for the PPS start, its slot or the SDK, nor a
\* stop that drains, for any number of pollers and slots (TxStreaming.cpp:56-78,
\* 132-139, 202-210, 242-248, 278-282, 355-373, 425-433).
THEOREM EveryWaitIsWoken == Spec => []NoWakeupLost
<1>1. Init => WaitInv
  BY TypeInvInit DEF Init, WaitInv, PpsWait, RingWait, DrainWait
<1>2. WaitInv /\ [Next]_vars => WaitInv'
  BY TypeInvStep, PpsWaitStep, RingWaitStep, DrainWaitStep DEF WaitInv
<1>3. WaitInv => NoWakeupLost
  BY DEF WaitInv, PpsWait, PpsOver, RingWait, RingOver, DrainWait, SomebodyLeaves,
         NoWakeupLost, WakeUpComing
<1> QED  BY <1>1, <1>2, <1>3, PTL DEF Spec

----------------------------------------------------------------------------
(* Completions inside skiq_transmit *)

\* What the writer's own stream completed since the reservation is in the count
\* it compares with observed_completions.
SeenInv == InAttempt /\ tx_completion \in sdk_completed => progressed

LEMMA SeenStep ==
  ASSUME SeenInv, [Next]_vars
  PROVE  SeenInv'
<1> USE DEF SeenInv, InAttempt
<1>1. CASE WriterAction
  <2> USE DEF WriterFrame, WriterOnly, WriterAt, Return, Resume
  <2>1. CASE SlotTest \/ Advance \/ LeaveWrite
    BY <2>1 DEF SlotTest, Advance, LeaveWrite
  <2>2. CASE ~ (SlotTest \/ Advance \/ LeaveWrite)
    <3>1. UNCHANGED <<tx_completion, progressVars>>
      BY <1>1, <2>2 DEF WriterAction, WriterStep, CheckRequest, PpsTest, BlockWriter,
         PreparePacket, Transmit, ReleaseReservation, FullTest, NotifyLeft,
         WriteCall, WriterDeadline, WakeWriter
    <3>2. InAttempt' => InAttempt
      BY <1>1, <2>2 DEF WriterAction, WriterStep, CheckRequest, PpsTest, BlockWriter,
         PreparePacket, Transmit, ReleaseReservation, FullTest, NotifyLeft,
         WriteCall, WriterDeadline, WakeWriter, WokenByTxCv, WokenByChanged
    <3> QED  BY <3>1, <3>2
  <2> QED  BY <2>1, <2>2
<1>2. CASE \E g \in Streams, i \in Slots : Complete(g, i)
  <2> PICK g \in Streams, i \in Slots : Complete(g, i)
    BY <1>2
  <2>1. /\ UNCHANGED <<wpc, tx_completion>>
        /\ progressed' = (progressed \/ (InAttempt /\ g = tx_completion))
        /\ sdk_completed' = IF Holding THEN sdk_completed \cup {g} ELSE sdk_completed
    BY DEF Complete
  <2> QED  BY <2>1
<1>3. CASE SetupStream
  BY <1>3 DEF SetupStream, NoCallInProgress
<1>4. ASSUME UNCHANGED <<tx_completion, progressVars>>,
             wpc' \in {wpc, WokenByChanged(wpc), WokenByTxCv(wpc)}
      PROVE  SeenInv'
  BY <1>4 DEF WokenByChanged, WokenByTxCv
<1>5. CASE PollerAction
  BY <1>4, <1>5 DEF PollerAction, PollCall, PollerDeadline, PollerStep, LockStatus,
     CheckStart, ReadUnderruns, CompareUnderruns, PaceTest, LeavePoll, NotifyPollLeft,
     PollerFrame, PollerOnly
<1>6. CASE NotifyCompleted
  BY <1>4, <1>6 DEF NotifyCompleted
<1>7. CASE HardwareAction
  BY <1>4, <1>7 DEF HardwareAction, PpsEdge, PpsPublish, PpsNotify, Underrun,
     CounterReset, OthersFrame
<1>8. CASE ControlAction /\ ~ SetupStream
  BY <1>4, <1>8 DEF ControlAction, ControlStep, StopStep, ActivateStream, StartNow,
     ResetBaseline, ArmPps, SpawnPps, CloseGate, OpenAdmission, StopCall, CloseAdmission,
     NotifyStop, Drain, JoinPps, StopHardware, FinishStop, ControlFrame
<1>9. CASE UNCHANGED vars
  BY <1>9 DEF vars
<1> QED
  BY <1>1, <1>2, <1>3, <1>5, <1>6, <1>7, <1>8, <1>9, NextCases DEF CompletionAction

\* No writer sleeps for QUEUE_FULL through a completion of its own stream since its
\* reservation, also one inside skiq_transmit, over any number of reopened streams
\* (TxStreaming.cpp:345-373).
THEOREM NoCompletionSleptThrough == Spec => []OwnCompletionsSeen
<1>1. Init => WaitInv /\ SeenInv
  BY TypeInvInit DEF Init, WaitInv, PpsWait, RingWait, DrainWait, SeenInv
<1>2. WaitInv /\ SeenInv /\ [Next]_vars => WaitInv' /\ SeenInv'
  BY TypeInvStep, PpsWaitStep, RingWaitStep, DrainWaitStep, SeenStep DEF WaitInv
<1>3. WaitInv /\ SeenInv => OwnCompletionsSeen
  BY DEF WaitInv, RingWait, RingOver, SeenInv, InAttempt, OwnCompletionsSeen
<1> QED  BY <1>1, <1>2, <1>3, PTL DEF Spec

\* Completions inside skiq_transmit belong to streams that have been set up.
ForeignInv == sdk_completed \subseteq Streams \ {0}

LEMMA ForeignStep ==
  ASSUME OwnedInv, ForeignInv, [Next]_vars
  PROVE  ForeignInv'
<1> USE DEF ForeignInv
<1>1. CASE \E g \in Streams, i \in Slots : Complete(g, i)
  <2> PICK g \in Streams, i \in Slots : Complete(g, i)
    BY <1>1
  <2>1. /\ g # 0
        /\ sdk_completed' = IF Holding THEN sdk_completed \cup {g} ELSE sdk_completed
    BY DEF Complete, OwnedInv, GenerationInv
  <2> QED  BY <2>1
<1>2. CASE ~ \E g \in Streams, i \in Slots : Complete(g, i)
  <2>1. CASE WriterAction
    BY <2>1 DEF WriterAction, WriterStep, CheckRequest, PpsTest, SlotTest, BlockWriter,
       PreparePacket, Transmit, ReleaseReservation, FullTest, Advance, LeaveWrite, NotifyLeft,
       WriteCall, WriterDeadline, WakeWriter, WriterFrame, WriterOnly
  <2>2. CASE PollerAction \/ HardwareAction \/ UNCHANGED vars
    BY <2>2 DEF PollerAction, PollCall, PollerDeadline, PollerStep, LockStatus,
       CheckStart, ReadUnderruns, CompareUnderruns, PaceTest, LeavePoll,
       NotifyPollLeft, PollerFrame, PollerOnly, HardwareAction, PpsEdge, PpsPublish,
       PpsNotify, Underrun, CounterReset, OthersFrame, vars
  <2>3. CASE ControlAction
    BY <2>3 DEF ControlAction, ControlStep, StopStep, SetupStream, ActivateStream, StartNow,
       ResetBaseline, ArmPps, SpawnPps, CloseGate, OpenAdmission, StopCall, CloseAdmission,
       NotifyStop, Drain, JoinPps, StopHardware, FinishStop, ControlFrame
  <2>4. CASE CompletionAction
    BY <1>2, <2>4 DEF CompletionAction, NotifyCompleted
  <2> QED  BY <2>1, <2>2, <2>3, <2>4, NextCases
<1> QED  BY <1>1, <1>2

\* The comment at TxStreaming.cpp:353 is right of a device that opens one transmit
\* stream in its life: every completion is then the writer's own, and none is slept
\* through.
THEOREM OneStreamSeesCompletions ==
  ASSUME MaxStreams = 1
  PROVE  Spec => []FullWaitSeesCompletions
<1>1. OwnedInv /\ ForeignInv /\ OwnCompletionsSeen => FullWaitSeesCompletions
  <2> SUFFICES ASSUME OwnedInv, ForeignInv, OwnCompletionsSeen, wpc = "fullBlocking"
               PROVE  sdk_completed = {}
    BY DEF FullWaitSeesCompletions
  <2>1. Streams = {0, 1}
    BY DEF Streams
  <2>2. tx_completion \in Streams /\ tx_completion # 0
    BY DEF OwnedInv, TypeInv, TypeOK, StreamTypeOK, GenerationInv
  <2>3. tx_completion = 1 /\ sdk_completed \subseteq {1}
    BY <2>1, <2>2 DEF ForeignInv
  <2> QED  BY <2>3 DEF OwnCompletionsSeen
<1>2. Init => ForeignInv
  BY DEF Init, ForeignInv
<1>3. OwnedInv /\ ForeignInv /\ [Next]_vars => ForeignInv'
  BY ForeignStep
<1> QED  BY <1>1, <1>2, <1>3, OwnedInvariant, NoCompletionSleptThrough, PTL DEF Spec
=============================================================================

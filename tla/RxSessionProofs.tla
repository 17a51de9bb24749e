--------------------------- MODULE RxSessionProofs ---------------------------
(***************************************************************************)
(* Proofs about RxSession for any readers, capacity, block and request     *)
(* sizes, number of blocks and of sessions.                                *)
(*                                                                         *)
(* The argument.  OwnerInv follows the lifecycle thread: hardware runs     *)
(* exactly while it is owned, a start begins with neither hardware nor     *)
(* worker, and whoever reaches the end of a stop has joined the worker; a  *)
(* setter needs the same lock and finds nothing owned.  QueueInv says that *)
(* the queue is the end of the line of samples of the current session,     *)
(* which a push extends and a read shortens from the front.  BlockedInv    *)
(* says that a reader between its test and its sleep keeps its predicate   *)
(* false; who sleeps, who is owed a notification and which session a       *)
(* reader waits on in all follow from it.                                  *)
(***************************************************************************)
EXTENDS RxSession, SequenceTheorems, FiniteSetTheorems, TLAPS

USE DEF vars, controlVars, queueVars, workerVars, readerVars, Joinable

-----------------------------------------------------------------------------
(* Who owns hardware and worker. *)

OwnerInv ==
  /\ open \in BOOLEAN /\ active \in BOOLEAN /\ hw = active
  /\ cpc \in {"start", "startQueue", "spawn"} => open /\ ~ Joinable
  /\ cpc = "start" => ~ active /\ session_timing = timing
  /\ cpc \in {"startQueue", "spawn"} => active
  /\ cpc = "finish" => ~ Joinable
  /\ ~ open => ~ active /\ ~ Joinable
  /\ active \/ Joinable => session_timing = timing
  /\ wpc = "check" => wresult \in {"skip", "bad", "block"}

LEMMA WorkerStays ==
  ASSUME OwnerInv, WorkerStep PROVE  OwnerInv'
<1>1. Joinable /\ Joinable'
  BY DEF OwnerInv, WorkerStep, LoopTest, Receive, CheckResult, Push, NotifyPushed,
         Fail, FailQueue, NotifyFailed, WorkerAt
<1>2. UNCHANGED controlVars
  BY DEF WorkerStep, LoopTest, Receive, CheckResult, Push, NotifyPushed,
         Fail, FailQueue, NotifyFailed, WorkerFrame
<1>3. wpc' = "check" => wresult' \in {"skip", "bad", "block"}
  BY DEF OwnerInv, WorkerStep, LoopTest, Receive, CheckResult, Push, NotifyPushed,
         Fail, FailQueue, NotifyFailed, WorkerAt
<1> QED  BY <1>1, <1>2, <1>3 DEF OwnerInv

ReaderAction(r) ==
  \/ \E n \in Requests : ReadCall(r, n)
  \/ ReadWake(r) \/ ReaderStep(r)

LEMMA ReaderKeepsControl ==
  ASSUME NEW r \in Readers, ReaderAction(r)
  PROVE  UNCHANGED <<controlVars, workerVars, running, q_running, q_failed, pushed>>
BY DEF ReaderAction, ReadCall, ReadWake, ReaderStep, ReadTest, ReadSleep,
       ReadReturn, ReaderFrame

LEMMA OwnerStep == ASSUME OwnerInv, [Next]_vars PROVE OwnerInv'
<1>1. CASE \E r \in Readers : ReaderAction(r)
  BY <1>1, ReaderKeepsControl DEF OwnerInv
<1>2. CASE WorkerStep
  BY <1>2, WorkerStays
<1>3. CASE SetupStream
  BY <1>3 DEF SetupStream, LifecycleFree, Quietly, OwnerInv
<1>4. CASE Configure
  BY <1>4 DEF Configure, LifecycleFree, Inactive, Quietly, OwnerInv
<1>5. CASE Activate
  BY <1>5 DEF Activate, LifecycleFree, MayActivate, Inactive, Quietly, OwnerInv
<1>6. CASE ControlStep
  <2>1. CASE StartHardware  BY <2>1 DEF StartHardware, Quietly, OwnerInv
  <2>2. CASE StartQueue  BY <2>2 DEF StartQueue, OwnerInv
  <2>3. CASE Spawn  BY <2>3 DEF Spawn, OwnerInv
  <2>4. CASE ResetQueue  BY <2>4 DEF ResetQueue, OwnerInv
  <2>5. CASE StopRunning  BY <2>5 DEF StopRunning, OwnerInv
  <2>6. CASE StopQueue  BY <2>6 DEF StopQueue, OwnerInv
  <2>7. CASE NotifyStopped  BY <2>7 DEF NotifyStopped, OwnerInv
  <2>8. CASE StopHardware
    <3>1. /\ cpc' = "join"
          /\ UNCHANGED <<open, timing, session_timing, workerVars>>
      BY <2>8 DEF StopHardware, Quietly
    <3>2. \/ active' = FALSE /\ hw' = FALSE /\ active
          \/ UNCHANGED <<active, hw>>
      BY <2>8 DEF StopHardware, KeepFailedStop
    <3>3. CASE active' = FALSE /\ hw' = FALSE /\ active
      BY <3>1, <3>3 DEF OwnerInv
    <3>4. CASE UNCHANGED <<active, hw>>
      BY <3>1, <3>4 DEF OwnerInv
    <3> QED  BY <3>2, <3>3, <3>4
  <2>9. CASE Join  BY <2>9 DEF Join, OwnerInv
  <2>10. CASE Finish  BY <2>10 DEF Finish, KeepsToken, Quietly, OwnerInv
  <2> QED
    BY <1>6, <2>1, <2>2, <2>3, <2>4, <2>5, <2>6, <2>7, <2>8, <2>9, <2>10 DEF ControlStep
<1>7. CASE \E op \in {"deactivate", "close", "shutdown"} : StopCall(op)
  BY <1>7 DEF StopCall, LifecycleFree, Inactive, Quietly, OwnerInv
<1>8. CASE UNCHANGED vars
  BY <1>8 DEF OwnerInv
<1> QED
  BY <1>1, <1>2, <1>3, <1>4, <1>5, <1>6, <1>7, <1>8 DEF Next, Quiet, ReaderAction

LEMMA OwnerInvariant == Spec => []OwnerInv
<1>1. Init => OwnerInv
  BY DEF Init, OwnerInv
<1> QED  BY <1>1, OwnerStep, PTL DEF Spec

\* Hardware and worker have one owner: hardware is started only from rest, and no
\* stream is closed over hardware that runs or a thread not joined, whatever starts,
\* spawns and stops have failed (RxStreamSession.cpp:68-110, 116-145,
\* Streaming.cpp:241-263).
THEOREM HardwareKeepsOwner == Spec => []HardwareOwned
<1>1. OwnerInv => HardwareOwned
  BY DEF OwnerInv, HardwareOwned
<1> QED  BY <1>1, OwnerInvariant, PTL

\* A session converts timestamps with the timing the device has: no setter comes
\* between its capture and the start, or in while RX owns hardware or worker
\* (RxStreamSession.cpp:35-50).
THEOREM SessionTimingStable == Spec => []TimingStable
<1>1. OwnerInv => TimingStable
  BY DEF OwnerInv, TimingStable
<1> QED  BY <1>1, OwnerInvariant, PTL

-----------------------------------------------------------------------------
(* The queue's operators. *)

Blocks == [start : Nat, offset : Nat, session : Nat]

\* The line of samples up to block p ends with the blocks of q.
LineEnd(q, p) ==
  /\ Len(q) <= p
  /\ \A k \in 1 .. Len(q) :
       /\ q[k].start = (p - Len(q) + k - 1) * BlockSamples
       /\ q[k].offset < BlockSamples
       /\ k > 1 => q[k].offset = 0

AllOf(q, s) == \A k \in 1 .. Len(q) : q[k].session = s

\* The next sample a read returns.
Position(q, p) == IF q = <<>> THEN p * BlockSamples ELSE Head(q).start + Head(q).offset

LEMMA Sizes == /\ Capacity \in Nat \ {0} /\ BlockSamples \in Nat \ {0}
               /\ Requests \subseteq Nat \ {0}
BY RxSessionAssumption

LEMMA ProductTyped == ASSUME NEW x \in Nat, NEW y \in Nat PROVE x * y \in Nat
OBVIOUS

LEMMA Division ==
  ASSUME NEW a \in Nat, NEW b \in Nat \ {0}
  PROVE  /\ a \div b \in Nat /\ a % b \in Nat /\ a % b < b
         /\ a = (a \div b) * b + (a % b)
BY SMTT(30)

LEMMA ProductMonotone ==
  ASSUME NEW x \in Nat, NEW y \in Nat, NEW z \in Nat, x <= y
  PROVE  x * z <= y * z
<1>1. PICK k \in Nat : y = x + k
  <2>1. y - x \in Nat /\ y = x + (y - x)  OBVIOUS
  <2> QED  BY <2>1
<1>2. y * z = x * z + k * z  BY <1>1
<1>3. k * z >= 0  OBVIOUS
<1>4. x * z \in Nat /\ y * z \in Nat /\ k * z \in Nat  OBVIOUS
<1> QED  BY <1>2, <1>3, <1>4

\* A block of m whole blocks and something more has m as its quotient.
LEMMA QuotientIs ==
  ASSUME NEW m \in Nat, NEW o \in Nat, NEW b \in Nat \ {0}, o < b
  PROVE  (m * b + o) \div b = m
BY SMTT(30)

LEMMA PushLine ==
  ASSUME NEW q \in Seq(Blocks), NEW p \in Nat, NEW s \in Nat,
         LineEnd(q, p), Len(q) <= Capacity,
         NEW r, r = PushBlock(q, Block(s, p))
  PROVE  /\ r \in Seq(Blocks) /\ r # <<>>
         /\ Len(r) = IF Len(q) = Capacity THEN Capacity ELSE Len(q) + 1
         /\ LineEnd(r, p + 1)
         /\ AllOf(q, s) => AllOf(r, s)
         /\ r[1].offset = IF q # <<>> /\ Len(q) < Capacity THEN q[1].offset ELSE 0
<1> DEFINE full == Len(q) = Capacity
           d == IF full THEN 1 ELSE 0
           t == IF full THEN Tail(q) ELSE q
           b == Block(s, p)
<1>1. Len(q) \in Nat /\ d \in Nat /\ d <= Len(q)
  BY Sizes
<1>2. t \in Seq(Blocks) /\ Len(t) = Len(q) - d
  BY Sizes
<1>3. \A k \in 1 .. Len(t) : k + d \in 1 .. Len(q) /\ t[k] = q[k + d]
  BY Sizes
<1>4. b \in Blocks /\ b.start = p * BlockSamples /\ b.offset = 0 /\ b.session = s
  BY Sizes, ProductTyped DEF Block, Blocks
<1>5. r = Append(t, b)
  BY DEF PushBlock
<1> HIDE DEF t, b
<1>6. r \in Seq(Blocks) /\ Len(r) = Len(t) + 1 /\ r[Len(t) + 1] = b
  BY <1>2, <1>4, <1>5
<1>7. \A k \in 1 .. Len(t) : r[k] = t[k]
  BY <1>2, <1>4, <1>5
<1>8. LineEnd(r, p + 1)
  <2>1. Len(r) <= p + 1
    BY <1>1, <1>2, <1>6 DEF LineEnd
  <2>2. ASSUME NEW k \in 1 .. Len(r)
        PROVE  /\ r[k].start = (p + 1 - Len(r) + k - 1) * BlockSamples
               /\ r[k].offset < BlockSamples
               /\ k > 1 => r[k].offset = 0
    <3>1. CASE k \in 1 .. Len(t)
      <4>1. r[k] = q[k + d] /\ k + d \in 1 .. Len(q)
        BY <3>1, <1>3, <1>7
      <4>2. p - Len(q) + (k + d) - 1 = p + 1 - Len(r) + k - 1
        BY <1>1, <1>2, <1>6, <3>1
      <4>3. /\ q[k + d].start = (p - Len(q) + (k + d) - 1) * BlockSamples
            /\ q[k + d].offset < BlockSamples
            /\ k + d > 1 => q[k + d].offset = 0
        BY <4>1 DEF LineEnd
      <4> QED  BY <4>1, <4>2, <4>3, <1>1, <3>1
    <3>2. CASE k = Len(t) + 1
      <4>1. p + 1 - Len(r) + k - 1 = p
        BY <1>1, <1>2, <1>6, <3>2
      <4> QED  BY <4>1, <1>4, <1>6, <3>2, Sizes
    <3> QED  BY <3>1, <3>2, <1>2, <1>6
  <2> QED  BY <2>1, <2>2 DEF LineEnd
<1>9. AllOf(q, s) => AllOf(r, s)
  <2> SUFFICES ASSUME AllOf(q, s), NEW k \in 1 .. Len(r) PROVE r[k].session = s
    BY DEF AllOf
  <2>1. CASE k \in 1 .. Len(t)
    BY <2>1, <1>3, <1>7 DEF AllOf
  <2>2. CASE k = Len(t) + 1
    BY <2>2, <1>4, <1>6
  <2> QED  BY <2>1, <2>2, <1>2, <1>6
<1>10. r # <<>>
  BY <1>2, <1>6
<1>11. r[1].offset = IF q # <<>> /\ Len(q) < Capacity THEN q[1].offset ELSE 0
  <2>1. CASE Len(t) = 0
    <3>1. q = <<>> \/ full  BY <2>1, <1>1, <1>2
    <3>2. r[1].offset = 0  BY <2>1, <1>4, <1>6
    <3> QED  BY <3>1, <3>2
  <2>2. CASE Len(t) > 0
    <3>1. 1 \in 1 .. Len(t) /\ r[1] = q[1 + d] /\ 1 + d \in 1 .. Len(q)
      BY <2>2, <1>2, <1>3, <1>7
    <3>2. CASE full
      <4>1. q[1 + d].offset = 0  BY <3>1, <3>2, <1>1 DEF LineEnd
      <4> QED  BY <4>1, <3>1, <3>2
    <3>3. CASE ~ full
      <4>1. q # <<>> /\ Len(q) < Capacity  BY <3>1, <3>3, <1>1, Sizes
      <4> QED  BY <4>1, <3>1, <3>3
    <3> QED  BY <3>2, <3>3
  <2>3. Len(t) \in Nat
    BY <1>2
  <2> HIDE DEF full, d
  <2> QED  BY <2>1, <2>2, <2>3
<1>12. Len(r) = IF full THEN Capacity ELSE Len(q) + 1
  BY <1>1, <1>2, <1>6, Sizes
<1> QED
  BY <1>6, <1>8, <1>9, <1>10, <1>11, <1>12 DEF b

LEMMA TakeLine ==
  ASSUME NEW q \in Seq(Blocks), NEW p \in Nat, LineEnd(q, p), q # <<>>,
         NEW n \in Nat, n <= Unread(q),
         NEW r, r = Take(q, n)
  PROVE  /\ r \in Seq(Blocks) /\ Len(r) <= Len(q)
         /\ LineEnd(r, p)
         /\ \A s : AllOf(q, s) => AllOf(r, s)
         /\ Position(r, p) = Position(q, p) + n
<1> DEFINE L == Len(q)
           end == q[1].offset + n
           w == end \div BlockSamples
           o == end % BlockSamples
           rest == SubSeq(q, w + 1, L)
<1>1. L \in Nat /\ L >= 1 /\ Head(q) = q[1] /\ q[1] \in Blocks /\ L <= p
  BY DEF LineEnd
<1>2. end \in Nat
  BY <1>1 DEF Blocks
<1>3. /\ w \in Nat /\ o \in Nat /\ o < BlockSamples
      /\ end = w * BlockSamples + o
  BY <1>2, Division, Sizes
<1>4. end <= L * BlockSamples
  <2>1. Unread(q) = L * BlockSamples - q[1].offset
    BY <1>1 DEF Unread
  <2>2. L * BlockSamples \in Nat /\ q[1].offset \in Nat
    BY <1>1, Sizes, ProductTyped DEF Blocks
  <2> QED  BY <2>1, <2>2
<1> HIDE DEF L, end, w, o
<1>5. w <= L
  <2> SUFFICES ASSUME w >= L + 1 PROVE FALSE
    BY <1>1, <1>3
  <2>1. (L + 1) * BlockSamples <= w * BlockSamples
    BY <1>1, <1>3, Sizes, ProductMonotone
  <2>2. (L + 1) * BlockSamples = L * BlockSamples + BlockSamples
    BY <1>1, Sizes
  <2>3. w * BlockSamples \in Nat /\ L * BlockSamples \in Nat
    BY <1>1, <1>3, Sizes, ProductTyped
  <2> QED  BY <2>1, <2>2, <2>3, <1>3, <1>4, Sizes
<1>6. /\ q[1].start = (p - L) * BlockSamples
      /\ Position(q, p) + n = (p - L) * BlockSamples + end
  <2>1. q[1].start = (p - L + 1 - 1) * BlockSamples
    BY <1>1 DEF LineEnd, L
  <2>2. p - L + 1 - 1 = p - L
    BY <1>1
  <2>3. Position(q, p) = q[1].start + q[1].offset
    BY <1>1 DEF Position
  <2>4. (p - L) * BlockSamples \in Nat /\ q[1].offset \in Nat
    BY <1>1, Sizes, ProductTyped DEF Blocks
  <2> QED  BY <2>1, <2>2, <2>3, <2>4 DEF end
<1>7. (p - L) * BlockSamples + w * BlockSamples = (p - L + w) * BlockSamples
  BY <1>1, <1>3, Sizes
<1>8. /\ rest \in Seq(Blocks) /\ Len(rest) = L - w
      /\ \A k \in 1 .. (L - w) : rest[k] = q[w + k] /\ w + k \in 1 .. L
  BY <1>1, <1>3, <1>5 DEF L
<1>9. r = IF rest = <<>> THEN rest ELSE [rest EXCEPT ![1].offset = o]
  BY <1>1 DEF Take, rest, L, w, o, end
<1> HIDE DEF rest
<1>10. CASE w = L
  <2>1. r = <<>>
    BY <1>8, <1>9, <1>10, <1>1
  <2>2. p * BlockSamples = (p - L) * BlockSamples + end
    <3>1. end = L * BlockSamples
      <4>1. L * BlockSamples \in Nat
        BY <1>1, Sizes, ProductTyped
      <4> QED  BY <4>1, <1>3, <1>4, <1>10, Sizes
    <3>2. p - L + w = p
      BY <1>1, <1>10
    <3> QED  BY <3>1, <3>2, <1>7, <1>10
  <2> QED
    BY <2>1, <2>2, <1>1, <1>6 DEF LineEnd, AllOf, Position, L
<1>11. CASE w < L
  <2>1. rest # <<>> /\ r = [rest EXCEPT ![1].offset = o]
    BY <1>8, <1>9, <1>11, <1>1, <1>3
  <2>2. /\ r \in Seq(Blocks) /\ Len(r) = L - w
        /\ r[1] = [rest[1] EXCEPT !.offset = o]
        /\ \A k \in 2 .. (L - w) : r[k] = rest[k]
    <3>1. 1 \in 1 .. Len(rest) /\ rest[1] \in Blocks
      BY <1>1, <1>3, <1>8, <1>11
    <3>2. [rest[1] EXCEPT !.offset = o] \in Blocks
      BY <3>1, <1>3 DEF Blocks
    <3>3. r = [rest EXCEPT ![1] = [rest[1] EXCEPT !.offset = o]]
      BY <2>1
    <3>4. r \in Seq(Blocks) /\ Len(r) = Len(rest)
      BY <3>1, <3>2, <3>3, <1>8, ExceptSeq
    <3>5. \A k \in 1 .. Len(rest) :
            r[k] = IF k = 1 THEN [rest[1] EXCEPT !.offset = o] ELSE rest[k]
      BY <3>1, <3>3, <1>8
    <3>6. \A k \in 2 .. (L - w) : k \in 1 .. Len(rest) /\ k # 1
      BY <1>1, <1>3, <1>8
    <3> QED  BY <3>1, <3>4, <3>5, <3>6, <1>8
  <2>3. 1 \in 1 .. (L - w) /\ rest[1] \in Blocks
    BY <1>1, <1>3, <1>8, <1>11
  <2>4. /\ r[1].offset = o /\ r[1].start = rest[1].start
        /\ r[1].session = rest[1].session
    BY <2>2, <2>3 DEF Blocks
  <2>5. \A k \in 1 .. (L - w) : rest[k].start = (p - (L - w) + k - 1) * BlockSamples
    <3> SUFFICES ASSUME NEW k \in 1 .. (L - w)
                 PROVE  rest[k].start = (p - (L - w) + k - 1) * BlockSamples
      OBVIOUS
    <3>1. q[w + k].start = (p - L + (w + k) - 1) * BlockSamples
      BY <1>8 DEF LineEnd, L
    <3>2. p - L + (w + k) - 1 = p - (L - w) + k - 1
      BY <1>1, <1>3
    <3> QED  BY <3>1, <3>2, <1>8
  <2>6. LineEnd(r, p)
    <3>1. L - w <= p
      BY <1>1, <1>3
    <3>2. ASSUME NEW k \in 1 .. (L - w)
          PROVE  /\ r[k].start = (p - (L - w) + k - 1) * BlockSamples
                 /\ r[k].offset < BlockSamples
                 /\ k > 1 => r[k].offset = 0
      <4>1. CASE k = 1
        BY <4>1, <2>4, <2>5, <1>3
      <4>2. CASE k > 1
        <5>1. r[k] = rest[k] /\ rest[k] = q[w + k] /\ w + k \in 1 .. L /\ w + k > 1
          BY <4>2, <2>2, <1>8, <1>3
        <5>2. q[w + k].offset = 0
          BY <5>1 DEF LineEnd, L
        <5> QED  BY <5>1, <5>2, <2>5, Sizes
      <4> QED  BY <4>1, <4>2
    <3> QED  BY <3>1, <3>2, <2>2 DEF LineEnd
  <2>7. ASSUME NEW s, AllOf(q, s) PROVE AllOf(r, s)
    <3>1. ASSUME NEW k \in 1 .. (L - w) PROVE r[k].session = s
      <4>1. rest[k].session = s
        BY <2>7, <1>8 DEF AllOf, L
      <4>2. CASE k = 1
        BY <4>1, <4>2, <2>4
      <4>3. CASE k > 1
        BY <4>1, <4>3, <2>2, <1>1, <1>3
      <4> QED  BY <4>2, <4>3
    <3> QED  BY <3>1, <2>2 DEF AllOf
  <2>8. Position(r, p) = (p - L) * BlockSamples + end
    <3>1. r # <<>> /\ Head(r) = r[1]
      BY <2>2, <2>3
    <3>2. p - (L - w) + 1 - 1 = p - L + w
      BY <1>1, <1>3
    <3>3. r[1].start = (p - L + w) * BlockSamples
      BY <2>3, <2>4, <2>5, <3>2
    <3>4. (p - L) * BlockSamples \in Nat /\ w * BlockSamples \in Nat
      BY <1>1, <1>3, Sizes, ProductTyped
    <3> QED  BY <3>1, <3>3, <3>4, <2>4, <1>3, <1>7 DEF Position
  <2> QED
    BY <2>2, <2>6, <2>7, <2>8, <1>1, <1>3, <1>6 DEF L
<1> QED  BY <1>1, <1>3, <1>5, <1>10, <1>11

-----------------------------------------------------------------------------
(* What a reader asks for, and what the queue holds. *)

RequestInv ==
  /\ rpc \in [Readers -> {"idle", "test", "blocking", "asleep", "returned"}]
  /\ rrequest \in [Readers -> Nat]
  /\ \A r \in Readers : rpc[r] \in {"test", "blocking", "asleep"} =>
       rrequest[r] \in Requests

QueueInv ==
  /\ pushed \in Nat /\ session \in Nat /\ blocks \in Seq(Blocks)
  /\ Len(blocks) <= Capacity
  /\ LineEnd(blocks, pushed)
  /\ cpc # "startQueue" => AllOf(blocks, session)
  /\ Joinable => wsession = session

LEMMA WakesKeepRequests ==
  ASSUME RequestInv, UNCHANGED rrequest, NotifyAll \/ NotifyOne \/ UNCHANGED rpc
  PROVE  RequestInv'
BY DEF RequestInv, NotifyAll, NotifyOne, Sleepers

LEMMA ReaderKeepsRequests ==
  ASSUME RequestInv, NEW r \in Readers, ReaderAction(r)
  PROVE  RequestInv'
<1>1. ASSUME NEW n \in Requests, ReadCall(r, n) PROVE RequestInv'
  BY <1>1, Sizes DEF ReadCall, ReaderGoto, RequestInv
<1>2. CASE ReadWake(r)
  BY <1>2 DEF ReadWake, ReaderAt, ReaderGoto, RequestInv
<1>3. CASE ReadTest(r)
  <2>1. /\ UNCHANGED rrequest /\ rpc[r] = "test"
        /\ \E pc \in {"blocking", "returned"} : rpc' = [rpc EXCEPT ![r] = pc]
    BY <1>3 DEF ReadTest, ReaderAt, ReaderGoto, Answer
  <2> QED  BY <2>1 DEF RequestInv
<1>4. CASE ReadSleep(r)
  BY <1>4 DEF ReadSleep, ReaderAt, ReaderGoto, RequestInv
<1>5. CASE ReadReturn(r)
  BY <1>5 DEF ReadReturn, ReaderAt, ReaderGoto, RequestInv
<1> QED  BY <1>1, <1>2, <1>3, <1>4, <1>5 DEF ReaderAction, ReaderStep

LEMMA RequestStep == ASSUME RequestInv, [Next]_vars PROVE RequestInv'
<1>1. CASE \E r \in Readers : ReaderAction(r)
  BY <1>1, ReaderKeepsRequests
<1>2. CASE WorkerStep
  <2>1. UNCHANGED rrequest /\ (NotifyAll \/ NotifyOne \/ UNCHANGED rpc)
    BY <1>2 DEF WorkerStep, LoopTest, Receive, CheckResult, Push, NotifyPushed,
         Fail, FailQueue, NotifyFailed, WorkerFrame
  <2> QED  BY <2>1, WakesKeepRequests
<1>3. CASE ControlStep
  <2>1. UNCHANGED rrequest /\ (NotifyAll \/ UNCHANGED rpc)
    BY <1>3 DEF ControlStep, StartHardware, StartQueue, Spawn, ResetQueue, StopRunning,
         StopQueue, NotifyStopped, StopHardware, Join, Finish, Quietly, ControlFrame
  <2> QED  BY <2>1, WakesKeepRequests
<1>4. CASE \/ SetupStream \/ Configure \/ Activate \/ UNCHANGED vars
           \/ \E op \in {"deactivate", "close", "shutdown"} : StopCall(op)
  <2>1. UNCHANGED <<rrequest, rpc>>
    BY <1>4 DEF SetupStream, Configure, Activate, StopCall, Quietly, ControlFrame
  <2> QED  BY <2>1, WakesKeepRequests
<1> QED  BY <1>1, <1>2, <1>3, <1>4 DEF Next, Quiet, ReaderAction

LEMMA RequestInvariant == Spec => []RequestInv
<1>1. Init => RequestInv
  BY DEF Init, RequestInv
<1> QED  BY <1>1, RequestStep, PTL DEF Spec

\* How much a read may take, and that it can take something.
LEMMA UnreadBounds ==
  ASSUME NEW q \in Seq(Blocks), NEW p \in Nat, LineEnd(q, p), q # <<>>
  PROVE  /\ Unread(q) \in Nat \ {0}
         /\ Position(q, p) \in Nat
         /\ Unread(q) = p * BlockSamples - Position(q, p)
<1> DEFINE L == Len(q)
<1>1. L \in Nat /\ L >= 1 /\ Head(q) = q[1] /\ q[1] \in Blocks /\ L <= p
  BY DEF LineEnd
<1>2. q[1].start = (p - L + 1 - 1) * BlockSamples /\ q[1].offset < BlockSamples
  BY <1>1 DEF LineEnd
<1> HIDE DEF L
<1>3. p - L + 1 - 1 = p - L /\ p - L \in Nat
  BY <1>1
<1>4. p * BlockSamples = (p - L) * BlockSamples + L * BlockSamples
  BY <1>1, <1>3, Sizes
<1>5. 1 * BlockSamples <= L * BlockSamples
  BY <1>1, Sizes, ProductMonotone
<1>6. /\ (p - L) * BlockSamples \in Nat /\ L * BlockSamples \in Nat
      /\ 1 * BlockSamples = BlockSamples /\ p * BlockSamples \in Nat
  BY <1>1, <1>3, Sizes, ProductTyped
<1>7. q[1].offset \in Nat
  BY <1>1 DEF Blocks
<1>8. Unread(q) = L * BlockSamples - q[1].offset
  BY <1>1 DEF Unread, L
<1>9. Position(q, p) = (p - L) * BlockSamples + q[1].offset
  BY <1>1, <1>2, <1>3 DEF Position
<1>10. /\ L * BlockSamples - q[1].offset \in Nat \ {0}
       /\ (p - L) * BlockSamples + q[1].offset \in Nat
  BY <1>2, <1>5, <1>6, <1>7, Sizes
<1>11. L * BlockSamples - q[1].offset
         = p * BlockSamples - ((p - L) * BlockSamples + q[1].offset)
  BY <1>4, <1>6, <1>7
<1> QED  BY <1>8, <1>9, <1>10, <1>11

\* What ReadTest does to the queue when there is something in it.
LEMMA ReadTakes ==
  ASSUME RequestInv, QueueInv, NEW r \in Readers, ReadTest(r), blocks # <<>>
  PROVE  /\ rrequest[r] \in Requests /\ Unread(blocks) \in Nat \ {0}
         /\ \/ UNCHANGED blocks /\ Head(blocks).offset # 0
            \/ \E n \in 1 .. Unread(blocks) :
                  /\ blocks' = Take(blocks, n)
                  /\ n \in {rrequest[r], Unread(blocks)}
<1> DEFINE n == IF rrequest[r] < Unread(blocks) THEN rrequest[r] ELSE Unread(blocks)
<1>1. \/ UNCHANGED blocks /\ Head(blocks).offset # 0
      \/ blocks' = Take(blocks, n)
  BY DEF ReadTest, Ready
<1>2. rrequest[r] \in Requests
  BY DEF ReadTest, ReaderAt, RequestInv
<1>3. Unread(blocks) \in Nat \ {0}
  BY UnreadBounds DEF QueueInv
<1>4. n \in 1 .. Unread(blocks) /\ n \in {rrequest[r], Unread(blocks)}
  <2>1. rrequest[r] \in Nat /\ rrequest[r] # 0
    BY <1>2, Sizes
  <2>2. CASE rrequest[r] < Unread(blocks)
    BY <2>1, <2>2, <1>3
  <2>3. CASE ~ rrequest[r] < Unread(blocks)
    BY <2>3, <1>3
  <2> QED  BY <2>2, <2>3
<1> QED  BY <1>1, <1>2, <1>3, <1>4

LEMMA ReaderMoves ==
  ASSUME RequestInv, QueueInv, NEW r \in Readers, ReaderAction(r)
  PROVE  \/ UNCHANGED blocks
         \/ blocks # <<>> /\ \E n \in 1 .. Unread(blocks) : blocks' = Take(blocks, n)
<1>1. CASE ReadTest(r)
  <2>1. CASE blocks = <<>>
    BY <1>1, <2>1 DEF ReadTest
  <2> QED  BY <1>1, <2>1, ReadTakes
<1>2. CASE ~ ReadTest(r)
  BY <1>2 DEF ReaderAction, ReaderStep, ReadCall, ReadWake, ReadSleep, ReadReturn
<1> QED  BY <1>1, <1>2

\* What a worker step does to the queue.
LEMMA WorkerMoves ==
  ASSUME WorkerStep
  PROVE  \/ UNCHANGED <<blocks, pushed>>
         \/ blocks' = PushBlock(blocks, Block(wsession, pushed)) /\ pushed' = pushed + 1
BY DEF WorkerStep, LoopTest, Receive, CheckResult, Push, NotifyPushed,
       Fail, FailQueue, NotifyFailed

\* What a step of the lock's holder does to the queue.
LEMMA ControlMoves ==
  ASSUME ControlStep
  PROVE  \/ UNCHANGED <<blocks, pushed>>
         \/ blocks' = <<>> /\ pushed' = 0
BY DEF ControlStep, StartHardware, StartQueue, Spawn, ResetQueue, StopRunning, StopQueue,
       NotifyStopped, StopHardware, Join, Finish, Quietly, StartEmpty

LEMMA EmptyLine ==
  /\ <<>> \in Seq(Blocks) /\ Len(<<>>) <= Capacity /\ LineEnd(<<>>, 0)
  /\ \A s : AllOf(<<>>, s)
BY Sizes DEF LineEnd, AllOf

LEMMA QueueStep ==
  ASSUME OwnerInv, RequestInv, QueueInv, [Next]_vars PROVE QueueInv'
<1>1. ASSUME NEW r \in Readers, ReaderAction(r) PROVE QueueInv'
  <2>1. UNCHANGED <<pushed, session, cpc, wpc, wsession>>
    BY <1>1, ReaderKeepsControl
  <2>2. CASE UNCHANGED blocks
    BY <2>1, <2>2 DEF QueueInv
  <2>3. ASSUME blocks # <<>>, NEW n \in 1 .. Unread(blocks), blocks' = Take(blocks, n)
        PROVE  QueueInv'
    <3>1. Unread(blocks) \in Nat
      BY <2>3, UnreadBounds DEF QueueInv
    <3>2. n \in Nat /\ n <= Unread(blocks)
      BY <3>1
    <3>3. /\ blocks' \in Seq(Blocks) /\ Len(blocks') <= Len(blocks)
          /\ LineEnd(blocks', pushed)
          /\ \A s : AllOf(blocks, s) => AllOf(blocks', s)
      BY <2>3, <3>2, TakeLine DEF QueueInv
    <3>4. Len(blocks') <= Capacity
      BY <3>3, Sizes DEF QueueInv
    <3> QED  BY <2>1, <3>3, <3>4 DEF QueueInv
  <2> QED  BY <1>1, <2>2, <2>3, ReaderMoves
<1>2. CASE WorkerStep
  <2>1. UNCHANGED <<session, cpc, wsession>> /\ Joinable /\ Joinable'
    BY <1>2 DEF WorkerStep, LoopTest, Receive, CheckResult, Push, NotifyPushed, Fail,
         FailQueue, NotifyFailed, WorkerAt, WorkerFrame, OwnerInv
  <2>2. CASE UNCHANGED <<blocks, pushed>>
    BY <2>1, <2>2 DEF QueueInv
  <2>3. CASE blocks' = PushBlock(blocks, Block(wsession, pushed)) /\ pushed' = pushed + 1
    <3>1. wsession = session /\ session \in Nat /\ pushed \in Nat
      BY <2>1 DEF QueueInv
    <3>2. cpc # "startQueue"
      BY <2>1 DEF OwnerInv
    <3>3. /\ blocks' \in Seq(Blocks)
          /\ Len(blocks') = IF Len(blocks) = Capacity THEN Capacity ELSE Len(blocks) + 1
          /\ LineEnd(blocks', pushed + 1)
          /\ AllOf(blocks, session) => AllOf(blocks', session)
      BY <2>3, <3>1, PushLine DEF QueueInv
    <3>4. Len(blocks') <= Capacity
      BY <3>3, Sizes DEF QueueInv
    <3> QED  BY <2>1, <2>3, <3>1, <3>2, <3>3, <3>4 DEF QueueInv
  <2> QED  BY <1>2, <2>2, <2>3, WorkerMoves
<1>3. CASE ControlStep
  <2>1. CASE StartHardware
    BY <2>1 DEF StartHardware, Quietly, QueueInv, OwnerInv
  <2>2. CASE StartQueue
    BY <2>2, EmptyLine DEF StartQueue, StartEmpty, ControlFrame, QueueInv
  <2>3. CASE ResetQueue
    BY <2>3, EmptyLine DEF ResetQueue, ControlFrame, QueueInv
  <2>4. CASE Spawn
    BY <2>4 DEF Spawn, QueueInv, OwnerInv
  <2>5. CASE StopRunning \/ StopQueue \/ NotifyStopped \/ StopHardware \/ Join \/ Finish
    <3>1. UNCHANGED <<blocks, pushed, session, wsession>>
      BY <2>5 DEF StopRunning, StopQueue, NotifyStopped, StopHardware, Join, Finish, Quietly
    <3>2. cpc # "startQueue" /\ (Joinable' => Joinable)
      BY <2>5 DEF StopRunning, StopQueue, NotifyStopped, StopHardware, Join, Finish, Quietly
    <3> QED  BY <3>1, <3>2 DEF QueueInv
  <2> QED  BY <1>3, <2>1, <2>2, <2>3, <2>4, <2>5 DEF ControlStep
<1>4. CASE SetupStream \/ Configure
  BY <1>4 DEF SetupStream, Configure, Quietly, QueueInv
<1>5. CASE Activate
  BY <1>5 DEF Activate, LifecycleFree, Quietly, QueueInv
<1>6. CASE \E op \in {"deactivate", "close", "shutdown"} : StopCall(op)
  BY <1>6 DEF StopCall, LifecycleFree, Quietly, QueueInv
<1>7. CASE UNCHANGED vars
  BY <1>7 DEF QueueInv
<1> QED
  BY <1>1, <1>2, <1>3, <1>4, <1>5, <1>6, <1>7 DEF Next, Quiet, ReaderAction

LEMMA QueueStart == Init => QueueInv
BY EmptyLine DEF Init, QueueInv

LEMMA QueueInvariant == Spec => [](OwnerInv /\ RequestInv /\ QueueInv)
<1>1. Spec => []QueueInv
  BY QueueStart, OwnerInvariant, RequestInvariant, QueueStep, PTL DEF Spec
<1> QED  BY <1>1, OwnerInvariant, RequestInvariant, PTL

\* The queue holds, in order and without a hole, the last blocks of the session
\* whose hardware start came last, only the front one partly read
\* (RxSampleQueue.cpp:25-33, 109-144, 203-220).
THEOREM QueueKeepsLine == Spec => []QueueWellFormed
<1>1. QueueInv => QueueWellFormed
  BY DEF QueueInv, LineEnd, AllOf, QueueWellFormed
<1> QED  BY <1>1, QueueInvariant, PTL

-----------------------------------------------------------------------------
(* The refinement. *)

FrontOffset(q) == IF q = <<>> THEN 0 ELSE q[1].offset

LEMMA LineStart ==
  ASSUME NEW q \in Seq(Blocks), NEW p \in Nat, LineEnd(q, p)
  PROVE  /\ Position(q, p) = (p - Len(q)) * BlockSamples + FrontOffset(q)
         /\ Position(q, p) \div BlockSamples = p - Len(q)
         /\ (p * BlockSamples) \div BlockSamples = p
<1> DEFINE o == FrontOffset(q)
           m == p - Len(q)
<1>1. m \in Nat
  BY DEF LineEnd
<1>2. o \in Nat /\ o < BlockSamples
  <2>1. CASE q = <<>>
    BY <2>1, Sizes DEF FrontOffset
  <2>2. CASE q # <<>>
    <3>1. 1 \in 1 .. Len(q) /\ q[1] \in Blocks  BY <2>2
    <3> QED  BY <2>2, <3>1 DEF FrontOffset, LineEnd, Blocks
  <2> QED  BY <2>1, <2>2
<1>3. Position(q, p) = m * BlockSamples + o
  <2>1. CASE q = <<>>
    <3>1. m = p /\ o = 0  BY <2>1 DEF FrontOffset
    <3>2. p * BlockSamples \in Nat  BY Sizes, ProductTyped
    <3> QED  BY <2>1, <3>1, <3>2 DEF Position
  <2>2. CASE q # <<>>
    <3>1. /\ 1 \in 1 .. Len(q) /\ Head(q) = q[1]
          /\ p - Len(q) + 1 - 1 = m
      BY <2>2, <1>1
    <3>2. q[1].start = (p - Len(q) + 1 - 1) * BlockSamples
      BY <3>1 DEF LineEnd
    <3> QED  BY <2>2, <3>1, <3>2 DEF Position, FrontOffset
  <2> QED  BY <2>1, <2>2
<1> HIDE DEF o, m
<1>4. (m * BlockSamples + o) \div BlockSamples = m
  BY <1>1, <1>2, Sizes, QuotientIs
<1>5. (p * BlockSamples) \div BlockSamples = p
  <2>1. (p * BlockSamples + 0) \div BlockSamples = p
    BY Sizes, QuotientIs
  <2>2. p * BlockSamples + 0 = p * BlockSamples
    BY Sizes, ProductTyped
  <2> QED  BY <2>1, <2>2
<1> QED  BY <1>3, <1>4, <1>5 DEF o, m

LEMMA PushPosition ==
  ASSUME NEW q \in Seq(Blocks), NEW p \in Nat, NEW s \in Nat,
         LineEnd(q, p), Len(q) <= Capacity,
         NEW r, r = PushBlock(q, Block(s, p))
  PROVE  Position(r, p + 1) = IF Len(q) = Capacity THEN (p - Len(q) + 1) * BlockSamples
                                                   ELSE Position(q, p)
<1> DEFINE L == Len(q)
<1>1. L \in Nat /\ L <= p
  BY DEF LineEnd
<1>2. Position(q, p) = (p - L) * BlockSamples + FrontOffset(q)
  BY LineStart
<1>3. /\ r \in Seq(Blocks) /\ r # <<>>
      /\ Len(r) = IF L = Capacity THEN Capacity ELSE L + 1
      /\ LineEnd(r, p + 1)
      /\ r[1].offset = IF q # <<>> /\ L < Capacity THEN q[1].offset ELSE 0
  BY PushLine
<1>4. Position(r, p + 1) = (p + 1 - Len(r)) * BlockSamples + FrontOffset(r)
  <2>1. p + 1 \in Nat  OBVIOUS
  <2> QED  BY <1>3, <2>1, LineStart
<1>5. FrontOffset(r) = r[1].offset
  BY <1>3 DEF FrontOffset
<1>6. CASE L = Capacity
  <2>1. FrontOffset(r) = 0 /\ p + 1 - Len(r) = p - L + 1
    BY <1>6, <1>1, <1>3, <1>5, Sizes
  <2>2. (p - L + 1) * BlockSamples \in Nat
    <3>1. p - L + 1 \in Nat  BY <1>1
    <3> QED  BY <3>1, Sizes, ProductTyped
  <2> QED  BY <1>6, <1>4, <2>1, <2>2
<1>7. CASE L # Capacity
  <2>1. p + 1 - Len(r) = p - L
    BY <1>7, <1>1, <1>3
  <2>2. FrontOffset(r) = FrontOffset(q)
    BY <1>7, <1>1, <1>3, <1>5, Sizes DEF FrontOffset
  <2> QED  BY <1>7, <1>2, <1>4, <2>1, <2>2
<1> QED  BY <1>6, <1>7

LEMMA PushMaps ==
  ASSUME QueueInv,
         blocks' = PushBlock(blocks, Block(session, pushed)), pushed' = pushed + 1
  PROVE  Handoff!Push
<1>1. /\ blocks \in Seq(Blocks) /\ pushed \in Nat /\ session \in Nat
      /\ Len(blocks) <= Capacity /\ LineEnd(blocks, pushed)
      /\ Len(blocks) \in Nat /\ Len(blocks) <= pushed
  BY DEF QueueInv, LineEnd
<1>2. /\ Position(blocks, pushed) \div BlockSamples = pushed - Len(blocks)
      /\ (pushed * BlockSamples) \div BlockSamples = pushed
  BY <1>1, LineStart
<1>3. Position(blocks', pushed + 1) = IF Len(blocks) = Capacity
                                      THEN (pushed - Len(blocks) + 1) * BlockSamples
                                      ELSE Position(blocks, pushed)
  BY <1>1, PushPosition
<1>4. (pushed + 1) * BlockSamples = pushed * BlockSamples + BlockSamples
  BY <1>1, Sizes
<1>5. Handoff!Queued = Len(blocks)
  <2>1. Handoff!Queued = (pushed * BlockSamples) \div BlockSamples
                           - Position(blocks, pushed) \div BlockSamples
    BY DEF Handoff!Queued, Position
  <2> QED  BY <2>1, <1>1, <1>2
<1> QED
  BY <1>2, <1>3, <1>4, <1>5 DEF Handoff!Push, Position

LEMMA TakeMaps ==
  ASSUME QueueInv, blocks # <<>>, UNCHANGED pushed,
         NEW n \in 1 .. Unread(blocks), blocks' = Take(blocks, n)
  PROVE  Handoff!Read
<1>1. /\ Unread(blocks) \in Nat
      /\ Unread(blocks) = pushed * BlockSamples - Position(blocks, pushed)
  BY UnreadBounds DEF QueueInv
<1>2. n \in Nat /\ n <= Unread(blocks)
  BY <1>1
<1>3. Position(blocks', pushed) = Position(blocks, pushed) + n
  BY <1>2, TakeLine DEF QueueInv
<1>4. n \in 1 .. pushed * BlockSamples - Position(blocks, pushed)
  BY <1>1
<1> QED  BY <1>3, <1>4 DEF Handoff!Read, Position

LEMMA HandoffStep ==
  ASSUME OwnerInv, RequestInv, QueueInv, [Next]_vars PROVE [Handoff!Next]_Handoff!vars
<1>1. CASE UNCHANGED <<blocks, pushed>>
  BY <1>1 DEF Handoff!vars
<1>2. CASE blocks' = <<>> /\ pushed' = 0
  <2>1. 0 * BlockSamples = 0  BY Sizes
  <2> QED  BY <1>2, <2>1 DEF Handoff!Next, Handoff!Restart
<1>3. ASSUME NEW r \in Readers, ReaderAction(r) PROVE [Handoff!Next]_Handoff!vars
  <2>1. UNCHANGED pushed
    BY <1>3, ReaderKeepsControl
  <2> QED  BY <1>1, <1>3, <2>1, ReaderMoves, TakeMaps DEF Handoff!Next
<1>4. CASE WorkerStep
  <2>1. wsession = session
    BY <1>4 DEF QueueInv, WorkerStep, LoopTest, Receive, CheckResult, Push, NotifyPushed,
         Fail, FailQueue, NotifyFailed, WorkerAt
  <2> QED  BY <1>1, <1>4, <2>1, WorkerMoves, PushMaps DEF Handoff!Next
<1>5. CASE ControlStep
  BY <1>1, <1>2, <1>5, ControlMoves
<1>6. CASE \/ SetupStream \/ Configure \/ Activate \/ UNCHANGED vars
           \/ \E op \in {"deactivate", "close", "shutdown"} : StopCall(op)
  BY <1>1, <1>6 DEF SetupStream, Configure, Activate, StopCall, Quietly
<1> QED
  BY <1>3, <1>4, <1>5, <1>6 DEF Next, Quiet, ReaderAction

\* Whatever the threads do, the samples are handed over as the lossy line of
\* RxHandoff: read in order and once, lost only as the oldest block of a full
\* queue (RxSampleQueue.cpp:109-144, 203-220).
THEOREM HandsSamplesOver == Spec => ImplementsHandoff
<1>1. Init => Handoff!Init
  <2>1. 0 * BlockSamples = 0  BY Sizes
  <2> QED  BY <2>1 DEF Init, Handoff!Init
<1> QED
  BY <1>1, QueueInvariant, HandoffStep, PTL DEF Spec, ImplementsHandoff, Handoff!Spec

-----------------------------------------------------------------------------
(* The waits of the readers. *)

\* Nobody holds the queue mutex over a predicate that has come true.
BlockedInv ==
  /\ q_failed => ~ q_running
  /\ \A r \in Readers : rpc[r] = "blocking" => ~ Ready

EndAnnounced == wpc = "failNotify" \/ cpc \in {"stopNotify", "resetNotify"}

SleepInv == \A r \in Readers : rpc[r] = "asleep" /\ ~ q_running => EndAnnounced

LEMMA BlockedStep ==
  ASSUME RequestInv, BlockedInv, [Next]_vars PROVE BlockedInv'
<1>1. ASSUME NEW r \in Readers, ReaderAction(r) PROVE BlockedInv'
  <2>1. UNCHANGED <<q_running, q_failed>>
    BY <1>1, ReaderKeepsControl
  <2>2. CASE ReadTest(r)
    <3>1. /\ \A t \in Readers : rpc[t] # "blocking"
          /\ rpc' \in {[rpc EXCEPT ![r] = "blocking"], [rpc EXCEPT ![r] = "returned"]}
          /\ rpc' = [rpc EXCEPT ![r] = "blocking"] => ~ Ready /\ UNCHANGED blocks
      BY <2>2 DEF ReadTest, QueueMutexFree, ReaderGoto, Answer, RequestInv
    <3>2. \A t \in Readers : rpc'[t] = "blocking" => ~ Ready /\ UNCHANGED blocks
      BY <3>1 DEF RequestInv
    <3> QED  BY <2>1, <3>2 DEF BlockedInv, Ready
  <2>3. CASE ~ ReadTest(r)
    <3>1. /\ UNCHANGED blocks
          /\ \/ UNCHANGED rpc
             \/ \E pc \in {"test", "asleep", "idle"} : rpc' = [rpc EXCEPT ![r] = pc]
      BY <1>1, <2>3 DEF ReaderAction, ReaderStep, ReadCall, ReadWake, ReadSleep,
         ReadReturn, ReaderGoto
    <3>2. \A t \in Readers : rpc'[t] = "blocking" => rpc[t] = "blocking"
      BY <3>1 DEF RequestInv
    <3> QED  BY <2>1, <3>1, <3>2 DEF BlockedInv, Ready
  <2> QED  BY <2>2, <2>3
<1>2. CASE WorkerStep
  <2>1. \A t \in Readers : rpc'[t] = "blocking" => rpc[t] = "blocking"
    BY <1>2 DEF WorkerStep, LoopTest, Receive, CheckResult, Push, NotifyPushed, Fail, FailQueue,
       NotifyFailed, NotifyAll, NotifyOne, Sleepers, RequestInv
  <2>2. CASE Push \/ FailQueue
    <3>1. QueueMutexFree /\ (q_failed' => ~ q_running')
      BY <2>2 DEF Push, FailQueue, BlockedInv
    <3> QED  BY <2>1, <3>1 DEF BlockedInv, QueueMutexFree
  <2>3. CASE ~ (Push \/ FailQueue)
    <3>1. UNCHANGED queueVars
      BY <1>2, <2>3 DEF WorkerStep, LoopTest, Receive, CheckResult, NotifyPushed, Fail,
         NotifyFailed
    <3> QED  BY <2>1, <3>1 DEF BlockedInv, Ready
  <2> QED  BY <2>2, <2>3
<1>3. CASE ControlStep
  <2>1. \A t \in Readers : rpc'[t] = "blocking" => rpc[t] = "blocking"
    BY <1>3 DEF ControlStep, StartHardware, StartQueue, Spawn, ResetQueue, StopRunning, StopQueue,
       NotifyStopped, StopHardware, Join, Finish, Quietly, NotifyAll, Sleepers
  <2>2. CASE StartQueue \/ ResetQueue \/ StopQueue
    <3>1. QueueMutexFree /\ (q_failed' => ~ q_running')
      BY <2>2 DEF StartQueue, ResetQueue, StopQueue
    <3> QED  BY <2>1, <3>1 DEF BlockedInv, QueueMutexFree
  <2>3. CASE ~ (StartQueue \/ ResetQueue \/ StopQueue)
    <3>1. UNCHANGED queueVars
      BY <1>3, <2>3 DEF ControlStep, StartHardware, Spawn, StopRunning, NotifyStopped,
         StopHardware, Join, Finish, Quietly
    <3> QED  BY <2>1, <3>1 DEF BlockedInv, Ready
  <2> QED  BY <2>2, <2>3
<1>4. CASE \/ SetupStream \/ Configure \/ Activate \/ UNCHANGED vars
           \/ \E op \in {"deactivate", "close", "shutdown"} : StopCall(op)
  <2>1. UNCHANGED <<rpc, queueVars>>
    BY <1>4 DEF SetupStream, Configure, Activate, StopCall, Quietly
  <2> QED  BY <2>1 DEF BlockedInv, Ready
<1> QED  BY <1>1, <1>2, <1>3, <1>4 DEF Next, Quiet, ReaderAction

LEMMA SleepStep ==
  ASSUME OwnerInv, RequestInv, BlockedInv, SleepInv, [Next]_vars PROVE SleepInv'
<1>1. ASSUME NEW r \in Readers, ReaderAction(r) PROVE SleepInv'
  <2>1. UNCHANGED <<q_running, wpc, cpc>>
    BY <1>1, ReaderKeepsControl
  <2>2. CASE ReadSleep(r)
    <3>1. q_running /\ rpc' = [rpc EXCEPT ![r] = "asleep"]
      BY <2>2 DEF ReadSleep, ReaderAt, ReaderGoto, BlockedInv, Ready
    <3> QED  BY <2>1, <3>1 DEF SleepInv
  <2>3. CASE ~ ReadSleep(r)
    <3>1. \/ UNCHANGED rpc
          \/ \E pc \in {"test", "blocking", "returned", "idle"} : rpc' = [rpc EXCEPT ![r] = pc]
      BY <1>1, <2>3 DEF ReaderAction, ReaderStep, ReadCall, ReadWake, ReadTest,
         ReadReturn, ReaderGoto, Answer
    <3>2. \A t \in Readers : rpc'[t] = "asleep" => rpc[t] = "asleep"
      BY <3>1 DEF RequestInv
    <3> QED  BY <2>1, <3>2 DEF SleepInv, EndAnnounced
  <2> QED  BY <2>2, <2>3
<1>2. CASE WorkerStep
  <2>1. CASE NotifyFailed
    <3>1. \A t \in Readers : rpc'[t] # "asleep"
      BY <2>1 DEF NotifyFailed, NotifyAll, Sleepers
    <3> QED  BY <3>1 DEF SleepInv
  <2>2. CASE FailQueue
    BY <2>2 DEF FailQueue, SleepInv, EndAnnounced
  <2>3. CASE ~ (NotifyFailed \/ FailQueue)
    <3>1. /\ UNCHANGED <<q_running, cpc>> /\ wpc # "failNotify"
          /\ \A t \in Readers : rpc'[t] = "asleep" => rpc[t] = "asleep"
      BY <1>2, <2>3 DEF WorkerStep, LoopTest, Receive, CheckResult, Push, NotifyPushed, Fail,
         NotifyOne, Sleepers, WorkerAt, WorkerFrame, RequestInv
    <3> QED  BY <3>1 DEF SleepInv, EndAnnounced
  <2> QED  BY <2>1, <2>2, <2>3
<1>3. CASE ControlStep
  <2>1. CASE NotifyStopped
    <3>1. \A t \in Readers : rpc'[t] # "asleep"
      BY <2>1 DEF NotifyStopped, NotifyAll, Sleepers
    <3> QED  BY <3>1 DEF SleepInv
  <2>2. CASE StopQueue \/ ResetQueue \/ StartQueue
    BY <2>2 DEF StopQueue, ResetQueue, StartQueue, SleepInv, EndAnnounced
  <2>3. CASE ~ (NotifyStopped \/ StopQueue \/ ResetQueue \/ StartQueue)
    <3>1. /\ UNCHANGED <<q_running, rpc>> /\ cpc \notin {"stopNotify", "resetNotify"}
          /\ wpc = "failNotify" => wpc' = "failNotify"
      BY <1>3, <2>3 DEF ControlStep, StartHardware, Spawn, StopRunning, StopHardware, Join,
         Finish, Quietly, WorkerGone, OwnerInv
    <3> QED  BY <3>1 DEF SleepInv, EndAnnounced
  <2> QED  BY <2>1, <2>2, <2>3
<1>4. CASE \/ SetupStream \/ Configure \/ Activate \/ UNCHANGED vars
           \/ \E op \in {"deactivate", "close", "shutdown"} : StopCall(op)
  <2>1. /\ UNCHANGED <<rpc, q_running, wpc>>
        /\ cpc' = cpc \/ cpc \notin {"stopNotify", "resetNotify"}
    BY <1>4 DEF SetupStream, Configure, Activate, StopCall, Quietly, LifecycleFree
  <2> QED  BY <2>1 DEF SleepInv, EndAnnounced
<1> QED  BY <1>1, <1>2, <1>3, <1>4 DEF Next, Quiet, ReaderAction

LEMMA WaitInvariant == Spec => [](RequestInv /\ BlockedInv /\ SleepInv)
<1>1. Init => BlockedInv /\ SleepInv
  BY DEF Init, BlockedInv, SleepInv
<1> QED  BY <1>1, OwnerInvariant, RequestInvariant, BlockedStep, SleepStep, PTL DEF Spec

\* No reader sleeps in a queue that has stopped or failed once that has been
\* announced: the mutex it holds from its test to its sleep keeps every end of the
\* queue out of between (RxSampleQueue.cpp:35-66, 190-197).
THEOREM EveryEndAnnounced == Spec => []EndsAnnounced
<1>1. BlockedInv /\ SleepInv => EndsAnnounced
  BY DEF BlockedInv, SleepInv, EndAnnounced, EndsAnnounced
<1> QED  BY <1>1, WaitInvariant, PTL

-----------------------------------------------------------------------------
(* A failed session and its waiters. *)

EndedInv ==
  /\ ended \in [Readers -> Nat] /\ session \in Nat
  /\ \A r \in Readers : /\ ended[r] <= session
                        /\ ended[r] = session /\ session # 0 => q_failed
  /\ cpc \in {"startQueue", "spawn", "resetQueue"} =>
       /\ ~ Joinable /\ session # 0
       /\ \A r \in Readers : ended[r] < session

LEMMA EndedStep ==
  ASSUME OwnerInv, QueueInv, EndedInv, [Next]_vars PROVE EndedInv'
<1>1. ASSUME NEW r \in Readers, ReaderAction(r) PROVE EndedInv'
  <2>1. UNCHANGED <<session, q_failed, cpc, wpc>>
    BY <1>1, ReaderKeepsControl
  <2>2. UNCHANGED ended \/ ended' = [ended EXCEPT ![r] = 0]
    BY <1>1 DEF ReaderAction, ReaderStep, ReadCall, ReadWake, ReadTest, ReadSleep,
       ReadReturn
  <2> QED  BY <2>1, <2>2 DEF EndedInv
<1>2. CASE WorkerStep
  <2>1. UNCHANGED <<session, cpc>> /\ Joinable /\ Joinable'
    BY <1>2 DEF WorkerStep, LoopTest, Receive, CheckResult, Push, NotifyPushed, Fail, FailQueue,
       NotifyFailed, WorkerAt, WorkerFrame, OwnerInv
  <2>2. CASE FailQueue
    <3>1. wsession = session
      BY <2>1 DEF QueueInv
    <3>2. q_failed' /\ ended' = [t \in Readers |-> IF t \in Sleepers THEN session ELSE ended[t]]
      BY <2>2, <3>1 DEF FailQueue
    <3> QED  BY <2>1, <3>2 DEF EndedInv
  <2>3. CASE ~ FailQueue
    <3>1. UNCHANGED <<ended, q_failed>>
      BY <1>2, <2>3 DEF WorkerStep, LoopTest, Receive, CheckResult, Push, NotifyPushed, Fail,
         NotifyFailed
    <3> QED  BY <2>1, <3>1 DEF EndedInv
  <2> QED  BY <2>2, <2>3
<1>3. CASE ControlStep
  <2>0. UNCHANGED ended
    BY <1>3 DEF ControlStep, StartHardware, StartQueue, Spawn, ResetQueue, StopRunning, StopQueue,
       NotifyStopped, StopHardware, Join, Finish, Quietly, ControlFrame
  <2>1. CASE StartHardware
    <3>1. \/ session' = session + 1 /\ cpc' = "startQueue" /\ ~ Joinable'
          \/ session' = session /\ cpc' = "idle" /\ UNCHANGED q_failed
      BY <2>1 DEF StartHardware, Quietly, OwnerInv
    <3>2. CASE session' = session + 1 /\ cpc' = "startQueue" /\ ~ Joinable'
      <4>1. \A r \in Readers : ended[r] \in Nat /\ ended[r] < session + 1
        BY DEF EndedInv
      <4>2. session + 1 \in Nat /\ session + 1 # 0
        BY DEF EndedInv
      <4> QED  BY <2>0, <3>2, <4>1, <4>2 DEF EndedInv
    <3>3. CASE session' = session /\ cpc' = "idle" /\ UNCHANGED q_failed
      BY <2>0, <3>3 DEF EndedInv
    <3> QED  BY <3>1, <3>2, <3>3
  <2>2. CASE StartQueue \/ ResetQueue
    <3>1. /\ cpc \in {"startQueue", "resetQueue"} /\ cpc' \in {"spawn", "resetNotify"}
          /\ UNCHANGED <<session, wpc>>
      BY <2>2 DEF StartQueue, ResetQueue
    <3> QED  BY <2>0, <3>1 DEF EndedInv
  <2>3. CASE Spawn
    BY <2>0, <2>3 DEF Spawn, EndedInv
  <2>4. CASE StopRunning \/ StopQueue \/ NotifyStopped \/ StopHardware \/ Join \/ Finish
    <3>1. /\ UNCHANGED <<session, q_failed>>
          /\ cpc' \notin {"startQueue", "spawn", "resetQueue"}
      BY <2>4 DEF StopRunning, StopQueue, NotifyStopped, StopHardware, Join, Finish, Quietly
    <3> QED  BY <2>0, <3>1 DEF EndedInv
  <2> QED  BY <1>3, <2>1, <2>2, <2>3, <2>4 DEF ControlStep
<1>4. CASE \/ SetupStream \/ Configure \/ Activate \/ UNCHANGED vars
           \/ \E op \in {"deactivate", "close", "shutdown"} : StopCall(op)
  <2>1. /\ UNCHANGED <<ended, session, q_failed, wpc>>
        /\ cpc' = cpc \/ cpc' \notin {"startQueue", "spawn", "resetQueue"}
    BY <1>4 DEF SetupStream, Configure, Activate, StopCall, Quietly, ControlFrame
  <2> QED  BY <2>1 DEF EndedInv
<1> QED  BY <1>1, <1>2, <1>3, <1>4 DEF Next, Quiet, ReaderAction

LEMMA EndedInvariant == Spec => []EndedInv
<1>1. Init => EndedInv
  BY DEF Init, EndedInv
<1> QED  BY <1>1, QueueInvariant, EndedStep, PTL DEF Spec

\* A reader that was asleep when its session failed never waits on in that session,
\* at most in a later one that has been started before it woke
\* (RxSampleQueue.cpp:25-54, 190-201).
THEOREM FailureEndsEveryWait == Spec => []FailureEndsWait
<1>1. BlockedInv /\ EndedInv => FailureEndsWait
  <2> SUFFICES ASSUME BlockedInv, EndedInv, NEW r \in Readers,
                      rpc[r] = "blocking", ended[r] # 0
               PROVE  ended[r] < session
    BY DEF FailureEndsWait
  <2>1. ~ q_failed
    BY DEF BlockedInv, Ready
  <2>2. ended[r] \in Nat /\ session \in Nat /\ ended[r] <= session /\ ended[r] # session
    BY <2>1 DEF EndedInv
  <2> QED  BY <2>2
<1> QED
  BY <1>1, WaitInvariant, EndedInvariant, PTL

\* The bound on hardware starts.
StartsInv ==
  /\ session \in 0 .. MaxSessions
  /\ cpc = "start" => session < MaxSessions

LEMMA StartsStep ==
  ASSUME StartsInv, [Next]_vars PROVE StartsInv'
<1> USE RxSessionAssumption DEF StartsInv
<1>1. ASSUME NEW r \in Readers, ReaderAction(r) PROVE StartsInv'
  BY <1>1, ReaderKeepsControl DEF controlVars
<1>2. CASE WorkerStep \/ UNCHANGED vars
  <2>1. UNCHANGED <<session, cpc>>
    BY <1>2 DEF WorkerStep, LoopTest, Receive, CheckResult, Push, NotifyPushed, Fail, FailQueue,
       NotifyFailed, WorkerAt, WorkerFrame, vars, controlVars
  <2> QED  BY <2>1
<1>3. CASE Activate
  BY <1>3 DEF Activate
<1>4. CASE StartHardware
  <2>1. cpc = "start" /\ session' \in {session, session + 1} /\ cpc' # "start"
    BY <1>4 DEF StartHardware
  <2> QED  BY <2>1
<1>5. CASE \/ SetupStream \/ Configure \/ (ControlStep /\ ~ StartHardware)
           \/ \E op \in {"deactivate", "close", "shutdown"} : StopCall(op)
  <2>1. session' = session /\ (cpc' = "start" => cpc = "start")
    BY <1>5 DEF SetupStream, Configure, StopCall, ControlStep, StartQueue, Spawn, ResetQueue,
       StopRunning, StopQueue, NotifyStopped, StopHardware, Join, Finish, Quietly, ControlFrame
  <2> QED  BY <2>1
<1> QED  BY <1>1, <1>2, <1>3, <1>4, <1>5 DEF Next, Quiet, ReaderAction

\* The comment at RxSampleQueue.cpp:52 is right of a device that starts its receiver
\* once: a failure then ends every wait that it finds.
THEOREM OneSessionFailureSeen ==
  ASSUME MaxSessions = 1
  PROVE  Spec => []FailureSeenByWaiters
<1>1. Init => StartsInv
  BY RxSessionAssumption DEF Init, StartsInv
<1>2. EndedInv /\ StartsInv /\ FailureEndsWait => FailureSeenByWaiters
  BY DEF EndedInv, StartsInv, FailureEndsWait, FailureSeenByWaiters
<1>3. Spec => []EndedInv
  BY EndedInvariant
<1> QED  BY <1>1, <1>2, <1>3, StartsStep, FailureEndsEveryWait, PTL DEF Spec

-----------------------------------------------------------------------------
(* Readers of whole blocks. *)

\* A read of whole blocks, off a queue whose front block is whole, leaves such a
\* queue and shortens it.
LEMMA TakeWhole ==
  ASSUME NEW q \in Seq(Blocks), NEW p \in Nat, LineEnd(q, p), q # <<>>, FrontOffset(q) = 0,
         NEW j \in Nat \ {0}, j * BlockSamples <= Unread(q),
         NEW r, r = Take(q, j * BlockSamples)
  PROVE  FrontOffset(r) = 0 /\ Len(r) \in Nat /\ Len(r) < Len(q)
<1> DEFINE n == j * BlockSamples
           m == p - Len(q)
<1>1. n \in Nat /\ m \in Nat /\ Len(q) \in Nat /\ m + j \in Nat
  BY Sizes, ProductTyped DEF LineEnd
<1>2. /\ r \in Seq(Blocks) /\ LineEnd(r, p)
      /\ Position(r, p) = Position(q, p) + n
  BY <1>1, TakeLine
<1>3. Position(q, p) = m * BlockSamples + 0
  BY LineStart
<1>4. /\ Position(r, p) = (p - Len(r)) * BlockSamples + FrontOffset(r)
      /\ Position(r, p) \div BlockSamples = p - Len(r)
  BY <1>2, LineStart
<1>5. Position(r, p) = (m + j) * BlockSamples + 0
  <2>1. (m + j) * BlockSamples = m * BlockSamples + j * BlockSamples
    BY <1>1, Sizes
  <2>2. m * BlockSamples \in Nat /\ (m + j) * BlockSamples \in Nat
    BY <1>1, Sizes, ProductTyped
  <2> QED  BY <1>1, <1>2, <1>3, <2>1, <2>2
<1>6. Position(r, p) \div BlockSamples = m + j
  <2>1. 0 < BlockSamples /\ 0 \in Nat
    BY Sizes
  <2> DEFINE k == m + j
  <2>2. k \in Nat /\ Position(r, p) = k * BlockSamples + 0
    BY <1>1, <1>5
  <2> HIDE DEF k
  <2>3. (k * BlockSamples + 0) \div BlockSamples = k
    BY <2>1, <2>2, Sizes, QuotientIs
  <2>4. Position(r, p) \div BlockSamples = k
    BY <2>2, <2>3
  <2> QED  BY <2>4 DEF k
<1>7. p - Len(r) = m + j /\ Len(r) \in Nat
  BY <1>2, <1>4, <1>6
<1>8. FrontOffset(r) = 0
  <2>1. (m + j) * BlockSamples \in Nat /\ FrontOffset(r) \in Nat
    <3>1. CASE r = <<>>
      BY <1>1, <3>1, Sizes, ProductTyped DEF FrontOffset
    <3>2. CASE r # <<>>
      <4>1. r[1] \in Blocks
        BY <1>2, <3>2
      <4> QED  BY <1>1, <3>2, <4>1, Sizes, ProductTyped DEF FrontOffset, Blocks
    <3> QED  BY <3>1, <3>2
  <2> HIDE DEF m
  <2> QED  BY <1>4, <1>5, <1>7, <2>1
<1> QED  BY <1>1, <1>7, <1>8

\* What is left unread behind a whole front block is a number of whole blocks.
LEMMA UnreadWhole ==
  ASSUME NEW q \in Seq(Blocks), NEW p \in Nat, LineEnd(q, p), q # <<>>, FrontOffset(q) = 0
  PROVE  Len(q) \in Nat \ {0} /\ Unread(q) = Len(q) * BlockSamples
<1>1. Len(q) \in Nat \ {0} /\ Head(q) = q[1]
  OBVIOUS
<1>2. Len(q) * BlockSamples \in Nat
  BY <1>1, Sizes, ProductTyped
<1> QED  BY <1>1, <1>2 DEF Unread, FrontOffset

LEMMA WholeMultiple ==
  ASSUME WholeRequests, NEW n \in Requests
  PROVE  \E j \in Nat \ {0} : n = j * BlockSamples
<1> DEFINE j == n \div BlockSamples
<1>1. n \in Nat /\ n # 0 /\ n % BlockSamples = 0
  BY Sizes DEF WholeRequests
<1>2. j \in Nat /\ n = j * BlockSamples + (n % BlockSamples)
  BY <1>1, Sizes, Division
<1> HIDE DEF j
<1>3. j * BlockSamples \in Nat
  BY <1>2, Sizes, ProductTyped
<1>4. n = j * BlockSamples
  BY <1>1, <1>2, <1>3
<1>5. j # 0
  BY <1>1, <1>4, Sizes
<1> QED  BY <1>2, <1>4, <1>5

LEMMA Counting ==
  ASSUME NEW S \in SUBSET Readers
  PROVE  /\ IsFiniteSet(S) /\ Cardinality(S) \in Nat
         /\ \A T \in SUBSET S : Cardinality(T) \in Nat /\ Cardinality(T) <= Cardinality(S)
         /\ \A r \in Readers : r \notin S => Cardinality(S \cup {r}) = Cardinality(S) + 1
         /\ \A r \in S : Cardinality(S \ {r}) = Cardinality(S) - 1
<1>1. IsFiniteSet(S)
  BY RxSessionAssumption, FS_Subset
<1>2. Cardinality(S) \in Nat
  BY <1>1, FS_CardinalityType
<1>3. \A T \in SUBSET S : Cardinality(T) \in Nat /\ Cardinality(T) <= Cardinality(S)
  BY <1>1, FS_Subset, FS_CardinalityType
<1>4. \A r \in Readers : r \notin S => Cardinality(S \cup {r}) = Cardinality(S) + 1
  BY <1>1, FS_AddElement
<1>5. \A r \in S : Cardinality(S \ {r}) = Cardinality(S) - 1
  BY <1>1, FS_RemoveElement
<1> QED  BY <1>1, <1>2, <1>3, <1>4, <1>5

Notice == IF wpc = "notify" THEN 1 ELSE 0

WholeInv ==
  WholeRequests =>
    /\ FrontOffset(blocks) = 0
    /\ Sleepers # {} => Len(blocks) <= Cardinality(Awake) + Notice

\* Nothing is added to the queue, nobody stops standing for a block, and nobody
\* falls asleep.
LEMMA WholeKept ==
  ASSUME QueueInv, WholeInv, UNCHANGED blocks, Awake \subseteq Awake',
         Sleepers' \subseteq Sleepers, wpc = "notify" => wpc' = "notify"
  PROVE  WholeInv'
<1> SUFFICES ASSUME WholeRequests, Sleepers' # {}
             PROVE  Len(blocks) <= Cardinality(Awake') + Notice'
  BY DEF WholeInv
<1>1. Len(blocks) <= Cardinality(Awake) + Notice /\ Len(blocks) \in Nat
  BY DEF WholeInv, QueueInv
<1>2. Cardinality(Awake) \in Nat /\ Cardinality(Awake') \in Nat
      /\ Cardinality(Awake) <= Cardinality(Awake')
  BY Counting DEF Awake
<1>3. Notice \in {0, 1} /\ Notice' \in {0, 1} /\ Notice <= Notice'
  BY DEF Notice
<1> QED  BY <1>1, <1>2, <1>3

LEMMA WholeByReader ==
  ASSUME RequestInv, QueueInv, BlockedInv, WholeInv, NEW r \in Readers, ReaderAction(r)
  PROVE  WholeInv'
<1>1. UNCHANGED wpc
  BY ReaderKeepsControl
<1>2. CASE ReadTest(r) /\ blocks # <<>>
  <2> SUFFICES ASSUME WholeRequests
               PROVE  /\ FrontOffset(blocks') = 0
                      /\ Sleepers' # {} => Len(blocks') <= Cardinality(Awake') + Notice'
    BY DEF WholeInv
  <2>1. /\ blocks \in Seq(Blocks) /\ pushed \in Nat /\ LineEnd(blocks, pushed)
        /\ FrontOffset(blocks) = 0 /\ Head(blocks) = blocks[1]
        /\ Len(blocks) \in Nat \ {0} /\ Unread(blocks) = Len(blocks) * BlockSamples
    BY <1>2, UnreadWhole DEF WholeInv, QueueInv
  <2>2. PICK n \in 1 .. Unread(blocks) :
          blocks' = Take(blocks, n) /\ n \in {rrequest[r], Unread(blocks)}
    BY <1>2, <2>1, ReadTakes DEF FrontOffset
  <2>3. PICK j \in Nat \ {0} : n = j * BlockSamples
    BY <1>2, <2>1, <2>2, ReadTakes, WholeMultiple
  <2>4. j * BlockSamples <= Unread(blocks)
    BY <1>2, <2>2, <2>3, ReadTakes
  <2>5. FrontOffset(blocks') = 0 /\ Len(blocks') \in Nat /\ Len(blocks') < Len(blocks)
    BY <1>2, <2>1, <2>2, <2>3, <2>4, TakeWhole
  <2>6. Awake' = Awake \ {r} /\ r \in Awake /\ Sleepers' = Sleepers
    BY <1>2 DEF ReadTest, ReaderAt, ReaderGoto, Answer, Ready, Awake, Sleepers, RequestInv
  <2>7. Cardinality(Awake') = Cardinality(Awake) - 1 /\ Cardinality(Awake) \in Nat
    BY <2>6, Counting DEF Awake
  <2>8. Notice' = Notice /\ Notice \in {0, 1}
    BY <1>1 DEF Notice
  <2>9. Sleepers # {} => Len(blocks) <= Cardinality(Awake) + Notice
    BY DEF WholeInv
  <2> QED  BY <2>1, <2>5, <2>6, <2>7, <2>8, <2>9
<1>3. CASE (ReadTest(r) \/ ReadSleep(r)) /\ blocks = <<>>
  <2>1. blocks' = <<>>
    BY <1>3 DEF ReadTest, ReadSleep
  <2>2. Cardinality(Awake') \in Nat /\ Notice' \in {0, 1}
    BY Counting DEF Awake, Notice
  <2> QED  BY <2>1, <2>2 DEF WholeInv, FrontOffset
<1>4. ReadSleep(r) => blocks = <<>>
  BY DEF ReadSleep, ReaderAt, BlockedInv, Ready
<1>5. CASE ~ ReadTest(r) /\ ~ ReadSleep(r)
  <2>1. /\ UNCHANGED blocks
        /\ \/ UNCHANGED rpc
           \/ rpc[r] # "test" /\ \E pc \in {"test", "idle"} : rpc' = [rpc EXCEPT ![r] = pc]
    BY <1>5 DEF ReaderAction, ReaderStep, ReadCall, ReadWake, ReadReturn,
       ReaderAt, ReaderGoto
  <2>2. Awake \subseteq Awake' /\ Sleepers' \subseteq Sleepers
    BY <2>1 DEF Awake, Sleepers, RequestInv
  <2> QED  BY <1>1, <2>1, <2>2, WholeKept
<1> QED  BY <1>2, <1>3, <1>4, <1>5

LEMMA WholeByWorker ==
  ASSUME OwnerInv, RequestInv, QueueInv, WholeInv, WorkerStep
  PROVE  WholeInv'
<1>1. CASE Push /\ wpc' = "notify"
  <2> SUFFICES ASSUME WholeRequests
               PROVE  /\ FrontOffset(blocks') = 0
                      /\ Sleepers' # {} => Len(blocks') <= Cardinality(Awake') + Notice'
    BY DEF WholeInv
  <2>1. blocks' = PushBlock(blocks, Block(wsession, pushed)) /\ UNCHANGED rpc
    BY <1>1 DEF Push
  <2>2. /\ blocks \in Seq(Blocks) /\ pushed \in Nat /\ LineEnd(blocks, pushed)
        /\ wsession \in Nat /\ Len(blocks) <= Capacity
    BY <1>1 DEF QueueInv, Push, WorkerAt
  <2>3. /\ blocks' # <<>>
        /\ Len(blocks') = IF Len(blocks) = Capacity THEN Capacity ELSE Len(blocks) + 1
        /\ blocks'[1].offset = IF blocks # <<>> /\ Len(blocks) < Capacity
                               THEN blocks[1].offset ELSE 0
    BY <2>1, <2>2, PushLine
  <2>4. FrontOffset(blocks') = 0
    BY <2>3 DEF WholeInv, FrontOffset
  <2>5. Awake' = Awake /\ Sleepers' = Sleepers
    BY <2>1 DEF Awake, Sleepers
  <2>6. Notice' = 1 /\ Notice = 0
    BY <1>1 DEF Notice, Push, WorkerAt
  <2>7. Cardinality(Awake) \in Nat /\ Len(blocks) \in Nat /\ Len(blocks') <= Len(blocks) + 1
    BY <2>2, <2>3, Sizes, Counting DEF Awake
  <2>8. Sleepers # {} => Len(blocks) <= Cardinality(Awake) + Notice
    BY DEF WholeInv
  <2>9. Len(blocks') \in Nat
    BY <2>2, <2>3, Sizes
  <2> QED  BY <2>4, <2>5, <2>6, <2>7, <2>8, <2>9
<1>2. CASE NotifyPushed
  <2>1. UNCHANGED blocks /\ Notice = 1 /\ Notice' = 0
    BY <1>2 DEF NotifyPushed, WorkerAt, Notice
  <2>2. CASE Sleepers = {}
    <3>1. Sleepers' = {}
      BY <1>2, <2>2 DEF NotifyPushed, NotifyOne, Sleepers
    <3> QED  BY <2>1, <3>1 DEF WholeInv
  <2>3. CASE Sleepers # {}
    <3>1. PICK r \in Sleepers : rpc' = [rpc EXCEPT ![r] = "test"]
      BY <1>2, <2>3 DEF NotifyPushed, NotifyOne
    <3>2. r \in Readers /\ r \notin Awake /\ Awake' = Awake \cup {r}
      BY <3>1 DEF Sleepers, Awake, RequestInv
    <3>3. Cardinality(Awake') = Cardinality(Awake) + 1 /\ Cardinality(Awake) \in Nat
      BY <3>2, Counting DEF Awake
    <3> QED  BY <2>1, <2>3, <3>3 DEF WholeInv
  <2> QED  BY <2>2, <2>3
<1>3. CASE NotifyFailed
  <2>1. Sleepers' = {} /\ UNCHANGED blocks
    BY <1>3 DEF NotifyFailed, NotifyAll, Sleepers
  <2> QED  BY <2>1 DEF WholeInv
<1>4. CASE ~ \/ Push /\ wpc' = "notify"
             \/ NotifyPushed \/ NotifyFailed
  <2>1. UNCHANGED <<rpc, blocks>> /\ wpc # "notify"
    BY <1>4 DEF WorkerStep, LoopTest, Receive, CheckResult, Push, Fail, FailQueue, WorkerAt
  <2>2. Awake' = Awake /\ Sleepers' = Sleepers
    BY <2>1 DEF Awake, Sleepers
  <2> QED  BY <2>1, <2>2, WholeKept
<1> QED  BY <1>1, <1>2, <1>3, <1>4

LEMMA WholeStep ==
  ASSUME OwnerInv, RequestInv, QueueInv, BlockedInv, WholeInv, [Next]_vars
  PROVE  WholeInv'
<1>1. CASE ControlStep
  <2>1. CASE NotifyStopped
    <3>1. Sleepers' = {} /\ UNCHANGED blocks
      BY <2>1 DEF NotifyStopped, NotifyAll, Sleepers
    <3> QED  BY <3>1 DEF WholeInv
  <2>2. CASE StartQueue \/ ResetQueue
    <3>1. blocks' = <<>>
      BY <2>2 DEF StartQueue, StartEmpty, ResetQueue
    <3>2. Cardinality(Awake') \in Nat /\ Notice' \in {0, 1}
      BY Counting DEF Awake, Notice
    <3> QED  BY <3>1, <3>2 DEF WholeInv, FrontOffset
  <2>3. CASE ~ (NotifyStopped \/ StartQueue \/ ResetQueue)
    <3>1. UNCHANGED <<rpc, blocks>> /\ (wpc = "notify" => wpc' = "notify")
      BY <1>1, <2>3 DEF ControlStep, StartHardware, Spawn, StopRunning, StopQueue, StopHardware,
         Join, WorkerGone, Finish, Quietly, OwnerInv
    <3>2. Awake' = Awake /\ Sleepers' = Sleepers
      BY <3>1 DEF Awake, Sleepers
    <3> QED  BY <3>1, <3>2, WholeKept
  <2> QED  BY <2>1, <2>2, <2>3
<1>2. CASE \/ SetupStream \/ Configure \/ Activate \/ UNCHANGED vars
           \/ \E op \in {"deactivate", "close", "shutdown"} : StopCall(op)
  <2>1. UNCHANGED <<rpc, blocks, wpc>>
    BY <1>2 DEF SetupStream, Configure, Activate, StopCall, Quietly
  <2>2. Awake' = Awake /\ Sleepers' = Sleepers
    BY <2>1 DEF Awake, Sleepers
  <2> QED  BY <2>1, <2>2, WholeKept
<1> QED  BY <1>1, <1>2, WholeByReader, WholeByWorker DEF Next, Quiet, ReaderAction

\* One notification per block is enough for any number of readers of whole blocks:
\* none sleeps beside a block that no awake reader and no notification stands for
\* (RxSampleQueue.cpp:126-145, 190-220).
THEOREM EveryBlockAnnounced == Spec => []SamplesAnnounced
<1>1. Init => WholeInv
  BY DEF Init, WholeInv, FrontOffset, Sleepers
<1>2. WholeInv => SamplesAnnounced
  BY DEF WholeInv, Notice, SamplesAnnounced
<1> QED
  BY <1>1, <1>2, WaitInvariant, QueueInvariant, WholeStep, PTL DEF Spec

\* No reader is left asleep: neither the end of the queue nor a block passes it by
\* with nobody on the way to wake it, for any number of readers
\* (RxSampleQueue.cpp:35-66, 126-145, 190-220).
THEOREM NoReaderLeftAsleep == Spec => []NoWakeupLost
<1> QED  BY EveryEndAnnounced, EveryBlockAnnounced, PTL DEF NoWakeupLost
=============================================================================

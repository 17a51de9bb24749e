---------------------- MODULE SettingTransactionProofs ----------------------
(***************************************************************************)
(* A compensated setter restores the card or says that it could not, for   *)
(* any number of channels.                                                 *)
(*                                                                         *)
(* The argument.  While a setter writes, registers outside the attempted   *)
(* part of its plan are as in the snapshot.  A restoring write shrinks that*)
(* part by one and puts the register it drops back, unless it fails, which *)
(* `lost' remembers.  When nothing is left the card equals the snapshot or *)
(* `lost' is set.                                                          *)
(***************************************************************************)
EXTENDS SettingTransaction, TLAPS

USE SettingAssumption
USE DEF vars, caches, history

Writes(V) == [reg : Registers, value : V]

\* Registers no attempted write names are as they were before the call.
Untouched ==
  \A r \in Registers :
    (\A i \in 1..attempted : plan[i].reg # r) => reg[r] = snapshot[r]

ShapeOK ==
  /\ reg = [r \in Registers |-> reg[r]]
  /\ snapshot = [r \in Registers |-> snapshot[r]]
  /\ Len(plan) \in Nat
  /\ \A i \in 1..Len(plan) : plan[i].reg \in Registers
  /\ attempted \in 0..Len(plan)
  /\ lost \in BOOLEAN

Progress ==
  /\ phase \in {"idle", "write", "restore"}
  /\ phase # "idle" => answer = "none"
  /\ phase = "write" => ~lost /\ Untouched
  /\ phase = "restore" => lost \/ Untouched

RestoreInv == ShapeOK /\ Progress /\ FailureRestores

-----------------------------------------------------------------------------
LEMMA CounterPlanned ==
  ASSUME NEW on \in BOOLEAN
  PROVE  CounterPlan(on) \in Seq(Writes(Sources))
<1>1. \A c \in 1..Channels : Source(c) \in Registers  BY DEF Registers
<1>2. "iq" \in Sources /\ "counter" \in Sources  BY DEF Sources
<1> QED  BY <1>1, <1>2 DEF CounterPlan, CounterSource, Put, Writes

LEMMA PutTyped ==
  ASSUME NEW V, NEW r \in Registers, NEW v \in V
  PROVE  <<Put(r, v)>> \in Seq(Writes(V)) /\ Needed(r, v) \in Seq(Writes(V))
<1>1. [reg |-> r, value |-> v] \in Writes(V)  BY DEF Writes
<1> QED  BY <1>1 DEF Put, Needed

LEMMA Named == /\ Mask \in Registers /\ Mode \in Registers
               /\ GainMode \in Registers /\ Gain \in Registers /\ IqOrder \in Registers
BY DEF Registers

LEMMA Joined ==
  ASSUME NEW V, NEW a \in Seq(Writes(V)), NEW b \in Seq(Writes(V))
  PROVE  a \o b \in Seq(Writes(V))
OBVIOUS

\* A call begins from a snapshot of the card.
LEMMA StartKeeps ==
  ASSUME RestoreInv, NEW V, NEW n, NEW on, NEW p \in Seq(Writes(V)), Start(n, on, p)
  PROVE  RestoreInv'
<1> USE DEF RestoreInv, ShapeOK, Progress, Start
<1>1. phase' = "write"  OBVIOUS
<1>2. ShapeOK'
  <2>1. /\ Len(plan') \in Nat /\ attempted' \in 0..Len(plan')
        /\ \A i \in 1..Len(plan') : plan'[i] \in Writes(V)
    OBVIOUS
  <2>2. \A i \in 1..Len(plan') : plan'[i].reg \in Registers  BY <2>1 DEF Writes
  <2>3. lost' \in BOOLEAN  OBVIOUS
  <2> QED  BY <2>1, <2>2, <2>3
<1>3. Untouched'  BY DEF Untouched
<1>4. FailureRestores'  BY DEF FailureRestores
<1> QED  BY <1>1, <1>2, <1>3, <1>4

LEMMA InitKeeps == Init => RestoreInv
<1> SUFFICES ASSUME Init PROVE RestoreInv  OBVIOUS
<1> USE DEF Init
<1>1. reg = [r \in Registers |-> reg[r]]
  <2>1. PICK s \in [1..Channels -> Sources], m \in SUBSET Algorithms, a \in {"manual", "auto"} :
          reg = [r \in Registers |->
                   CASE r[1] = "source" -> s[r[2]]
                     [] r = Mask -> m
                     [] r = Mode -> a
                     [] r = GainMode -> "manual"
                     [] r = Gain -> 0
                     [] r = IqOrder -> TRUE]
    OBVIOUS
  <2> DEFINE atPowerUp(r) == CASE r[1] = "source" -> s[r[2]]
                               [] r = Mask -> m
                               [] r = Mode -> a
                               [] r = GainMode -> "manual"
                               [] r = Gain -> 0
                               [] r = IqOrder -> TRUE
  <2>2. reg = [r \in Registers |-> atPowerUp(r)]  BY <2>1
  <2> HIDE DEF atPowerUp
  <2> QED  BY ONLY <2>2
<1>2. /\ Len(plan) \in Nat /\ attempted \in 0..Len(plan)
      /\ \A i \in 1..Len(plan) : plan[i].reg \in Registers
  OBVIOUS
<1>3. lost \in BOOLEAN  OBVIOUS
<1>4. ShapeOK  BY <1>1, <1>2, <1>3 DEF ShapeOK
<1>5. Progress /\ FailureRestores  BY DEF Progress, FailureRestores
<1> QED  BY <1>4, <1>5 DEF RestoreInv

\* A write changes the register it names or nothing.
LEMMA WriteKeeps == RestoreInv /\ Write => RestoreInv'
<1> SUFFICES ASSUME RestoreInv, Write PROVE RestoreInv'  OBVIOUS
<1> USE DEF RestoreInv, Progress
<1>1. PICK ok \in BOOLEAN :
        /\ Effect(ok, plan[attempted + 1].reg, plan[attempted + 1].value)
        /\ attempted' = Attempted(ok)
        /\ IF ok THEN UNCHANGED <<phase, answer, doubtful>>
           ELSE IF Compensated(op)
                THEN phase' = "restore" /\ UNCHANGED <<answer, doubtful>>
                ELSE /\ phase' = "idle" /\ answer' = "failed"
                     /\ doubtful' = doubtful \cup ({op.name} \cap Cached)
  BY DEF Write
<1> DEFINE w == plan[attempted + 1].reg
<1>2. /\ phase = "write" /\ attempted \in 0..Len(plan) /\ attempted < Len(plan)
      /\ Len(plan) \in Nat /\ \A i \in 1..Len(plan) : plan[i].reg \in Registers
      /\ UNCHANGED <<op, plan, snapshot, lost>>
  BY DEF Write, ShapeOK
<1>3. w \in Registers  BY <1>2
<1>4. attempted' = attempted + 1  BY <1>1 DEF Attempted
<1>5. /\ reg' = [r \in Registers |-> reg'[r]]
      /\ \A r \in Registers : r # w => reg'[r] = reg[r]
  BY <1>1, <1>3 DEF Effect, ShapeOK
<1>6. ShapeOK'
  <2>1. attempted' \in 0..Len(plan')  BY <1>2, <1>4
  <2> QED  BY <2>1, <1>5, <1>2 DEF ShapeOK
<1>7. Untouched'
  <2> SUFFICES ASSUME NEW r \in Registers, \A i \in 1..attempted' : plan'[i].reg # r
               PROVE  reg'[r] = snapshot'[r]
    BY DEF Untouched
  <2>1. \A i \in 1..attempted : plan[i].reg # r  BY <1>2, <1>4
  <2>2. r # w  BY <1>2, <1>4
  <2>3. reg[r] = snapshot[r]  BY <2>1, <1>2 DEF Untouched
  <2> QED  BY <2>2, <2>3, <1>2, <1>5
<1>8. ~lost'  BY <1>2
<1>9. CASE ok
  <2>1. phase' = "write" /\ answer' = "none"  BY <1>1, <1>2, <1>9
  <2> QED  BY <2>1, <1>6, <1>7, <1>8 DEF FailureRestores
<1>10. CASE ~ok /\ Compensated(op)
  <2>1. phase' = "restore" /\ answer' = "none"  BY <1>1, <1>2, <1>10
  <2> QED  BY <2>1, <1>6, <1>7 DEF FailureRestores
<1>11. CASE ~ok /\ ~Compensated(op)
  <2>1. phase' = "idle"  BY <1>1, <1>11
  <2>2. ~Compensated(op')  BY <1>2, <1>11
  <2> QED  BY <2>1, <2>2, <1>6 DEF FailureRestores
<1> QED  BY <1>9, <1>10, <1>11

\* A restoring write that succeeds puts one register back.
LEMMA RestoreKeeps == RestoreInv /\ Restore => RestoreInv'
<1> SUFFICES ASSUME RestoreInv, Restore PROVE RestoreInv'  OBVIOUS
<1> USE DEF RestoreInv, Progress
<1> DEFINE w == plan[attempted].reg
<1>1. PICK ok \in BOOLEAN : Effect(ok, w, snapshot[w]) /\ lost' = Lost(ok)
  BY DEF Restore
<1>2. /\ phase = "restore" /\ attempted \in 1..Len(plan) /\ attempted' = attempted - 1
      /\ Len(plan) \in Nat /\ \A i \in 1..Len(plan) : plan[i].reg \in Registers
      /\ UNCHANGED <<op, plan, snapshot, phase, answer>>
  BY DEF Restore, ShapeOK
<1>3. w \in Registers  BY <1>2
<1>4. /\ reg' = [r \in Registers |-> reg'[r]]
      /\ \A r \in Registers : r # w => reg'[r] = reg[r]
      /\ ok => reg'[w] = snapshot[w]
  BY <1>1, <1>3 DEF Effect, ShapeOK
<1>5. lost' \in BOOLEAN  BY <1>1 DEF Lost, ShapeOK
<1>6. ShapeOK'
  <2>1. attempted' \in 0..Len(plan')  BY <1>2
  <2> QED  BY <2>1, <1>2, <1>4, <1>5 DEF ShapeOK
<1>7. lost' \/ Untouched'
  <2> SUFFICES ASSUME ~lost' PROVE Untouched'  OBVIOUS
  <2>1. ok /\ ~lost  BY <1>1 DEF Lost
  <2> SUFFICES ASSUME NEW r \in Registers, \A i \in 1..attempted' : plan'[i].reg # r
               PROVE  reg'[r] = snapshot'[r]
    BY DEF Untouched
  <2>2. CASE r = w  BY <2>1, <2>2, <1>2, <1>4
  <2>3. CASE r # w
    <3>1. \A i \in 1..attempted : plan[i].reg # r  BY <1>2, <2>3
    <3>2. reg[r] = snapshot[r]  BY <3>1, <2>1, <1>2 DEF Untouched
    <3> QED  BY <3>2, <2>3, <1>2, <1>4
  <2> QED  BY <2>2, <2>3
<1>8. phase' = "restore" /\ answer' = "none"  BY <1>2
<1> QED  BY <1>6, <1>7, <1>8 DEF FailureRestores

\* Nothing is left to restore: the card is the snapshot, or the loss is named.
LEMMA ThrowKeeps == RestoreInv /\ Throw => RestoreInv'
<1> SUFFICES ASSUME RestoreInv, Throw PROVE RestoreInv'  OBVIOUS
<1> USE DEF RestoreInv, Progress
<1>1. /\ phase = "restore" /\ attempted = 0 /\ phase' = "idle"
      /\ answer' = IF lost THEN "rollback_failed" ELSE "failed"
      /\ UNCHANGED <<reg, op, plan, snapshot, attempted, lost>>
  BY DEF Throw
<1>2. ShapeOK'  BY <1>1 DEF ShapeOK
<1>3. FailureRestores'
  <2> SUFFICES ASSUME answer' = "failed" PROVE reg' = snapshot'  BY DEF FailureRestores
  <2>1. ~lost  BY <1>1
  <2>2. Untouched  BY <2>1, <1>1
  <2>3. \A r \in Registers : reg[r] = snapshot[r]  BY <2>2, <1>1 DEF Untouched
  <2>4. reg = snapshot  BY <2>3 DEF ShapeOK
  <2> QED  BY <2>4, <1>1
<1>4. phase' = "idle"  BY <1>1
<1> QED  BY <1>2, <1>3, <1>4

LEMMA CommitKeeps == RestoreInv /\ Commit => RestoreInv'
<1> SUFFICES ASSUME RestoreInv, Commit PROVE RestoreInv'  OBVIOUS
<1> USE DEF RestoreInv, Progress
<1>1. /\ phase' = "idle" /\ answer' = "ok"
      /\ UNCHANGED <<reg, op, plan, snapshot, attempted, lost>>
  BY DEF Commit
<1>2. ShapeOK'  BY <1>1 DEF ShapeOK
<1> QED  BY <1>1, <1>2 DEF FailureRestores

\* Every setter plans writes to registers the card has.
LEMMA SettersKeep ==
  RestoreInv /\ (SetCounter \/ SetDCOffsetMode \/ SetGain \/ SetGainMode \/ SetIqOrder)
    => RestoreInv'
<1> SUFFICES ASSUME RestoreInv PROVE SetCounter \/ SetDCOffsetMode \/ SetGain
                                     \/ SetGainMode \/ SetIqOrder => RestoreInv'
  OBVIOUS
<1>1. SetCounter => RestoreInv'  BY CounterPlanned, StartKeeps DEF SetCounter
<1>2. SetDCOffsetMode => RestoreInv'
  <2> SUFFICES ASSUME NEW on \in BOOLEAN, Start("dc", on, DcPlan(on)) PROVE RestoreInv'
    BY DEF SetDCOffsetMode
  <2> DEFINE V == {DesiredMask(on), "auto"}
  <2>1. Needed(Mask, DesiredMask(on)) \in Seq(Writes(V))  BY Named, PutTyped
  <2>2. Needed(Mode, "auto") \in Seq(Writes(V))  BY Named, PutTyped
  <2>3. <<>> \in Seq(Writes(V))  OBVIOUS
  <2>4. DcPlan(on) \in Seq(Writes(V))  BY <2>1, <2>2, <2>3, Joined DEF DcPlan
  <2> QED  BY <2>4, StartKeeps
<1>3. SetGain => RestoreInv'
  <2> SUFFICES ASSUME NEW index \in 0..MaxGain, Start("gain", FALSE, GainPlan(index))
               PROVE  RestoreInv'
    BY DEF SetGain
  <2> DEFINE V == {"manual", index}
  <2>1. Needed(GainMode, "manual") \in Seq(Writes(V))  BY Named, PutTyped
  <2>2. <<Put(Gain, index)>> \in Seq(Writes(V))  BY Named, PutTyped
  <2>3. GainPlan(index) \in Seq(Writes(V))  BY <2>1, <2>2, Joined DEF GainPlan
  <2> QED  BY <2>3, StartKeeps
<1>4. SetGainMode => RestoreInv'
  <2> SUFFICES ASSUME NEW on \in BOOLEAN,
                      Start("gain_mode", on, <<Put(GainMode, IF on THEN "auto" ELSE "manual")>>)
               PROVE  RestoreInv'
    BY DEF SetGainMode
  <2>1. <<Put(GainMode, IF on THEN "auto" ELSE "manual")>> \in Seq(Writes({"auto", "manual"}))
    BY Named, PutTyped
  <2> QED  BY <2>1, StartKeeps
<1>5. SetIqOrder => RestoreInv'
  <2> SUFFICES ASSUME NEW on \in BOOLEAN, Start("iq_order", on, <<Put(IqOrder, on)>>)
               PROVE  RestoreInv'
    BY DEF SetIqOrder
  <2>1. <<Put(IqOrder, on)>> \in Seq(Writes(BOOLEAN))  BY Named, PutTyped
  <2> QED  BY <2>1, StartKeeps
<1> QED  BY <1>1, <1>2, <1>3, <1>4, <1>5

LEMMA RestoreInvariant == Spec => []RestoreInv
<1>1. RestoreInv /\ [Next]_vars => RestoreInv'
  <2> SUFFICES ASSUME RestoreInv, [Next]_vars PROVE RestoreInv'  OBVIOUS
  <2>1. CASE SetCounter \/ SetDCOffsetMode \/ SetGain \/ SetGainMode \/ SetIqOrder
    BY <2>1, SettersKeep
  <2>2. CASE Write  BY <2>2, WriteKeeps
  <2>3. CASE Restore  BY <2>3, RestoreKeeps
  <2>4. CASE Throw  BY <2>4, ThrowKeeps
  <2>5. CASE Commit  BY <2>5, CommitKeeps
  <2>6. CASE UNCHANGED vars
    BY <2>6 DEF RestoreInv, ShapeOK, Progress, Untouched, FailureRestores
  <2> QED  BY <2>1, <2>2, <2>3, <2>4, <2>5, <2>6 DEF Next
<1> QED  BY InitKeeps, <1>1, PTL DEF Spec

\* A setter that fails without naming a failed restoration has left the card as
\* it was (Settings.cpp:118-138, RFControls.cpp:123-151).
THEOREM RestoresOrReports == Spec => []FailureRestores
<1>1. RestoreInv => FailureRestores  BY DEF RestoreInv
<1> QED  BY <1>1, RestoreInvariant, PTL

-----------------------------------------------------------------------------
(* What each setter may write, and the caches. *)

OtherAlgorithms(mask) == mask \ {"dc_offset"}

\* The writes p of a setter o that has read the card as s.
Fits(p, o, s) ==
  /\ \A i \in 1..Len(p) :
       /\ \A c \in 1..Channels : p[i].reg = Source(c) => o.name = "counter"
       /\ p[i].reg = IqOrder => o.name = "iq_order"
       /\ p[i].reg = Mask => OtherAlgorithms(p[i].value) = OtherAlgorithms(s[Mask])
       /\ p[i].reg = Mode => o = [name |-> "dc", on |-> TRUE]
  /\ o.name = "counter" => p = CounterPlan(o.on)
  /\ o.name = "iq_order" => p = <<Put(IqOrder, o.on)>>

\* A register the plan does not name is as it was read.
Elsewhere ==
  \A r \in Registers :
    (\A i \in 1..Len(plan) : plan[i].reg # r) => reg[r] = snapshot[r]

PlanInv ==
  phase # "idle" =>
    /\ Fits(plan, op, snapshot)
    /\ Elsewhere
    /\ OtherAlgorithms(reg[Mask]) = OtherAlgorithms(snapshot[Mask])

LEMMA Distinct ==
  /\ Mask # Mode /\ Mask # GainMode /\ Mask # Gain /\ Mask # IqOrder
  /\ Mode # GainMode /\ Mode # Gain /\ Mode # IqOrder
  /\ GainMode # IqOrder /\ Gain # IqOrder
  /\ \A c \in 1..Channels : Source(c) # Mask /\ Source(c) # Mode /\ Source(c) # GainMode
                            /\ Source(c) # Gain /\ Source(c) # IqOrder
  /\ \A c, d \in 1..Channels : Source(c) = Source(d) => c = d
BY DEF Mask, Mode, GainMode, Gain, IqOrder, Source

LEMMA StartPlans ==
  ASSUME NEW n, NEW on, NEW p, Start(n, on, p), Fits(p, [name |-> n, on |-> on], reg)
  PROVE  PlanInv'
BY DEF Start, PlanInv, Elsewhere

\* The plan of each setter.
LEMMA CounterFits ==
  ASSUME NEW on \in BOOLEAN
  PROVE  Fits(CounterPlan(on), [name |-> "counter", on |-> on], reg)
<1>1. /\ Len(CounterPlan(on)) = Channels
      /\ \A i \in 1..Channels : CounterPlan(on)[i].reg = Source(i)
  BY DEF CounterPlan, Put
<1> QED  BY <1>1, Distinct DEF Fits

LEMMA NeededOnly ==
  ASSUME NEW V, NEW r \in Registers, NEW v \in V
  PROVE  /\ Needed(r, v) \in Seq(Writes(V))
         /\ \A i \in 1..Len(Needed(r, v)) : Needed(r, v)[i] = Put(r, v)
<1>1. CASE reg[r] = v
  <2>1. Needed(r, v) = <<>>  BY <1>1 DEF Needed
  <2> QED  BY <2>1
<1>2. CASE reg[r] # v
  <2>1. Needed(r, v) = <<Put(r, v)>>  BY <1>2 DEF Needed
  <2> QED  BY <2>1, PutTyped
<1> QED  BY <1>1, <1>2

\* The DC-offset setter writes the mask it wants, and the mode only to switch on.
LEMMA DcWrites ==
  ASSUME NEW on \in BOOLEAN, NEW i \in 1..Len(DcPlan(on))
  PROVE  \/ DcPlan(on)[i] = Put(Mask, DesiredMask(on))
         \/ on = TRUE /\ DcPlan(on)[i] = Put(Mode, "auto")
<1> DEFINE a == Needed(Mask, DesiredMask(on))
           b == IF on THEN Needed(Mode, "auto") ELSE <<>>
           V == {DesiredMask(on), "auto"}
<1>1. a \in Seq(Writes(V)) /\ (\A j \in 1..Len(a) : a[j] = Put(Mask, DesiredMask(on)))
  BY Named, NeededOnly
<1>2. b \in Seq(Writes(V)) /\ (\A j \in 1..Len(b) : on = TRUE /\ b[j] = Put(Mode, "auto"))
  <2>1. CASE on
    <3>1. b = Needed(Mode, "auto")  BY <2>1
    <3> QED  BY <2>1, <3>1, Named, NeededOnly
  <2>2. CASE ~on
    <3>1. b = <<>>  BY <2>2
    <3> HIDE DEF b, V
    <3> QED  BY <3>1
  <2> QED  BY <2>1, <2>2
<1>3. DcPlan(on) = a \o b  BY DEF DcPlan
<1> HIDE DEF a, b, V
<1>4. Len(a) \in Nat /\ Len(b) \in Nat /\ Len(a \o b) = Len(a) + Len(b)
  BY <1>1, <1>2
<1>5. CASE i <= Len(a)
  <2>1. i \in 1..Len(a) /\ (a \o b)[i] = a[i]  BY <1>1, <1>2, <1>3, <1>4, <1>5
  <2> QED  BY <2>1, <1>1, <1>3
<1>6. CASE i > Len(a)
  <2>1. i - Len(a) \in 1..Len(b) /\ (a \o b)[i] = b[i - Len(a)]
    BY <1>1, <1>2, <1>3, <1>4, <1>6
  <2> QED  BY <2>1, <1>2, <1>3
<1>7. i \in Nat  BY <1>4, <1>3
<1>8. i <= Len(a) \/ i > Len(a)  BY <1>4, <1>7
<1> QED  BY <1>5, <1>6, <1>8

LEMMA DcFits ==
  ASSUME NEW on \in BOOLEAN
  PROVE  Fits(DcPlan(on), [name |-> "dc", on |-> on], reg)
<1>1. OtherAlgorithms(DesiredMask(on)) = OtherAlgorithms(reg[Mask])
  BY DEF OtherAlgorithms, DesiredMask
<1>2. ASSUME NEW i \in 1..Len(DcPlan(on))
      PROVE  /\ \A c \in 1..Channels : DcPlan(on)[i].reg # Source(c)
             /\ DcPlan(on)[i].reg # IqOrder
             /\ DcPlan(on)[i].reg = Mask =>
                  OtherAlgorithms(DcPlan(on)[i].value) = OtherAlgorithms(reg[Mask])
             /\ DcPlan(on)[i].reg = Mode => on = TRUE
  <2>1. CASE DcPlan(on)[i] = Put(Mask, DesiredMask(on))
    <3>1. DcPlan(on)[i].reg = Mask /\ DcPlan(on)[i].value = DesiredMask(on)
      BY <2>1 DEF Put
    <3> QED  BY <3>1, <1>1, Distinct
  <2>2. CASE on = TRUE /\ DcPlan(on)[i] = Put(Mode, "auto")
    <3>1. DcPlan(on)[i].reg = Mode  BY <2>2 DEF Put
    <3> QED  BY <2>2, <3>1, Distinct
  <2> QED  BY DcWrites, <2>1, <2>2
<1> QED  BY <1>2 DEF Fits

LEMMA GainFits ==
  ASSUME NEW index \in 0..MaxGain
  PROVE  Fits(GainPlan(index), [name |-> "gain", on |-> FALSE], reg)
<1>1. \A i \in 1..Len(GainPlan(index)) : GainPlan(index)[i].reg \in {GainMode, Gain}
  BY DEF GainPlan, Needed, Put
<1> QED  BY <1>1, Distinct DEF Fits

LEMMA SettersPlan ==
  SetCounter \/ SetDCOffsetMode \/ SetGain \/ SetGainMode \/ SetIqOrder => PlanInv'
<1>1. SetCounter => PlanInv'  BY CounterFits, StartPlans DEF SetCounter
<1>2. SetDCOffsetMode => PlanInv'  BY DcFits, StartPlans DEF SetDCOffsetMode
<1>3. SetGain => PlanInv'  BY GainFits, StartPlans DEF SetGain
<1>4. SetGainMode => PlanInv'
  <2> SUFFICES ASSUME NEW on \in BOOLEAN,
                      Start("gain_mode", on, <<Put(GainMode, IF on THEN "auto" ELSE "manual")>>)
               PROVE  PlanInv'
    BY DEF SetGainMode
  <2>1. Fits(<<Put(GainMode, IF on THEN "auto" ELSE "manual")>>,
             [name |-> "gain_mode", on |-> on], reg)
    BY Distinct DEF Fits, Put
  <2> QED  BY <2>1, StartPlans
<1>5. SetIqOrder => PlanInv'
  <2> SUFFICES ASSUME NEW on \in BOOLEAN, Start("iq_order", on, <<Put(IqOrder, on)>>)
               PROVE  PlanInv'
    BY DEF SetIqOrder
  <2>1. Fits(<<Put(IqOrder, on)>>, [name |-> "iq_order", on |-> on], reg)
    BY Distinct DEF Fits, Put
  <2> QED  BY <2>1, StartPlans
<1> QED  BY <1>1, <1>2, <1>3, <1>4, <1>5

\* An SDK write of the plan, or of a register the plan names back to its snapshot.
PlannedEffect ==
  \E i \in 1..Len(plan), ok \in BOOLEAN :
    Effect(ok, plan[i].reg, plan[i].value) \/ Effect(ok, plan[i].reg, snapshot[plan[i].reg])

LEMMA WritesPlanned ==
  ASSUME RestoreInv, Write \/ Restore
  PROVE  PlannedEffect /\ phase # "idle" /\ UNCHANGED <<op, plan, snapshot, counter, iq_swap>>
<1>1. attempted \in 0..Len(plan) /\ Len(plan) \in Nat  BY DEF RestoreInv, ShapeOK
<1>2. CASE Write
  <2>1. attempted + 1 \in 1..Len(plan)  BY <1>1, <1>2 DEF Write
  <2> QED  BY <2>1, <1>2 DEF Write, PlannedEffect
<1>3. CASE Restore
  <2>1. attempted \in 1..Len(plan)  BY <1>1, <1>3 DEF Restore
  <2> QED  BY <2>1, <1>3 DEF Restore, PlannedEffect
<1> QED  BY <1>2, <1>3

LEMMA EffectKeepsPlan ==
  ASSUME RestoreInv, PlanInv, PlannedEffect, phase # "idle", UNCHANGED <<op, plan, snapshot>>
  PROVE  /\ PlanInv' /\ Elsewhere'
         /\ OtherAlgorithms(reg'[Mask]) = OtherAlgorithms(reg[Mask])
         /\ reg'[Mode] # reg[Mode] => op = [name |-> "dc", on |-> TRUE]
<1>1. PICK i \in 1..Len(plan), ok \in BOOLEAN :
        \/ Effect(ok, plan[i].reg, plan[i].value)
        \/ Effect(ok, plan[i].reg, snapshot[plan[i].reg])
  BY DEF PlannedEffect
<1>2. plan[i].reg \in Registers /\ reg = [r \in Registers |-> reg[r]]
  BY DEF RestoreInv, ShapeOK
<1>3. /\ \A r \in Registers : r # plan[i].reg => reg'[r] = reg[r]
      /\ reg'[plan[i].reg] \in {reg[plan[i].reg], plan[i].value, snapshot[plan[i].reg]}
  BY <1>1, <1>2 DEF Effect
<1>4. Fits(plan, op, snapshot) /\ Elsewhere
      /\ OtherAlgorithms(reg[Mask]) = OtherAlgorithms(snapshot[Mask])
  BY DEF PlanInv
<1>5. OtherAlgorithms(reg'[Mask]) = OtherAlgorithms(reg[Mask])
  <2>1. CASE plan[i].reg = Mask  BY <2>1, <1>3, <1>4 DEF Fits
  <2>2. CASE plan[i].reg # Mask  BY <2>2, <1>3, Named
  <2> QED  BY <2>1, <2>2
<1>6. reg'[Mode] # reg[Mode] => op = [name |-> "dc", on |-> TRUE]
  BY <1>3, <1>4, Named DEF Fits
<1>7. Elsewhere'
  BY <1>3, <1>4 DEF Elsewhere
<1> QED  BY <1>4, <1>5, <1>6, <1>7 DEF PlanInv

LEMMA Calls == Next => \/ SetCounter \/ SetDCOffsetMode \/ SetGain \/ SetGainMode \/ SetIqOrder
                       \/ Write \/ Restore
                       \/ /\ Throw \/ Commit
                          /\ phase' = "idle" /\ UNCHANGED <<reg, op, plan, snapshot>>
BY DEF Next, Throw, Commit

LEMMA PlanStep ==
  ASSUME RestoreInv, PlanInv, [Next]_vars
  PROVE  /\ PlanInv'
         /\ \/ UNCHANGED reg
            \/ /\ OtherAlgorithms(reg'[Mask]) = OtherAlgorithms(reg[Mask])
               /\ reg'[Mode] # reg[Mode] => op = [name |-> "dc", on |-> TRUE]
<1>1. CASE SetCounter \/ SetDCOffsetMode \/ SetGain \/ SetGainMode \/ SetIqOrder
  BY <1>1, SettersPlan DEF SetCounter, SetDCOffsetMode, SetGain, SetGainMode, SetIqOrder, Start
<1>2. CASE Write \/ Restore
  BY <1>2, WritesPlanned, EffectKeepsPlan
<1>3. CASE phase' = "idle" /\ UNCHANGED reg
  BY <1>3 DEF PlanInv
<1>4. CASE UNCHANGED vars
  BY <1>4 DEF PlanInv, Elsewhere, Fits
<1> QED  BY <1>1, <1>2, <1>3, <1>4, Calls

LEMMA PlanInvariant == Spec => [](RestoreInv /\ PlanInv)
<1>1. Init => PlanInv
  BY DEF Init, PlanInv
<1> QED  BY <1>1, RestoreInvariant, PlanStep, PTL DEF Spec

\* Only the DC-offset setter touches the shared calibration state, and it keeps what
\* belongs to the other algorithms, in every failure and restoration
\* (RFControls.cpp:111-113, 133-136).
THEOREM CalibrationShared == Spec => SharedCalibrationKept
<1>1. RestoreInv /\ PlanInv /\ [Next]_vars =>
        [/\ reg'[Mask] \ {"dc_offset"} = reg[Mask] \ {"dc_offset"}
         /\ reg'[Mode] # reg[Mode] => op = [name |-> "dc", on |-> TRUE]]_vars
  BY PlanStep DEF OtherAlgorithms
<1> QED  BY <1>1, PlanInvariant, PTL DEF Spec, SharedCalibrationKept

\* What the caches are about: the card between calls, and what the call in
\* progress has found.
Trusted == IF phase = "idle" THEN reg ELSE snapshot

CacheInv ==
  /\ "counter" \notin doubtful =>
       \A c \in 1..Channels : Trusted[Source(c)] = SelectedSource(c)
  /\ "iq_order" \notin doubtful => Trusted[IqOrder] = iq_swap
  /\ phase = "write" /\ op.name = "counter" =>
       \A c \in 1..Channels : c <= attempted => reg[Source(c)] = CounterSource(op.on)
  /\ phase = "write" /\ op.name = "iq_order" /\ attempted > 0 => reg[IqOrder] = op.on

SettingInv == RestoreInv /\ PlanInv /\ CacheInv

\* The registers of a cached setting are untouched by every other setter.
LEMMA OthersKeep ==
  ASSUME phase # "idle", PlanInv, Elsewhere'
  PROVE  /\ UNCHANGED <<plan, snapshot>> /\ op.name # "counter" =>
              \A c \in 1..Channels : reg'[Source(c)] = snapshot[Source(c)]
         /\ UNCHANGED <<plan, snapshot>> /\ op.name # "iq_order" =>
              reg'[IqOrder] = snapshot[IqOrder]
<1>1. Fits(plan, op, snapshot)  BY DEF PlanInv
<1>2. \A c \in 1..Channels : Source(c) \in Registers  BY DEF Registers
<1> QED  BY <1>1, <1>2, Named DEF Fits, Elsewhere

LEMMA CacheStart ==
  SettingInv /\ (SetCounter \/ SetDCOffsetMode \/ SetGain \/ SetGainMode \/ SetIqOrder)
    => CacheInv'
<1> SUFFICES ASSUME SettingInv, NEW n, NEW on, NEW p, Start(n, on, p) PROVE CacheInv'
  BY DEF SetCounter, SetDCOffsetMode, SetGain, SetGainMode, SetIqOrder
<1>1. /\ phase = "idle" /\ phase' = "write" /\ attempted' = 0 /\ snapshot' = reg
      /\ UNCHANGED <<reg, counter, iq_swap, standing, selected, doubtful>>
  BY DEF Start
<1>2. \A c \in 1..Channels : ~ (c <= 0)  OBVIOUS
<1> QED  BY <1>1, <1>2 DEF SettingInv, CacheInv, Trusted, SelectedSource

LEMMA CacheWrite == SettingInv /\ Write => CacheInv'
<1> SUFFICES ASSUME SettingInv, Write PROVE CacheInv'  OBVIOUS
<1>1. PICK ok \in BOOLEAN :
        /\ Effect(ok, plan[attempted + 1].reg, plan[attempted + 1].value)
        /\ attempted' = Attempted(ok)
        /\ IF ok THEN UNCHANGED <<phase, answer, doubtful>>
           ELSE IF Compensated(op)
                THEN phase' = "restore" /\ UNCHANGED <<answer, doubtful>>
                ELSE /\ phase' = "idle" /\ answer' = "failed"
                     /\ doubtful' = doubtful \cup ({op.name} \cap Cached)
  BY DEF Write
<1>2. /\ phase = "write" /\ attempted \in Nat /\ attempted < Len(plan) /\ Len(plan) \in Nat
      /\ UNCHANGED <<op, plan, snapshot, counter, iq_swap, standing, selected>>
      /\ attempted' = attempted + 1
      /\ reg = [r \in Registers |-> reg[r]] /\ \A i \in 1..Len(plan) : plan[i].reg \in Registers
  BY <1>1 DEF Write, SettingInv, RestoreInv, ShapeOK, Attempted
<1>3. Elsewhere' /\ Fits(plan, op, snapshot)
  BY <1>2, WritesPlanned, EffectKeepsPlan DEF SettingInv, PlanInv
<1>4. CASE ok
  <2> DEFINE w == plan[attempted + 1].reg
  <2>1. w \in Registers  BY <1>2
  <2>2. /\ reg'[w] = plan[attempted + 1].value
        /\ \A r \in Registers : r # w => reg'[r] = reg[r]
    BY <1>1, <1>2, <1>4, <2>1 DEF Effect
  <2>3. phase' = "write" /\ UNCHANGED doubtful  BY <1>1, <1>2, <1>4
  <2>4. ASSUME op.name = "counter", NEW c \in 1..Channels, c <= attempted'
        PROVE  reg'[Source(c)] = CounterSource(op.on)
    <3>1. plan = CounterPlan(op.on)  BY <1>3, <2>4 DEF Fits
    <3>2. Len(plan) = Channels /\ attempted + 1 \in 1..Channels
      BY <3>1, <1>2 DEF CounterPlan
    <3>3. w = Source(attempted + 1) /\ plan[attempted + 1].value = CounterSource(op.on)
      BY <3>1, <3>2 DEF CounterPlan, Put, CounterSource
    <3>4. CASE c = attempted + 1  BY <3>3, <3>4, <2>2
    <3>5. CASE c # attempted + 1
      <4>1. c <= attempted  BY <3>5, <2>4, <1>2
      <4>2. reg[Source(c)] = CounterSource(op.on)
        BY <4>1, <2>4, <1>2 DEF SettingInv, CacheInv
      <4>3. Source(c) # w /\ Source(c) \in Registers
        BY <3>2, <3>3, <3>5, Distinct DEF Registers
      <4> QED  BY <4>2, <4>3, <2>2
    <3> QED  BY <3>4, <3>5
  <2>5. ASSUME op.name = "iq_order" PROVE reg'[IqOrder] = op.on
    <3>1. plan = <<Put(IqOrder, op.on)>>  BY <1>3, <2>5 DEF Fits
    <3>2. attempted = 0  BY <3>1, <1>2
    <3>3. plan[1] = Put(IqOrder, op.on)  BY <3>1
    <3> QED  BY <3>2, <3>3, <2>2 DEF Put
  <2> QED  BY <2>3, <2>4, <2>5, <1>2 DEF SettingInv, CacheInv, Trusted, SelectedSource, Cached
<1>5. CASE ~ok /\ Compensated(op)
  <2>1. phase' = "restore" /\ UNCHANGED doubtful  BY <1>1, <1>5
  <2> QED  BY <2>1, <1>2 DEF SettingInv, CacheInv, Trusted, SelectedSource, Cached
<1>6. CASE ~ok /\ ~Compensated(op)
  <2>1. phase' = "idle" /\ doubtful' = doubtful \cup ({op.name} \cap Cached)  BY <1>1, <1>6
  <2>2. op.name # "counter"  BY <1>6 DEF Compensated
  <2> QED  BY <2>1, <2>2, <1>2, <1>3, OthersKeep DEF SettingInv, CacheInv, Trusted, SelectedSource, Cached
<1> QED  BY <1>4, <1>5, <1>6

LEMMA CacheRestore == SettingInv /\ Restore => CacheInv'
BY DEF Restore, SettingInv, CacheInv, Trusted, SelectedSource, Cached

LEMMA CacheThrow == SettingInv /\ Throw => CacheInv'
<1> SUFFICES ASSUME SettingInv, Throw PROVE CacheInv'  OBVIOUS
<1>1. /\ phase = "restore" /\ attempted = 0 /\ phase' = "idle"
      /\ doubtful' = IF lost THEN doubtful \cup ({op.name} \cap Cached) ELSE doubtful
      /\ UNCHANGED <<reg, counter, iq_swap, standing, selected, op, plan, snapshot>>
  BY DEF Throw
<1>2. CASE lost
  <2>1. Elsewhere'  BY <1>1 DEF SettingInv, PlanInv, Elsewhere
  <2> QED  BY <2>1, <1>1, <1>2, OthersKeep DEF SettingInv, CacheInv, Trusted, SelectedSource, Cached
<1>3. CASE ~lost
  <2>1. \A r \in Registers : reg[r] = snapshot[r]
    BY <1>1, <1>3 DEF SettingInv, RestoreInv, Progress, Untouched
  <2>2. (\A c \in 1..Channels : Source(c) \in Registers) /\ IqOrder \in Registers
    BY DEF Registers
  <2> QED  BY <2>1, <2>2, <1>1, <1>3 DEF SettingInv, CacheInv, Trusted, SelectedSource, Cached
<1> QED  BY <1>2, <1>3

LEMMA CacheCommit == SettingInv /\ Commit => CacheInv'
<1> SUFFICES ASSUME SettingInv, Commit PROVE CacheInv'  OBVIOUS
<1>1. /\ phase = "write" /\ attempted = Len(plan) /\ phase' = "idle"
      /\ counter' = IF op.name = "counter" THEN op.on ELSE counter
      /\ iq_swap' = IF op.name = "iq_order" THEN op.on ELSE iq_swap
      /\ op.name # "counter" => standing' = standing
      /\ doubtful' = doubtful \ {op.name}
      /\ UNCHANGED <<reg, op, plan, snapshot>>
  BY DEF Commit
<1>2. Elsewhere' /\ Fits(plan, op, snapshot)
  BY <1>1 DEF SettingInv, PlanInv, Elsewhere
<1>3. ASSUME "counter" \notin doubtful', NEW c \in 1..Channels
      PROVE  reg'[Source(c)] = SelectedSource(c)'
  <2>1. CASE op.name = "counter"
    <3>1. plan = CounterPlan(op.on)  BY <2>1, <1>2 DEF Fits
    <3>2. Len(plan) = Channels  BY <3>1 DEF CounterPlan
    <3>3. c <= attempted  BY <3>2, <1>1
    <3>4. reg[Source(c)] = CounterSource(op.on)
      BY <3>3, <2>1, <1>1 DEF SettingInv, CacheInv
    <3>5. selected'
      BY <2>1, Zenon DEF Commit
    <3> QED  BY <3>4, <3>5, <2>1, <1>1 DEF SelectedSource
  <2>2. CASE op.name # "counter"
    <3>1. "counter" \notin doubtful  BY <2>2, <1>1, <1>3
    <3>2. snapshot[Source(c)] = SelectedSource(c)
      BY <3>1, <1>1 DEF SettingInv, CacheInv, Trusted
    <3>3. reg'[Source(c)] = snapshot[Source(c)]
      BY <2>2, <1>1, <1>2, OthersKeep DEF SettingInv
    <3>4. selected' <=> selected
      BY <2>2, Zenon DEF Commit
    <3> QED  BY <3>2, <3>3, <3>4, <2>2, <1>1 DEF SelectedSource
  <2> QED  BY <2>1, <2>2
<1>4. ASSUME "iq_order" \notin doubtful' PROVE reg'[IqOrder] = iq_swap'
  <2>1. CASE op.name = "iq_order"
    <3>1. plan = <<Put(IqOrder, op.on)>>  BY <2>1, <1>2 DEF Fits
    <3>2. attempted > 0  BY <3>1, <1>1
    <3> QED  BY <3>2, <2>1, <1>1 DEF SettingInv, CacheInv
  <2>2. CASE op.name # "iq_order"
    <3>1. "iq_order" \notin doubtful /\ iq_swap' = iq_swap  BY <2>2, <1>1, <1>4
    <3>2. snapshot[IqOrder] = iq_swap
      BY <3>1, <1>1 DEF SettingInv, CacheInv, Trusted
    <3> QED  BY <3>1, <3>2, <2>2, <1>1, <1>2, OthersKeep DEF SettingInv
  <2> QED  BY <2>1, <2>2
<1> QED  BY <1>1, <1>3, <1>4 DEF CacheInv, Trusted

\* What the card comes up with, register by register.
LEMMA PowerUp ==
  ASSUME Init
  PROVE  \E s \in [1..Channels -> Sources], m \in SUBSET Algorithms, a \in {"manual", "auto"} :
           /\ standing = s
           /\ \A c \in 1..Channels : reg[Source(c)] = s[c]
           /\ reg[Mask] = m /\ reg[Mode] = a /\ reg[GainMode] = "manual" /\ reg[Gain] = 0
           /\ reg[IqOrder] = TRUE
<1>1. PICK s \in [1..Channels -> Sources], m \in SUBSET Algorithms, a \in {"manual", "auto"} :
        /\ reg = [r \in Registers |->
                    CASE r[1] = "source" -> s[r[2]]
                      [] r = Mask -> m
                      [] r = Mode -> a
                      [] r = GainMode -> "manual"
                      [] r = Gain -> 0
                      [] r = IqOrder -> TRUE]
        /\ standing = s
  BY DEF Init
<1>2. /\ Mask[1] # "source" /\ Mode[1] # "source" /\ GainMode[1] # "source"
      /\ Gain[1] # "source" /\ IqOrder[1] # "source" /\ Gain # GainMode
      /\ \A c \in 1..Channels : Source(c)[1] = "source" /\ Source(c)[2] = c
      /\ \A c \in 1..Channels : Source(c) \in Registers
  BY DEF Mask, Mode, GainMode, Gain, IqOrder, Source, Registers
<1>3. /\ \A c \in 1..Channels : reg[Source(c)] = s[c]
      /\ reg[Mask] = m /\ reg[Mode] = a /\ reg[GainMode] = "manual" /\ reg[Gain] = 0
      /\ reg[IqOrder] = TRUE
  BY <1>1, <1>2, Distinct, Named
<1> QED  BY <1>1, <1>3

LEMMA CacheInit == Init => CacheInv
<1> SUFFICES ASSUME Init PROVE CacheInv  OBVIOUS
<1>1. /\ \A c \in 1..Channels : reg[Source(c)] = standing[c]
      /\ reg[IqOrder] = TRUE
  BY PowerUp
<1>2. phase = "idle" /\ iq_swap = TRUE /\ selected = FALSE
  BY DEF Init
<1> QED  BY <1>1, <1>2 DEF CacheInv, Trusted, SelectedSource

\* Every channel has the source the last successful counter call selected or, before
\* the first, the one it came up with, and the card the I/Q order that readSetting
\* answers, for any number of channels and any order of calls that succeed, or fail
\* and restore what they had written; a failed write of the I/Q order is restored by
\* nobody and leaves the order open until one succeeds (Settings.cpp:86-140).
THEOREM CachesTrue == Spec => []CacheAgrees
<1>1. SettingInv /\ [Next]_vars => CacheInv'
  <2> SUFFICES ASSUME SettingInv, [Next]_vars PROVE CacheInv'  OBVIOUS
  <2>1. CASE UNCHANGED vars
    BY <2>1 DEF SettingInv, CacheInv, Trusted, SelectedSource
  <2> QED  BY <2>1, CacheStart, CacheWrite, CacheRestore, CacheThrow, CacheCommit DEF Next
<1>2. CacheInv => CacheAgrees
  BY DEF CacheInv, CacheAgrees, Trusted
<1> QED  BY <1>1, <1>2, CacheInit, PlanInvariant, PTL DEF Spec, SettingInv


-----------------------------------------------------------------------------
(* Types: a register only ever holds a value of its own kind.  The values a   *)
(* restoration writes are those of the snapshot, which the card held.         *)

Fitting(r, v) ==
  /\ \A c \in 1..Channels : r = Source(c) => v \in Sources
  /\ r = Mask => v \subseteq Algorithms
  /\ r = Mode \/ r = GainMode => v \in {"manual", "auto"}
  /\ r = Gain => v \in 0..MaxGain
  /\ r = IqOrder => v \in BOOLEAN

CardTyped(card) == \A r \in Registers : Fitting(r, card[r])

CallTyped ==
  /\ op \in Setters /\ counter \in BOOLEAN /\ iq_swap \in BOOLEAN
  /\ standing \in [1..Channels -> Sources]
  /\ selected \in BOOLEAN /\ doubtful \subseteq Cached
  /\ answer \in {"none", "ok", "failed", "rollback_failed"}

TypeInv ==
  /\ CardTyped(reg) /\ CardTyped(snapshot)
  /\ \A i \in 1..Len(plan) : Fitting(plan[i].reg, plan[i].value)
  /\ CallTyped

LEMMA FittingValues ==
  /\ \A c \in 1..Channels : \A v \in Sources : Fitting(Source(c), v)
  /\ \A v \in SUBSET Algorithms : Fitting(Mask, v)
  /\ \A v \in {"manual", "auto"} : Fitting(Mode, v) /\ Fitting(GainMode, v)
  /\ \A v \in 0..MaxGain : Fitting(Gain, v)
  /\ \A v \in BOOLEAN : Fitting(IqOrder, v)
<1>1. GainMode # Gain  BY DEF GainMode, Gain
<1> QED  BY <1>1, Distinct DEF Fitting

LEMMA RegisterTypes ==
  ASSUME NEW card, CardTyped(card)
  PROVE  /\ \A c \in 1..Channels : card[Source(c)] \in Sources
         /\ card[Mask] \subseteq Algorithms
         /\ card[Mode] \in {"manual", "auto"} /\ card[GainMode] \in {"manual", "auto"}
         /\ card[Gain] \in 0..MaxGain /\ card[IqOrder] \in BOOLEAN
<1>1. \A c \in 1..Channels : Source(c) \in Registers  BY DEF Registers
<1> QED  BY <1>1, Named DEF CardTyped, Fitting

\* A call of a setter whose plan has values of the right kinds.
LEMMA StartTyped ==
  ASSUME TypeInv, NEW n \in {"counter", "dc", "gain", "gain_mode", "iq_order"},
         NEW on \in BOOLEAN, NEW p, Start(n, on, p),
         \A i \in 1..Len(p) : Fitting(p[i].reg, p[i].value)
  PROVE  TypeInv'
<1>1. [name |-> n, on |-> on] \in Setters  BY DEF Setters
<1>2. /\ op' = [name |-> n, on |-> on] /\ plan' = p /\ snapshot' = reg /\ reg' = reg
      /\ answer' = "none" /\ counter' = counter /\ iq_swap' = iq_swap
      /\ doubtful' = doubtful /\ selected' = selected /\ standing' = standing
  BY DEF Start
<1>3. CallTyped'
  BY <1>1, <1>2 DEF TypeInv, CallTyped, Setters
<1> QED  BY <1>2, <1>3 DEF TypeInv, CardTyped, Fitting

LEMMA PutFitting ==
  ASSUME NEW r, NEW v, Fitting(r, v)
  PROVE  /\ \A i \in 1..Len(<<Put(r, v)>>) :
               Fitting(<<Put(r, v)>>[i].reg, <<Put(r, v)>>[i].value)
         /\ \A w : w = Put(r, v) => Fitting(w.reg, w.value)
BY DEF Put

LEMMA SettersTyped ==
  ASSUME TypeInv
  PROVE  SetCounter \/ SetDCOffsetMode \/ SetGain \/ SetGainMode \/ SetIqOrder => TypeInv'
<1>1. SetCounter => TypeInv'
  <2> SUFFICES ASSUME NEW on \in BOOLEAN, Start("counter", on, CounterPlan(on)) PROVE TypeInv'
    BY DEF SetCounter
  <2>1. /\ Len(CounterPlan(on)) = Channels
        /\ \A i \in 1..Channels : CounterPlan(on)[i] = Put(Source(i), CounterSource(on))
    BY DEF CounterPlan
  <2>2. CounterSource(on) \in Sources  BY DEF CounterSource, Sources
  <2>3. \A i \in 1..Len(CounterPlan(on)) : Fitting(CounterPlan(on)[i].reg, CounterPlan(on)[i].value)
    BY <2>1, <2>2, FittingValues, PutFitting
  <2> QED  BY <2>3, StartTyped
<1>2. SetDCOffsetMode => TypeInv'
  <2> SUFFICES ASSUME NEW on \in BOOLEAN, Start("dc", on, DcPlan(on)) PROVE TypeInv'
    BY DEF SetDCOffsetMode
  <2>1. DesiredMask(on) \in SUBSET Algorithms
    BY RegisterTypes DEF TypeInv, DesiredMask, Algorithms
  <2>2. Fitting(Mask, DesiredMask(on)) /\ Fitting(Mode, "auto")
    BY <2>1, FittingValues
  <2>3. \A i \in 1..Len(DcPlan(on)) : Fitting(DcPlan(on)[i].reg, DcPlan(on)[i].value)
    BY <2>2, DcWrites, PutFitting
  <2> QED  BY <2>3, StartTyped
<1>3. SetGain => TypeInv'
  <2> SUFFICES ASSUME NEW index \in 0..MaxGain, Start("gain", FALSE, GainPlan(index))
               PROVE  TypeInv'
    BY DEF SetGain
  <2>1. Fitting(GainMode, "manual") /\ Fitting(Gain, index)  BY FittingValues
  <2>2. \A i \in 1..Len(GainPlan(index)) :
          GainPlan(index)[i] \in {Put(GainMode, "manual"), Put(Gain, index)}
    BY DEF GainPlan, Needed, Put
  <2>3. \A i \in 1..Len(GainPlan(index)) : Fitting(GainPlan(index)[i].reg, GainPlan(index)[i].value)
    BY <2>1, <2>2, PutFitting
  <2> QED  BY <2>3, StartTyped
<1>4. SetGainMode => TypeInv'
  <2> SUFFICES ASSUME NEW on \in BOOLEAN,
                      Start("gain_mode", on, <<Put(GainMode, IF on THEN "auto" ELSE "manual")>>)
               PROVE  TypeInv'
    BY DEF SetGainMode
  <2>1. Fitting(GainMode, IF on THEN "auto" ELSE "manual")  BY FittingValues
  <2> QED  BY <2>1, PutFitting, StartTyped
<1>5. SetIqOrder => TypeInv'
  <2> SUFFICES ASSUME NEW on \in BOOLEAN, Start("iq_order", on, <<Put(IqOrder, on)>>)
               PROVE  TypeInv'
    BY DEF SetIqOrder
  <2>1. Fitting(IqOrder, on)  BY FittingValues
  <2> QED  BY <2>1, PutFitting, StartTyped
<1> QED  BY <1>1, <1>2, <1>3, <1>4, <1>5

LEMMA TypeInit == Init => TypeInv
<1> SUFFICES ASSUME Init PROVE TypeInv  OBVIOUS
<1>1. PICK s \in [1..Channels -> Sources], m \in SUBSET Algorithms, a \in {"manual", "auto"} :
        /\ standing = s
        /\ \A c \in 1..Channels : reg[Source(c)] = s[c]
        /\ reg[Mask] = m /\ reg[Mode] = a /\ reg[GainMode] = "manual" /\ reg[Gain] = 0
        /\ reg[IqOrder] = TRUE
  BY PowerUp
<1>2. CardTyped(reg)
  <2>1. \A c \in 1..Channels : Fitting(Source(c), reg[Source(c)])
    BY <1>1, FittingValues
  <2>2. /\ Fitting(Mask, reg[Mask]) /\ Fitting(Mode, reg[Mode])
        /\ Fitting(GainMode, reg[GainMode])
    BY <1>1, FittingValues
  <2>3. Fitting(Gain, reg[Gain])  BY <1>1, FittingValues
  <2>4. Fitting(IqOrder, reg[IqOrder])
    <3>1. \A v \in BOOLEAN : Fitting(IqOrder, v)  BY FittingValues
    <3> QED  BY <1>1, <3>1, Zenon
  <2> QED  BY <2>1, <2>2, <2>3, <2>4 DEF CardTyped, Registers
<1>3. CallTyped
  <2>1. op \in Setters  BY DEF Init, Setters
  <2>2. counter \in BOOLEAN /\ iq_swap \in BOOLEAN  BY Zenon DEF Init
  <2>3. doubtful = {} /\ answer = "none"  BY DEF Init
  <2>4. selected \in BOOLEAN  BY Zenon DEF Init
  <2>5. standing \in [1..Channels -> Sources]  BY <1>1
  <2> QED  BY <2>1, <2>2, <2>3, <2>4, <2>5 DEF CallTyped
<1>4. snapshot = reg /\ plan = <<>>  BY DEF Init
<1> QED  BY <1>2, <1>3, <1>4 DEF TypeInv

LEMMA TypeStep ==
  ASSUME RestoreInv, TypeInv, [Next]_vars
  PROVE  TypeInv'
<1>1. CASE SetCounter \/ SetDCOffsetMode \/ SetGain \/ SetGainMode \/ SetIqOrder
  BY <1>1, SettersTyped
<1>2. CASE Write \/ Restore
  <2>1. PICK i \in 1..Len(plan), ok \in BOOLEAN :
          \/ Effect(ok, plan[i].reg, plan[i].value)
          \/ Effect(ok, plan[i].reg, snapshot[plan[i].reg])
    BY <1>2, WritesPlanned DEF PlannedEffect
  <2>2. plan[i].reg \in Registers /\ reg = [r \in Registers |-> reg[r]]
    BY DEF RestoreInv, ShapeOK
  <2>3. /\ Fitting(plan[i].reg, plan[i].value)
        /\ Fitting(plan[i].reg, snapshot[plan[i].reg])
        /\ Fitting(plan[i].reg, reg[plan[i].reg])
    BY <2>2 DEF TypeInv, CardTyped
  <2>4. /\ \A r \in Registers : r # plan[i].reg => reg'[r] = reg[r]
        /\ reg'[plan[i].reg] \in {reg[plan[i].reg], plan[i].value, snapshot[plan[i].reg]}
    BY <2>1, <2>2 DEF Effect
  <2>5. \A r \in Registers : Fitting(r, reg'[r])
    BY <2>2, <2>3, <2>4 DEF TypeInv, CardTyped
  <2>6. UNCHANGED <<op, plan, snapshot, counter, iq_swap>>
    BY <1>2, WritesPlanned
  <2>7. /\ doubtful' \subseteq doubtful \cup Cached /\ selected' = selected
        /\ standing' = standing
        /\ answer' \in {answer, "failed"}
    BY <1>2 DEF Write, Restore
  <2> QED  BY <2>5, <2>6, <2>7 DEF TypeInv, CardTyped, CallTyped, Fitting, Registers, Setters
<1>3. CASE Throw
  <2>1. doubtful' \subseteq doubtful \cup Cached /\ answer' \in {"failed", "rollback_failed"}
    BY <1>3 DEF Throw
  <2> QED  BY <1>3, <2>1 DEF Throw, TypeInv, CardTyped, CallTyped, Fitting, Registers, Setters
<1>4. CASE Commit
  <2>1. op.on \in BOOLEAN  BY DEF TypeInv, CallTyped, Setters
  <2>2. counter' \in {counter, op.on} /\ iq_swap' \in {iq_swap, op.on}
    BY <1>4 DEF Commit
  <2>3. doubtful' \subseteq doubtful /\ answer' = "ok"
    BY <1>4 DEF Commit
  <2>4. selected' \in BOOLEAN
    BY <1>4, Zenon DEF Commit, TypeInv, CallTyped
  <2>5. standing' \in [1..Channels -> Sources]
    BY <1>4 DEF Commit, TypeInv, CallTyped, CounterSource, Sources
  <2> QED
    BY <1>4, <2>1, <2>2, <2>3, <2>4, <2>5
      DEF Commit, TypeInv, CardTyped, CallTyped, Fitting, Registers, Setters
<1>5. CASE UNCHANGED vars
  BY <1>5 DEF TypeInv, CardTyped, CallTyped, Fitting, Registers, Setters
<1> QED  BY <1>1, <1>2, <1>3, <1>4, <1>5 DEF Next

\* No setter, failure or restoration puts a value into a register that is not of the
\* register's kind, in particular no gain above the card's range and no unknown
\* calibration algorithm, for any number of channels (RFControls.cpp:103-151,
\* 287-331).
THEOREM SettingsTyped == Spec => []TypeOK
<1>1. RestoreInv /\ TypeInv => TypeOK
  BY RegisterTypes DEF RestoreInv, ShapeOK, Progress, TypeInv, CallTyped, TypeOK
<1>2. RestoreInv /\ TypeInv /\ [Next]_vars => TypeInv'
  BY TypeStep
<1> QED  BY <1>1, <1>2, TypeInit, RestoreInvariant, PTL DEF Spec
=============================================================================

------------------------- MODULE SettingTransaction -------------------------
(***************************************************************************)
(* Setters that make one or more SDK writes (Settings.cpp, RFControls.cpp):*)
(* the counter source of all RX handles, DC-offset mode, gain, gain mode   *)
(* and I/Q order.  Each validates and reads the present values first, then *)
(* writes in order.  The counter and DC-offset setters undo every attempted*)
(* write, newest first, when one fails; the others stop and throw.  A call *)
(* refused before its first write changes nothing and is not an action.    *)
(* One setter runs at a time; registers of one channel stand for all.      *)
(***************************************************************************)
EXTENDS Naturals, Sequences

CONSTANTS
  Channels,  \* the number of RX channels, each mapped to an SDK handle
  MaxGain    \* the largest gain index of the card

\* The code handles any number of channels (a card without RX has none).
ASSUME SettingAssumption == Channels \in Nat /\ MaxGain \in Nat

VARIABLES
  reg,       \* what the card holds: register -> value
  counter,   \* the driver's cache of the counter setting
  iq_swap,   \* the driver's cache of the I/Q order
  op,        \* the setter in progress, or the last one
  plan,      \* its writes, in order
  snapshot,  \* the values read before the first write
  attempted, \* how many writes have been made and not undone
  phase,     \* "idle", "write" or "restore"
  lost,      \* a restoring write failed
  answer,    \* how the last call ended
  (* history, read by properties only *)
  standing,  \* the sources of the last successful counter call or, before the
             \* first, those the card came up with
  selected,  \* a counter call has succeeded
  doubtful   \* cached settings whose last failed call left the card in doubt

caches  == <<counter, iq_swap>>
history == <<standing, selected, doubtful>>
vars == <<reg, caches, op, plan, snapshot, attempted, phase, lost, answer, history>>

Source(c) == <<"source", c>>
Mask == <<"mask", 0>>
Mode == <<"mode", 0>>
GainMode == <<"gain_mode", 0>>
Gain == <<"gain", 0>>
IqOrder == <<"iq_order", 0>>
Registers == {Source(c) : c \in 1..Channels} \cup {Mask, Mode, GainMode, Gain, IqOrder}

Sources == {"iq", "counter"}
Algorithms == {"dc_offset", "quadrature"}
Compensated(o) == o.name \in {"counter", "dc"}
Setters == [name: {"none", "counter", "dc", "gain", "gain_mode", "iq_order"}, on: BOOLEAN]
Cached == {"counter", "iq_order"}

TypeOK ==
  /\ reg = [r \in Registers |-> reg[r]]
  /\ \A c \in 1..Channels : reg[Source(c)] \in Sources
  /\ reg[Mask] \subseteq Algorithms
  /\ reg[Mode] \in {"manual", "auto"} /\ reg[GainMode] \in {"manual", "auto"}
  /\ reg[Gain] \in 0..MaxGain /\ reg[IqOrder] \in BOOLEAN
  /\ counter \in BOOLEAN /\ iq_swap \in BOOLEAN
  /\ op \in Setters /\ attempted \in 0..Len(plan)
  /\ phase \in {"idle", "write", "restore"} /\ lost \in BOOLEAN
  /\ answer \in {"none", "ok", "failed", "rollback_failed"}
  /\ standing \in [1..Channels -> Sources]
  /\ selected \in BOOLEAN /\ doubtful \subseteq Cached

\* The constructor writes the I/Q order; all else is as the card comes up.
Init ==
  /\ \E s \in [1..Channels -> Sources], m \in SUBSET Algorithms, a \in {"manual", "auto"} :
       /\ reg = [r \in Registers |->
                   CASE r[1] = "source" -> s[r[2]]
                     [] r = Mask -> m
                     [] r = Mode -> a
                     [] r = GainMode -> "manual"
                     [] r = Gain -> 0
                     [] r = IqOrder -> TRUE]
       /\ standing = s
  /\ counter = FALSE /\ iq_swap = TRUE /\ selected = FALSE /\ doubtful = {}
  /\ op = [name |-> "none", on |-> FALSE] /\ plan = <<>> /\ snapshot = reg
  /\ attempted = 0 /\ phase = "idle" /\ lost = FALSE /\ answer = "none"

-----------------------------------------------------------------------------
\* The writes each setter makes, given what it has read.
Put(r, v) == [reg |-> r, value |-> v]
Needed(r, v) == IF reg[r] = v THEN <<>> ELSE <<Put(r, v)>>

CounterSource(on) == IF on THEN "counter" ELSE "iq"
CounterPlan(on) == [c \in 1..Channels |-> Put(Source(c), CounterSource(on))]

\* mutated: the mask is rebuilt instead of edited
DesiredMaskAlone(on) == IF on THEN {"dc_offset"} ELSE {}

DesiredMask(on) ==
  IF on THEN reg[Mask] \cup {"dc_offset"} ELSE reg[Mask] \ {"dc_offset"}

DcPlan(on) ==
  Needed(Mask, DesiredMask(on)) \o (IF on THEN Needed(Mode, "auto") ELSE <<>>)

GainPlan(index) == Needed(GainMode, "manual") \o <<Put(Gain, index)>>

Start(name, on, writes) ==
  /\ phase = "idle"
  /\ op' = [name |-> name, on |-> on]
  /\ plan' = writes
  /\ snapshot' = reg
  /\ attempted' = 0 /\ lost' = FALSE /\ answer' = "none"
  /\ phase' = "write"
  /\ UNCHANGED <<reg, caches, history>>

SetCounter == \E on \in BOOLEAN : Channels > 0 /\ Start("counter", on, CounterPlan(on))
SetDCOffsetMode == \E on \in BOOLEAN : Start("dc", on, DcPlan(on))
\* mutated: the index is not clamped to the card's range
SetGainUnclamped == \E index \in 0..(MaxGain + 1) : Start("gain", FALSE, GainPlan(index))
SetGain == \E index \in 0..MaxGain : Start("gain", FALSE, GainPlan(index))
SetGainMode ==
  \E on \in BOOLEAN :
    Start("gain_mode", on, <<Put(GainMode, IF on THEN "auto" ELSE "manual")>>)
SetIqOrder == \E on \in BOOLEAN : Start("iq_order", on, <<Put(IqOrder, on)>>)

-----------------------------------------------------------------------------
\* A failed SDK write may have reached the hardware or not.
Effect(ok, r, v) ==
  \/ reg' = [reg EXCEPT ![r] = v]
  \/ ~ok /\ UNCHANGED reg

\* mutated: the write that failed is not undone
SucceededWrites(ok) == IF ok THEN attempted + 1 ELSE attempted

Attempted(ok) == attempted + 1

\* One SDK write of the plan.  After a failure a compensating setter turns to
\* restoring, any other throws.
Write ==
  /\ phase = "write" /\ attempted < Len(plan)
  /\ \E ok \in BOOLEAN :
       /\ Effect(ok, plan[attempted + 1].reg, plan[attempted + 1].value)
       /\ attempted' = Attempted(ok)
       /\ IF ok THEN UNCHANGED <<phase, answer, doubtful>>
          ELSE IF Compensated(op)
               THEN phase' = "restore" /\ UNCHANGED <<answer, doubtful>>
               ELSE phase' = "idle" /\ answer' = "failed" /\ doubtful' = doubtful \cup ({op.name} \cap Cached)
  /\ UNCHANGED <<caches, op, plan, snapshot, lost, standing, selected>>

\* mutated: a later restoring write that succeeds hides an earlier failure
LatestLoss(ok) == ~ok

Lost(ok) == lost \/ ~ok

\* One restoring write; all are tried, whatever the others return.
Restore ==
  /\ phase = "restore" /\ attempted > 0
  /\ \E ok \in BOOLEAN :
       /\ Effect(ok, plan[attempted].reg, snapshot[plan[attempted].reg])
       /\ lost' = Lost(ok)
  /\ attempted' = attempted - 1
  /\ UNCHANGED <<caches, op, plan, snapshot, phase, answer, history>>

\* The exception: it names a failed restoration.
Throw ==
  /\ phase = "restore" /\ attempted = 0
  /\ phase' = "idle"
  /\ answer' = IF lost THEN "rollback_failed" ELSE "failed"
  /\ doubtful' = IF lost THEN doubtful \cup ({op.name} \cap Cached) ELSE doubtful
  /\ UNCHANGED <<reg, caches, op, plan, snapshot, attempted, lost, standing, selected>>

\* All writes succeeded: only now the cache takes the requested value.
Commit ==
  /\ phase = "write" /\ attempted = Len(plan)
  /\ phase' = "idle" /\ answer' = "ok"
  /\ counter' = IF op.name = "counter" THEN op.on ELSE counter
  /\ iq_swap' = IF op.name = "iq_order" THEN op.on ELSE iq_swap
  /\ selected' = (selected \/ op.name = "counter")
  /\ standing' = IF op.name = "counter" THEN [c \in 1..Channels |-> CounterSource(op.on)]
                                        ELSE standing
  /\ doubtful' = doubtful \ {op.name}
  /\ UNCHANGED <<reg, op, plan, snapshot, attempted, lost>>

Next ==
  \/ SetCounter \/ SetDCOffsetMode \/ SetGain \/ SetGainMode \/ SetIqOrder
  \/ Write \/ Restore \/ Throw \/ Commit

Spec == Init /\ [][Next]_vars

-----------------------------------------------------------------------------
\* A counter or DC-offset call that throws without naming a failed restoration
\* leaves every register of the card as it was before the call, whichever
\* write failed and whether it had reached the hardware (Settings.cpp:118-137,
\* RFControls.cpp:123-151).
FailureRestores == answer = "failed" /\ Compensated(op) => reg = snapshot

\* What readSetting answers for the counter.  Before the first successful call
\* that is FALSE, whatever the card came up with: the constructor neither reads
\* nor writes the sources, so what stands is what was found.
SelectedSource(c) == IF selected THEN CounterSource(counter) ELSE standing[c]

\* Between calls, every channel has the source that the last successful counter
\* call selected, and readSetting answers, or that it came up with: a failed call
\* in between has not moved one of them, unless the exception of a counter call
\* named a failed restoration and none has succeeded since.  The card's I/Q order
\* is the cached one, unless a write of it has failed, which nothing undoes, and
\* none has succeeded since (Settings.cpp:86-140, SoapySidekiq.hpp:453-456).  A
\* source is what the SDK was told: it takes effect at the next RX start.
CacheAgrees ==
  phase = "idle" =>
    /\ "counter" \notin doubtful => \A c \in 1..Channels : reg[Source(c)] = SelectedSource(c)
    /\ "iq_order" \notin doubtful => reg[IqOrder] = iq_swap

\* No setter, failure or restoration changes the choice of the other calibration
\* algorithms, and switching DC correction off never changes the shared mode
\* (RFControls.cpp:111-113, 133-136).
SharedCalibrationKept ==
  [][/\ reg'[Mask] \ {"dc_offset"} = reg[Mask] \ {"dc_offset"}
     /\ reg'[Mode] # reg[Mode] => op = [name |-> "dc", on |-> TRUE]]_vars
=============================================================================

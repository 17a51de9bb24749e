----------------------------- MODULE RxHandoff -----------------------------
(***************************************************************************)
(* What the RX queue promises, without threads, waits or lifecycle: within *)
(* a session the samples form one growing line.  Readers take them from    *)
(* its front, in order and without repeating any; only whole or partly     *)
(* read oldest blocks are ever skipped, and only when the queue is full;   *)
(* a new session starts a new line.                                        *)
(***************************************************************************)
EXTENDS Integers

CONSTANTS Capacity,      \* blocks the queue retains
          BlockSamples   \* samples in one block

VARIABLES head,   \* the next sample a read returns
          tail    \* samples received in this session

vars == <<head, tail>>

\* Blocks that still hold an unread sample.
Queued == tail \div BlockSamples - head \div BlockSamples

Init == head = 0 /\ tail = 0

Push == /\ tail' = tail + BlockSamples
        /\ head' = IF Queued = Capacity
                   THEN (head \div BlockSamples + 1) * BlockSamples
                   ELSE head

Read == \E n \in 1 .. tail - head : head' = head + n /\ UNCHANGED tail

Restart == head' = 0 /\ tail' = 0

Next == Push \/ Read \/ Restart

Spec == Init /\ [][Next]_vars
=============================================================================

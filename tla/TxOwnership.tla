---------------------------- MODULE TxOwnership ----------------------------
(***************************************************************************)
(* What the TX path promises about its preallocated blocks, with no       *)
(* threads, mutexes, deadlines or streaming state.                        *)
(*                                                                         *)
(* Every stream generation has its own ring of blocks.  A block belongs to *)
(* the driver, to the one writer that prepares it, or to the SDK that has  *)
(* accepted it.  The writer takes blocks of the current generation only,   *)
(* in ring order, and moves on only when the SDK has accepted the block.   *)
(* The SDK gives a block back whenever it likes, also after its stream has *)
(* been closed.  A new generation begins only while no writer holds one.   *)
(***************************************************************************)
EXTENDS Integers

CONSTANTS TxBufferCount,   \* blocks in one ring
          MaxStreams       \* bound: stream generations explored

VARIABLES owner,     \* owner[g][i]: who may touch block i of generation g
          current,   \* the generation writes go to, 0 before the first
          next       \* the ring position the next submission uses

vars == <<owner, current, next>>

Slots   == 0 .. TxBufferCount - 1
Streams == 1 .. MaxStreams
Owners  == {"driver", "writer", "sdk"}

WriterHolds(g, i) == owner[g][i] = "writer"
NoWriter == \A g \in Streams, i \in Slots : ~ WriterHolds(g, i)

Init == /\ owner = [g \in Streams |-> [i \in Slots |-> "driver"]]
        /\ current = 0
        /\ next = 0

Give(g, i, o) == owner' = [owner EXCEPT ![g][i] = o]

Reserve == /\ current \in Streams
           /\ NoWriter
           /\ owner[current][next] = "driver"
           /\ Give(current, next, "writer")
           /\ UNCHANGED <<current, next>>

Withdraw == /\ current \in Streams
            /\ WriterHolds(current, next)
            /\ Give(current, next, "driver")
            /\ UNCHANGED <<current, next>>

Submit == /\ current \in Streams
          /\ WriterHolds(current, next)
          /\ Give(current, next, "sdk")
          /\ next' = (next + 1) % TxBufferCount
          /\ UNCHANGED current

Complete(g, i) == /\ owner[g][i] = "sdk"
                  /\ Give(g, i, "driver")
                  /\ UNCHANGED <<current, next>>

NewStream == /\ current < MaxStreams
             /\ NoWriter
             /\ current' = current + 1
             /\ next' = 0
             /\ UNCHANGED owner

Next == \/ Reserve \/ Withdraw \/ Submit \/ NewStream
        \/ \E g \in Streams, i \in Slots : Complete(g, i)

Spec == Init /\ [][Next]_vars
=============================================================================

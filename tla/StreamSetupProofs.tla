-------------------------- MODULE StreamSetupProofs --------------------------
(***************************************************************************)
(* Proofs about StreamSetup for any addresses, channels and payload sizes. *)
(* Neither property is inductive alone: that hardware has its stream keeps *)
(* a session from outliving the setup it belongs to, and needs in turn     *)
(* that TX hardware never works without the flag a close looks at.         *)
(***************************************************************************)
EXTENDS StreamSetup, TLAPS

USE StreamAssumption
USE DEF rxVars, txVars, cardVars, Directions, Closed, Nothing

Shape ==
  /\ stream = [d \in Directions |-> stream[d]]
  /\ asked = [d \in Directions |-> asked[d]]
  /\ useShort = [d \in Directions |-> useShort[d]]

\* TX hardware works, or tries to start, only under tx_stream_active, and an open
\* TX stream has its blocks.
FlagCoversTx == (tx # "off" => tx_stream_active) /\ (Open("tx") => tx_blocks)

SetupInv == Shape /\ FlagCoversTx /\ HardwareHasStream /\ ServedAsAsked

\* An opened stream is the one asked for; the other direction is as it was.
LEMMA Published ==
  ASSUME Shape, NEW d \in Directions, NEW request, NEW size, Publish(d, request, size)
  PROVE  /\ Open(d)' /\ asked'[d] = [format |-> request.format, payload |-> size]
         /\ \A e \in Directions \ {d} : stream'[e] = stream[e] /\ asked'[e] = asked[e]
         /\ stream' = [e \in Directions |-> stream'[e]]
         /\ asked' = [e \in Directions |-> asked'[e]]
<1>1. PICK t \in Tokens :
         /\ stream' = [stream EXCEPT ![d] = [token |-> t, channel |-> Channel(request)]]
         /\ asked' = [asked EXCEPT ![d] = [format |-> request.format, payload |-> size]]
  BY DEF Publish
<1>2. stream'[d] = [token |-> t, channel |-> Channel(request)]
      /\ asked'[d] = [format |-> request.format, payload |-> size]
  BY <1>1 DEF Shape
<1>3. stream'[d].token = t
  BY <1>2
<1>4. stream'[d] # Closed
  BY <1>3
<1> QED
  BY <1>1, <1>2, <1>4 DEF Shape, Open

\* A setup that does not publish a stream leaves the open ones alone.
LEMMA SetupRxStep ==
  ASSUME SetupInv, SetupRx
  PROVE  SetupInv'
<1> USE DEF SetupInv
<1>1. PICK request \in Requests, size \in Payloads :
        /\ Admitted("rx", request)
        /\ payload' = size /\ useShort' = Served("rx", request)
        /\ \/ UNCHANGED <<stream, asked>>
           \/ Publish("rx", request, size)
        /\ UNCHANGED <<rxVars, txVars, iq_swap>>
  BY DEF SetupRx
<1>2. ~ Open("rx") /\ rx = "idle"
  BY <1>1 DEF Admitted, HardwareHasStream
<1>3. /\ useShort' = [e \in Directions |-> useShort'[e]]
      /\ useShort'["rx"] = (request.format = "CS16")
      /\ useShort'["tx"] = useShort["tx"]
  BY <1>1 DEF Served, Shape
<1>4. CASE UNCHANGED <<stream, asked>>
  BY <1>1, <1>2, <1>3, <1>4 DEF Shape, FlagCoversTx, HardwareHasStream, ServedAsAsked, Open
<1>5. CASE Publish("rx", request, size)
  <2>1. /\ Open("rx")' /\ asked'["rx"] = [format |-> request.format, payload |-> size]
        /\ stream'["tx"] = stream["tx"] /\ asked'["tx"] = asked["tx"]
        /\ stream' = [e \in Directions |-> stream'[e]]
        /\ asked' = [e \in Directions |-> asked'[e]]
    BY <1>5, Published
  <2> QED
    BY <1>1, <1>2, <1>3, <2>1 DEF Shape, FlagCoversTx, HardwareHasStream, ServedAsAsked, Open
<1> QED
  BY <1>1, <1>4, <1>5

LEMMA SetupTxStep ==
  ASSUME SetupInv, SetupTx
  PROVE  SetupInv'
<1> USE DEF SetupInv
<1>1. PICK request \in Requests :
        /\ Admitted("tx", request)
        /\ useShort' = Served("tx", request)
        /\ \/ UNCHANGED <<stream, asked, tx_blocks>>
           \/ Publish("tx", request, 0) /\ tx_blocks' = TRUE
        /\ UNCHANGED <<payload, rxVars, tx, tx_stream_active, cardVars>>
  BY DEF SetupTx
<1>2. ~ Open("tx") /\ tx = "off" /\ ~ tx_stream_active
  BY <1>1 DEF Admitted, HardwareHasStream
<1>3. /\ useShort' = [e \in Directions |-> useShort'[e]]
      /\ useShort'["tx"] = (request.format = "CS16")
      /\ useShort'["rx"] = useShort["rx"]
  BY <1>1 DEF Served, Shape
<1>4. CASE UNCHANGED <<stream, asked, tx_blocks>>
  BY <1>1, <1>2, <1>3, <1>4 DEF Shape, FlagCoversTx, HardwareHasStream, ServedAsAsked, Open
<1>5. CASE Publish("tx", request, 0)
  <2>1. /\ Open("tx")' /\ asked'["tx"] = [format |-> request.format, payload |-> 0]
        /\ stream'["rx"] = stream["rx"] /\ asked'["rx"] = asked["rx"]
        /\ stream' = [e \in Directions |-> stream'[e]]
        /\ asked' = [e \in Directions |-> asked'[e]]
    BY <1>5, Published
  <2> QED
    BY <1>1, <1>2, <1>3, <2>1 DEF Shape, FlagCoversTx, HardwareHasStream, ServedAsAsked, Open
<1> QED
  BY <1>1, <1>4, <1>5

LEMMA RxStep ==
  ASSUME SetupInv,
         WorkerFails \/ \E t \in Tokens : ActivateRx(t) \/ DeactivateRx(t)
  PROVE  SetupInv'
<1> USE DEF SetupInv, Shape, FlagCoversTx, HardwareHasStream, ServedAsAsked, Open
<1>1. CASE \E t \in Tokens : ActivateRx(t)
  BY <1>1 DEF ActivateRx, Finds
<1>2. CASE \E t \in Tokens : DeactivateRx(t)
  BY <1>2 DEF DeactivateRx, StopRx, Finds
<1>3. CASE WorkerFails
  BY <1>3 DEF WorkerFails
<1> QED
  BY <1>1, <1>2, <1>3

LEMMA CloseRxStep ==
  ASSUME SetupInv, NEW t \in Tokens, CloseRx(t)
  PROVE  SetupInv'
<1> USE DEF SetupInv, Shape, FlagCoversTx, HardwareHasStream, ServedAsAsked, Open
<1>1. /\ StopRx /\ UNCHANGED <<useShort, payload, txVars>> /\ Open("rx")
      /\ asked' = IF stream'["rx"] = Closed THEN [asked EXCEPT !["rx"] = Nothing] ELSE asked
      /\ stream' = IF rx' = "idle" THEN [stream EXCEPT !["rx"] = Closed] ELSE stream
  BY DEF CloseRx, ClosesIfStopped, Finds
<1>2. CASE rx' = "idle"
  <2>1. /\ stream'["rx"] = Closed /\ stream'["tx"] = stream["tx"]
        /\ stream' = [e \in Directions |-> stream'[e]]
    BY <1>1, <1>2
  <2>2. asked'["tx"] = asked["tx"] /\ asked' = [e \in Directions |-> asked'[e]]
    BY <1>1, <2>1
  <2> QED
    BY <1>1, <1>2, <2>1, <2>2
<1>3. CASE rx' # "idle"
  <2>1. UNCHANGED <<stream, asked, session>> /\ rx # "idle"
    BY <1>1, <1>3 DEF StopRx
  <2> QED
    BY <1>1, <2>1
<1> QED
  BY <1>2, <1>3

LEMMA TxStep ==
  ASSUME SetupInv,
         \/ PpsStartEnds \/ WriteIqSwap
         \/ \E t \in Tokens : ActivateTx(t) \/ DeactivateTx(t) \/ CloseTx(t)
  PROVE  SetupInv'
<1> USE DEF SetupInv, Shape, FlagCoversTx, HardwareHasStream, ServedAsAsked, Open
<1>1. CASE \E t \in Tokens : ActivateTx(t)
  <2>1. /\ Open("tx") /\ UNCHANGED <<stream, asked, useShort, payload, rxVars, tx_blocks>>
        /\ \/ UNCHANGED <<tx, tx_stream_active>>
           \/ tx_stream_active' = TRUE
    BY <1>1 DEF ActivateTx, Finds
  <2>2. tx_blocks
    BY <1>1 DEF ActivateTx, Finds
  <2> QED
    BY <2>1, <2>2
<1>2. CASE \E t \in Tokens : DeactivateTx(t)
  <2>1. /\ UNCHANGED <<stream, asked, useShort, payload, rxVars, tx_blocks>>
        /\ \/ UNCHANGED <<tx, tx_stream_active>>
           \/ tx' = "off" /\ ~ tx_stream_active'
    BY <1>2 DEF DeactivateTx
  <2> QED
    BY <2>1
<1>3. CASE \E t \in Tokens : CloseTx(t)
  <2>1. /\ stream'["tx"] = Closed /\ stream'["rx"] = stream["rx"]
        /\ asked'["rx"] = asked["rx"]
        /\ stream' = [e \in Directions |-> stream'[e]]
        /\ asked' = [e \in Directions |-> asked'[e]]
    BY <1>3 DEF CloseTx
  <2>2. tx = "off" /\ ~ tx_stream_active
    BY <1>3 DEF CloseTx
  <2> QED
    BY <1>3, <2>1, <2>2 DEF CloseTx
<1>4. CASE PpsStartEnds
  BY <1>4 DEF PpsStartEnds
<1>5. CASE WriteIqSwap
  BY <1>5 DEF WriteIqSwap
<1> QED
  BY <1>1, <1>2, <1>3, <1>4, <1>5

LEMMA SetupInvariant == Spec => []SetupInv
<1>1. Init => SetupInv
  BY DEF Init, SetupInv, Shape, FlagCoversTx, HardwareHasStream, ServedAsAsked, Open
<1>2. SetupInv /\ [Next]_vars => SetupInv'
  <2>1. CASE Next
    BY <2>1, SetupRxStep, SetupTxStep, RxStep, CloseRxStep, TxStep DEF Next
  <2>2. CASE UNCHANGED vars
    BY <2>2 DEF vars, SetupInv, Shape, FlagCoversTx, HardwareHasStream, ServedAsAsked, Open
  <2> QED
    BY <2>1, <2>2
<1> QED
  BY <1>1, <1>2, PTL DEF Spec

\* An open stream is served as its own setup asked, whatever setups were refused or
\* have failed half way since (Streaming.cpp:101-111, 139-146, 205, 291-297).
THEOREM StreamsServedAsAsked == Spec => []ServedAsAsked
<1>1. SetupInv => ServedAsAsked
  BY DEF SetupInv
<1> QED
  BY <1>1, SetupInvariant, PTL

\* Hardware that runs, starts or could not be stopped has an open stream to stop it
\* with, and TX hardware its blocks (Streaming.cpp:233-281).
THEOREM HardwareKeepsStream == Spec => []HardwareHasStream
<1>1. SetupInv => HardwareHasStream
  BY DEF SetupInv
<1> QED
  BY <1>1, SetupInvariant, PTL

-----------------------------------------------------------------------------
(* What the card is set to when a stream opens or TX hardware starts. *)

\* Only the listed settings are ever written, and while no write of the order has
\* failed since one succeeded, a setting of FALSE is what the card has.  With TRUE the
\* order is written again before it is used.
CardInv ==
  /\ card \in [order : {"iq", "qi"}, tx : SUBSET AllTxSettings]
  /\ iq_swap \in BOOLEAN
  /\ ~iq_swap => doubted \/ card.order = "qi"

LEMMA AllSettings ==
  /\ Len(TxSettings) = 4 /\ Settings(4) = AllTxSettings
  /\ \A n \in 0..4 : Settings(n) \subseteq AllTxSettings
BY DEF TxSettings, Settings, AllTxSettings

LEMMA CardStep == CardInv /\ [Next]_vars => CardInv'
<1> SUFFICES ASSUME CardInv, [Next]_vars PROVE CardInv'
  OBVIOUS
<1> USE DEF CardInv
<1>1. CASE SetupRx
  <2>1. UNCHANGED iq_swap
        /\ (UNCHANGED <<card, doubted>> \/ OrderFailed \/ OrderWritten)
    BY <1>1 DEF SetupRx
  <2>2. CASE OrderFailed
    BY <2>1, <2>2 DEF OrderFailed
  <2>3. CASE OrderWritten
    BY <2>1, <2>3 DEF OrderWritten
  <2> QED
    BY <2>1, <2>2, <2>3
<1>2. ASSUME NEW t \in Tokens, ActivateTx(t) PROVE CardInv'
  <2>1. UNCHANGED iq_swap
    BY <1>2 DEF ActivateTx
  <2>2. CASE OrderFailed
    BY <2>1, <2>2 DEF OrderFailed
  <2>3. ASSUME NEW m \in 0..4,
               card' = [order |-> Ordered, tx |-> card.tx \cup Settings(m)],
               doubted' = (doubted /\ ~iq_swap)
        PROVE  CardInv'
    BY <2>1, <2>3, AllSettings DEF Ordered
  <2> QED
    BY <1>2, <2>2, <2>3, AllSettings DEF ActivateTx
<1>3. CASE WriteIqSwap
  <2>1. PICK on \in BOOLEAN :
          LET written == [card EXCEPT !.order = IF on THEN "iq" ELSE "qi"] IN
          \/ card' = written /\ iq_swap' = on
          \/ card' \in {card, written} /\ iq_swap' = iq_swap /\ doubted'
    BY <1>3, Zenon DEF WriteIqSwap
  <2> QED
    BY <2>1
<1>4. CASE \/ SetupTx \/ WorkerFails \/ PpsStartEnds \/ UNCHANGED vars
           \/ \E t \in Tokens : \/ ActivateRx(t) \/ DeactivateRx(t) \/ CloseRx(t)
                                \/ DeactivateTx(t) \/ CloseTx(t)
  BY <1>4 DEF SetupTx, WorkerFails, PpsStartEnds, vars, ActivateRx, DeactivateRx, CloseRx,
              DeactivateTx, CloseTx
<1> QED
  BY <1>1, <1>2, <1>3, <1>4 DEF Next

\* The step of StartsConfigured.
Configured ==
  /\ ~Open("rx") /\ Open("rx")' => (OrderAsSet \/ OrderUnnoticed)'
  /\ tx = "off" /\ tx' # "off" =>
       card'.tx = AllTxSettings /\ (OrderAsSet \/ OrderUnnoticed)'

\* Before an RX stream opens the order has been written, or left alone as it is with
\* a setting of FALSE.
LEMMA WrittenOrder ==
  ASSUME CardInv, UNCHANGED iq_swap,
         doubted' = (doubted /\ ~iq_swap),
         card'.order = Ordered
  PROVE  (OrderAsSet \/ OrderUnnoticed)'
BY DEF CardInv, Ordered, OrderAsSet, OrderUnnoticed

LEMMA ConfiguredStep ==
  ASSUME Shape, CardInv, [Next]_vars
  PROVE  Configured
<1> USE DEF Configured
<1>1. CASE SetupRx
  <2>1. UNCHANGED <<tx, iq_swap>> /\ (UNCHANGED stream \/ OrderWritten)
    BY <1>1 DEF SetupRx
  <2>2. CASE OrderWritten
    <3>1. card'.order = Ordered /\ doubted' = (doubted /\ ~iq_swap)
      BY <2>2 DEF OrderWritten, Ordered, CardInv
    <3> QED
      BY <2>1, <3>1, WrittenOrder
  <2> QED
    BY <2>1, <2>2 DEF Open
<1>2. CASE SetupTx
  <2>1. UNCHANGED tx
    BY <1>2 DEF SetupTx
  <2>2. stream'["rx"] = stream["rx"]
    BY <1>2, Published DEF SetupTx
  <2> QED
    BY <2>1, <2>2 DEF Open
<1>3. ASSUME NEW t \in Tokens, ActivateTx(t) PROVE Configured
  <2>1. UNCHANGED <<stream, iq_swap>>
    BY <1>3 DEF ActivateTx
  <2>2. CASE tx = "off" /\ tx' # "off"
    <3>1. PICK n \in 0..4 :
            /\ \E m \in {n, n + 1} \cap 0..4 :
                 card' = [order |-> Ordered, tx |-> card.tx \cup Settings(m)]
            /\ n = 4 /\ doubted' = (doubted /\ ~iq_swap)
      BY <1>3, <2>2, AllSettings DEF ActivateTx, StartsAfter
    <3>2. card' = [order |-> Ordered, tx |-> card.tx \cup Settings(4)]
      <4>1. PICK m \in {4, 5} \cap 0..4 :
              card' = [order |-> Ordered, tx |-> card.tx \cup Settings(m)]
        BY <3>1
      <4>2. m = 4
        OBVIOUS
      <4> QED
        BY <4>1, <4>2
    <3>3. card'.order = Ordered /\ card'.tx = AllTxSettings
      BY <3>2, AllSettings DEF CardInv
    <3> QED
      BY <2>1, <3>1, <3>3, WrittenOrder DEF Open
  <2> QED
    BY <2>1, <2>2 DEF Open
<1>4. CASE \/ WorkerFails \/ PpsStartEnds \/ WriteIqSwap
           \/ \E t \in Tokens : ActivateRx(t) \/ DeactivateRx(t) \/ DeactivateTx(t)
  <2>1. UNCHANGED stream /\ (tx = "off" => tx' = "off")
    BY <1>4 DEF WorkerFails, PpsStartEnds, WriteIqSwap, ActivateRx, DeactivateRx,
                DeactivateTx
  <2> QED
    BY <2>1 DEF Open
<1>5. CASE \E t \in Tokens : CloseRx(t) \/ CloseTx(t)
  <2>1. UNCHANGED tx /\ stream'["rx"] \in {stream["rx"], Closed}
    BY <1>5 DEF CloseRx, CloseTx, ClosesIfStopped, Shape
  <2> QED
    BY <2>1 DEF Open
<1>6. CASE UNCHANGED vars
  BY <1>6 DEF vars, Open
<1> QED
  BY <1>1, <1>2, <1>3, <1>4, <1>5, <1>6 DEF Next

\* TX hardware starts only with all TX settings, and an RX stream opens, and TX
\* hardware starts, only on a card with the I/Q order of the setting, whatever has
\* failed before, but for one case that the code leaves open: the setting is FALSE and
\* the last write of the order has failed (Streaming.cpp:162-176, 435-542).
THEOREM StartsOnConfiguredCard == Spec => StartsConfigured
<1>1. Init => CardInv
  BY DEF Init, CardInv
<1>2. CardInv /\ [Next]_vars => CardInv'
  BY CardStep
<1>3. SetupInv => Shape
  BY DEF SetupInv
<1>4. Shape /\ CardInv /\ [Next]_vars => [Configured]_vars
  BY ConfiguredStep
<1>5. Spec => [][Configured]_vars
  BY <1>1, <1>2, <1>3, <1>4, SetupInvariant, PTL DEF Spec
<1> QED
  BY <1>5 DEF StartsConfigured, Configured
=============================================================================

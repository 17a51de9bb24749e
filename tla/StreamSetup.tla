----------------------------- MODULE StreamSetup -----------------------------
(***************************************************************************)
(* Opening, starting, stopping and closing streams (Streaming.cpp,         *)
(* StreamConfiguration.cpp) and the I/Q order they use (Settings.cpp).     *)
(* One thread makes these calls; the receive worker may fail and a start   *)
(* on the PPS edge may end between two of them.  A stream is known by the  *)
(* address of its handle, so the application may also pass the address of  *)
(* a closed stream.  A call that returns or throws before it changes       *)
(* anything is not an action.  RxSession and TxStream model what happens   *)
(* inside an open stream.                                                  *)
(***************************************************************************)
EXTENDS Naturals, Sequences

CONSTANTS
  Tokens,      \* addresses a stream handle can be allocated at
  Channels,    \* channels of each direction
  Payloads     \* payload sizes a card can report, in words

ASSUME StreamAssumption == Channels \in Nat /\ "none" \notin Tokens

VARIABLES
  stream,    \* active_rx_stream and active_tx_stream
  asked,     \* (for the properties) what the open stream's setup asked for and found
  useShort,  \* rxUseShort and txUseShort
  payload,   \* rx_payload_size_in_words
  rx,        \* "idle", "running", "failed" (the worker ended), "owned" (a stop failed)
  session,   \* the configuration the RX session captured
  tx,        \* TX hardware: "off", "starting" on the PPS edge, "on", "failed" to start
  tx_stream_active,
  tx_blocks, \* the ring of TX blocks exists
  card,      \* what the card is set to: I/Q order and TX settings
  iq_swap,   \* the cached setting: I then Q
  doubted    \* (for the properties) a write of the order has failed since one succeeded

vars == <<stream, asked, useShort, payload, rx, session, tx, tx_stream_active,
          tx_blocks, card, iq_swap, doubted>>
rxVars == <<rx, session>>
txVars == <<tx, tx_stream_active, tx_blocks>>
cardVars == <<card, iq_swap, doubted>>

Directions == {"rx", "tx"}
Closed == [token |-> "none", channel |-> 0]
Nothing == [format |-> "none", payload |-> 0]
Formats == {"CS16", "CF32"}
Requests == [channels : {<<>>, <<0, 1>>} \cup {<<c>> : c \in 0..Channels},
             format : Formats \cup {"CS8"}]
TxSettings == <<"block_size", "data_flow", "transfer_mode", "threads">>
AllTxSettings == {TxSettings[i] : i \in 1..Len(TxSettings)}

NoSession == [channel |-> 0, payload |-> 0]

\* After the constructor, which writes the I/Q order.
Init ==
  /\ stream = [d \in Directions |-> Closed] /\ asked = [d \in Directions |-> Nothing]
  /\ useShort = [d \in Directions |-> TRUE] /\ payload \in Payloads
  /\ rx = "idle" /\ session = NoSession
  /\ tx = "off" /\ tx_stream_active = FALSE /\ tx_blocks = FALSE
  /\ card = [order |-> "iq", tx |-> {}] /\ iq_swap = TRUE /\ doubted = FALSE

Open(d) == stream[d] # Closed

\* findStreamHandle: the direction a token belongs to.
Finds(d, t) == Open(d) /\ stream[d].token = t

-----------------------------------------------------------------------------
(* setupStream *)

Channel(request) == IF request.channels = <<>> THEN 0 ELSE request.channels[1]

WellFormed(request) ==
  /\ Len(request.channels) <= 1
  /\ Channel(request) < Channels
  /\ request.format \in Formats

\* mutated: only the request itself is looked at
AdmittedByForm(d, request) == WellFormed(request)

\* validateStreamRequest: one stream per direction, checked before anything changes.
Admitted(d, request) == ~Open(d) /\ WellFormed(request)

Served(d, request) == [useShort EXCEPT ![d] = request.format = "CS16"]

Publish(d, request, size) ==
  \E t \in Tokens :
    /\ \A e \in Directions : stream[e].token # t
    /\ stream' = [stream EXCEPT ![d] = [token |-> t, channel |-> Channel(request)]]
    /\ asked' = [asked EXCEPT ![d] = [format |-> request.format, payload |-> size]]

\* The write of the I/Q order, made only when iq_swap is set.
OrderWritten == /\ card' = IF iq_swap THEN [card EXCEPT !.order = "iq"] ELSE card
                /\ doubted' = (doubted /\ ~iq_swap)

\* A write that failed may have reached the card.
OrderFailed == /\ iq_swap /\ card' \in {card, [card EXCEPT !.order = "iq"]}
               /\ doubted' = TRUE

\* The payload size and the format are assigned before the calls that can still
\* fail: the timestamp frequency, the I/Q order, the transfer timeout.
SetupRx ==
  \E request \in Requests, size \in Payloads :
    /\ Admitted("rx", request)
    /\ payload' = size /\ useShort' = Served("rx", request)
    /\ \/ UNCHANGED <<card, doubted, stream, asked>>
       \/ OrderFailed /\ UNCHANGED <<stream, asked>>
       \/ OrderWritten /\ UNCHANGED <<stream, asked>>
       \/ OrderWritten /\ Publish("rx", request, size)
    /\ UNCHANGED <<rxVars, txVars, iq_swap>>

\* The buffers and the stream appear together, or only the format has changed.
SetupTx ==
  \E request \in Requests :
    /\ Admitted("tx", request)
    /\ useShort' = Served("tx", request)
    /\ \/ UNCHANGED <<stream, asked, tx_blocks>>
       \/ Publish("tx", request, 0) /\ tx_blocks' = TRUE
    /\ UNCHANGED <<payload, rxVars, tx, tx_stream_active, cardVars>>

-----------------------------------------------------------------------------
(* RX: activateStream, deactivateStream, closeStream. *)

\* The session starts from rest only; a start that could not spawn its worker and
\* not stop the hardware either leaves it owned.
ActivateRx(t) ==
  /\ Finds("rx", t) /\ rx = "idle"
  /\ rx' \in {"running", "owned"}
  /\ session' = [channel |-> stream["rx"].channel, payload |-> payload]
  /\ UNCHANGED <<stream, asked, useShort, payload, txVars, cardVars>>

WorkerFails ==
  /\ rx = "running"
  /\ rx' = "failed"
  /\ UNCHANGED <<stream, asked, useShort, payload, session, txVars, cardVars>>

\* The worker is joined in any case; hardware that does not stop stays owned.
StopRx ==
  /\ rx' \in {"idle", "owned"} /\ (rx = "idle" => rx' = "idle")
  /\ session' = IF rx' = "idle" THEN NoSession ELSE session

DeactivateRx(t) ==
  /\ Finds("rx", t) /\ rx # "idle"
  /\ StopRx
  /\ UNCHANGED <<stream, asked, useShort, payload, txVars, cardVars>>

\* mutated: the status of the stop is dropped
ClosesAnyway(d) == stream' = [stream EXCEPT ![d] = Closed]

ClosesIfStopped(d) ==
  stream' = IF rx' = "idle" THEN [stream EXCEPT ![d] = Closed] ELSE stream

\* A running stream is not closed; one whose worker has failed is stopped first.
CloseRx(t) ==
  /\ Finds("rx", t) /\ rx # "running"
  /\ StopRx
  /\ ClosesIfStopped("rx")
  /\ asked' = IF stream'["rx"] = Closed THEN [asked EXCEPT !["rx"] = Nothing] ELSE asked
  /\ UNCHANGED <<useShort, payload, txVars, cardVars>>

-----------------------------------------------------------------------------
(* TX: activateStream, stopTxStream, closeStream. *)

\* mutated: a failed setting does not end the activation
StartsAnyway(n) == TRUE
StartsAfter(n) == n = Len(TxSettings)

Settings(n) == {TxSettings[i] : i \in 1..n}
Ordered == IF iq_swap THEN "iq" ELSE card.order

\* One write after the other, each may fail and have taken effect; then the start.
\* A PPS start goes on in a thread, which may not be created.
ActivateTx(t) ==
  /\ Finds("tx", t) /\ ~tx_stream_active /\ tx = "off"
  /\ \/ OrderFailed /\ UNCHANGED <<tx, tx_stream_active>>
     \/ \E n \in 0..Len(TxSettings) :
          /\ \E m \in {n, n + 1} \cap 0..Len(TxSettings) :
               card' = [order |-> Ordered, tx |-> card.tx \cup Settings(m)]
          /\ doubted' = (doubted /\ ~iq_swap)
          /\ \/ StartsAfter(n) /\ tx' \in {"on", "starting"} /\ tx_stream_active' = TRUE
             \/ UNCHANGED <<tx, tx_stream_active>>
  /\ UNCHANGED <<stream, asked, useShort, payload, rxVars, tx_blocks, iq_swap>>

PpsStartEnds ==
  /\ tx = "starting"
  /\ tx' \in {"on", "failed"}
  /\ UNCHANGED <<stream, asked, useShort, payload, rxVars, tx_stream_active, tx_blocks,
                 cardVars>>

\* stopTxStream joins the start first.  A stop may fail and be tried again; that of
\* hardware that never started ends with ENODEV, which counts as stopped.
DeactivateTx(t) ==
  /\ Finds("tx", t) /\ tx_stream_active /\ tx # "starting"
  /\ \/ tx' = "off" /\ tx_stream_active' = FALSE
     \/ UNCHANGED <<tx, tx_stream_active>>
  /\ UNCHANGED <<stream, asked, useShort, payload, rxVars, tx_blocks, cardVars>>

CloseTx(t) ==
  /\ Finds("tx", t) /\ ~tx_stream_active
  /\ stream' = [stream EXCEPT !["tx"] = Closed]
  /\ asked' = [asked EXCEPT !["tx"] = Nothing]
  /\ tx_blocks' = FALSE
  /\ UNCHANGED <<useShort, payload, rxVars, tx, tx_stream_active, cardVars>>

\* writeSetting("iq_swap"): the cache follows a successful write only.
WriteIqSwap ==
  \E on \in BOOLEAN :
    LET written == [card EXCEPT !.order = IF on THEN "iq" ELSE "qi"] IN
    /\ \/ card' = written /\ iq_swap' = on /\ doubted' = FALSE
       \/ card' \in {card, written} /\ UNCHANGED iq_swap /\ doubted' = TRUE
    /\ UNCHANGED <<stream, asked, useShort, payload, rxVars, txVars>>

Next ==
  \/ SetupRx \/ SetupTx \/ WriteIqSwap \/ WorkerFails \/ PpsStartEnds
  \/ \E t \in Tokens : \/ ActivateRx(t) \/ DeactivateRx(t) \/ CloseRx(t)
                       \/ ActivateTx(t) \/ DeactivateTx(t) \/ CloseTx(t)

Spec == Init /\ [][Next]_vars

-----------------------------------------------------------------------------
\* An open stream is served with the format its own setup asked for and the payload
\* size that setup read, also as a session captured it: a later setup that is
\* refused, or that fails half way after assigning them, never changes what an open
\* stream uses (Streaming.cpp:101-111, 139-146, 205, 291-297).
ServedAsAsked ==
  /\ \A d \in Directions : Open(d) => useShort[d] = (asked[d].format = "CS16")
  /\ Open("rx") => payload = asked["rx"].payload
  /\ rx # "idle" =>
       session = [channel |-> stream["rx"].channel, payload |-> asked["rx"].payload]

\* Hardware that runs, starts or could not be stopped has an open stream, so that
\* the application can still stop it, and TX hardware has its blocks
\* (Streaming.cpp:233-281).
HardwareHasStream ==
  /\ rx # "idle" => Open("rx")
  /\ tx # "off" \/ tx_stream_active => Open("tx") /\ tx_blocks

OrderAsSet == card.order = IF iq_swap THEN "iq" ELSE "qi"

\* A failed writeSetting("iq_swap", "true") may have reached the card, and what
\* follows writes the order only if the cached setting is TRUE: with FALSE nobody
\* notices, until a later writeSetting succeeds.
OrderUnnoticed == ~iq_swap /\ doubted

\* TX hardware is started only with all TX settings, and it is started, and an RX
\* stream opened, only with the I/Q order of the cached setting, whatever setups,
\* activations and writes have failed before.  The order has one exception, which
\* the code leaves open: the setting is FALSE and the last write of the order, an
\* attempt to change it, has failed (Streaming.cpp:162-176, 435-542).
StartsConfigured ==
  [][/\ ~Open("rx") /\ Open("rx")' => (OrderAsSet \/ OrderUnnoticed)'
     /\ tx = "off" /\ tx' # "off" =>
          card'.tx = AllTxSettings /\ (OrderAsSet \/ OrderUnnoticed)']_vars
=============================================================================

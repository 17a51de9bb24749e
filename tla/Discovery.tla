------------------------------ MODULE Discovery ------------------------------
(***************************************************************************)
(* Finding cards (DeviceDiscovery.cpp, Registration.cpp).  Each card that  *)
(* skiq_get_cards names is asked for its serial and its availability, one  *)
(* SDK call after the other, and each call may fail; meanwhile other       *)
(* processes open and close cards.  Wording of the errors is left out.     *)
(***************************************************************************)
EXTENDS Integers, Sequences, FiniteSets, SequencesExt

CONSTANTS
  Cards,    \* card indexes
  Serial,   \* the serial of each card
  NoCard    \* std::nullopt, the card of an error of the enumeration

ASSUME CardsAssumption ==
  /\ IsFiniteSet(Cards) /\ DOMAIN Serial = Cards
  /\ {"any", "unknown", NoCard} \cap Cards = {}

VARIABLES
  owner,    \* who has each card open: "nobody", "self" or "other"
  at,       \* "idle", "serial", "availability" or "done"
  query,    \* the filters given
  card_ids, \* what skiq_get_cards returned
  next,     \* the position of the card in hand
  devices, errors,  \* DiscoveryResult
  truth     \* (for the properties) what the SDK's answers were about

vars == <<owner, at, query, card_ids, next, devices, errors, truth>>

NoFilter == "any"
Queries == [card : Cards \cup {NoFilter, "unknown"}, serial : {Serial[c] : c \in Cards} \cup {NoFilter}]
NoTruth == [unread |-> {}, unchecked |-> {}, openable |-> {}]

Unfiltered == [card |-> NoFilter, serial |-> NoFilter]

Init ==
  /\ owner \in [Cards -> {"nobody", "self", "other"}]
  /\ at = "idle" /\ query = Unfiltered /\ card_ids = <<>> /\ next = 1
  /\ devices = <<>> /\ errors = <<>> /\ truth = NoTruth

-----------------------------------------------------------------------------
\* Other processes, while a discovery runs.
OthersMove ==
  /\ at # "idle"
  /\ \E c \in Cards :
       /\ owner[c] # "self"
       /\ owner' = [owner EXCEPT ![c] = IF owner[c] = "nobody" THEN "other" ELSE "nobody"]
  /\ UNCHANGED <<at, query, card_ids, next, devices, errors, truth>>

\* Without a list of cards there is nothing to inspect.
Find(q) ==
  /\ at = "idle"
  /\ query' = q /\ next' = 1 /\ devices' = <<>> /\ truth' = NoTruth
  /\ \/ \E S \in SUBSET Cards : \E ids \in SetToSeqs(S) :
          /\ card_ids' = ids /\ errors' = <<>>
          /\ at' = IF ids = <<>> THEN "done" ELSE "serial"
     \/ /\ card_ids' = <<>> /\ at' = "done"
        /\ errors' = <<[card |-> NoCard, what |-> "enumerate"]>>
  /\ UNCHANGED owner

Card == card_ids[next]
Report(what) == errors' = Append(errors, [card |-> Card, what |-> what])

\* The next card, or the end of the loop.
Continue ==
  /\ next' = next + 1
  /\ at' = IF next = Len(card_ids) THEN "done" ELSE "serial"

ReadSerial ==
  /\ at = "serial"
  /\ \/ at' = "availability" /\ UNCHANGED <<next, errors, truth>>
     \/ /\ Report("serial") /\ Continue
        /\ truth' = [truth EXCEPT !.unread = @ \cup {Card}]
  /\ UNCHANGED <<owner, query, card_ids, devices>>

\* "an explicit card to win over serial"
Matches(c) ==
  IF query.card # NoFilter THEN query.card = c ELSE query.serial \in {Serial[c], NoFilter}

\* isAvailable: a card this process has open counts as available.
Available == owner[Card] \in {"nobody", "self"}

Describe(available) ==
  devices' = IF Matches(Card) THEN Append(devices, [card |-> Card, available |-> available])
             ELSE devices

\* mutated: a card that could not be checked is not listed
OmitUnchecked == UNCHANGED devices
DescribeUnchecked == Describe(FALSE)

\* A failed check is reported, and the card listed as unavailable.
CheckAvailability ==
  /\ at = "availability"
  /\ \/ /\ Describe(Available) /\ UNCHANGED errors
        /\ truth' = IF Available THEN [truth EXCEPT !.openable = @ \cup {Card}] ELSE truth
     \/ /\ DescribeUnchecked /\ Report("availability")
        /\ truth' = [truth EXCEPT !.unchecked = @ \cup {Card}]
  /\ Continue
  /\ UNCHANGED <<owner, query, card_ids>>

\* findSidekiq logs the errors and returns the devices.
Return ==
  /\ at = "done"
  /\ at' = "idle" /\ query' = Unfiltered /\ card_ids' = <<>> /\ next' = 1
  /\ devices' = <<>> /\ errors' = <<>> /\ truth' = NoTruth
  /\ UNCHANGED owner

Next ==
  \/ OthersMove \/ ReadSerial \/ CheckAvailability \/ Return
  \/ \E q \in Queries : Find(q)

Spec == Init /\ [][Next]_vars

-----------------------------------------------------------------------------
Listed(c) == c \notin truth.unread /\ Matches(c)

\* The devices are what the first n cards answered.
Described(n) ==
  /\ \A d \in DOMAIN devices : \E i \in 1..n :
       /\ Listed(card_ids[i])
       /\ devices[d] = [card |-> card_ids[i], available |-> card_ids[i] \in truth.openable]
  /\ \A i \in 1..n : Listed(card_ids[i]) =>
       \E d \in DOMAIN devices : devices[d].card = card_ids[i]
  /\ \A d, e \in DOMAIN devices : \A i, j \in 1..n :
       d < e /\ devices[d].card = card_ids[i] /\ devices[e].card = card_ids[j] => i < j

Recorded ==
  ToSet(errors) = {[card |-> c, what |-> "serial"] : c \in truth.unread}
                      \cup {[card |-> c, what |-> "availability"] : c \in truth.unchecked}

\* One card's failure never hides another: every enumerated card whose serial could
\* be read and that matches is listed once, in order, as available only if this
\* process could have opened it when asked, and every failed call is on record for
\* its card (DeviceDiscovery.cpp:56-86, Registration.cpp:53-66).
EveryCardReported ==
  at = "done" =>
    /\ Described(Len(card_ids))
    /\ card_ids # <<>> => Recorded
    /\ truth.unread \cap (truth.unchecked \cup truth.openable) = {}
=============================================================================

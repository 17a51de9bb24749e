---------------------------- MODULE DiscoveryProofs ----------------------------
(***************************************************************************)
(* A discovery reports every card as it answered, for any finite set of    *)
(* cards, their serials and filters, in whatever order they are listed.    *)
(*                                                                         *)
(* EveryCardReported speaks of a finished discovery.  ReportInv says the   *)
(* same of the cards before the one in hand, and adds that no answer is    *)
(* about a card not asked yet; since no card is listed twice, what the     *)
(* card in hand answers changes nothing said of those before it.           *)
(***************************************************************************)
EXTENDS Discovery, FiniteSetTheorems, TLAPS

Descriptors == [card : Cards, available : BOOLEAN]
ErrorRecords == [card : Cards \cup {NoCard}, what : {"enumerate", "serial", "availability"}]

TypeInv ==
  /\ at \in {"idle", "serial", "availability", "done"}
  /\ card_ids \in Seq(Cards)
  /\ \A i, j \in 1..Len(card_ids) : card_ids[i] = card_ids[j] => i = j
  /\ next \in Nat
  /\ at \in {"serial", "availability"} => next \in 1..Len(card_ids)
  /\ at = "done" => next = Len(card_ids) + 1
  /\ devices \in Seq(Descriptors) /\ errors \in Seq(ErrorRecords)
  /\ truth \in [unread : SUBSET Cards, unchecked : SUBSET Cards, openable : SUBSET Cards]

Asked == {card_ids[i] : i \in 1..(next - 1)}

ReportInv ==
  at # "idle" =>
    /\ truth.unread \cup truth.unchecked \cup truth.openable \subseteq Asked
    /\ truth.unread \cap (truth.unchecked \cup truth.openable) = {}
    /\ Described(next - 1)
    /\ card_ids # <<>> => Recorded

----------------------------------------------------------------------------
LEMMA ListsTyped ==
  ASSUME NEW S \in SUBSET Cards, NEW ids \in SetToSeqs(S)
  PROVE  /\ ids \in Seq(Cards)
         /\ \A i, j \in 1..Len(ids) : ids[i] = ids[j] => i = j
<1>1. Cardinality(S) \in Nat
  BY CardsAssumption, FS_Subset, FS_CardinalityType
<1>2. /\ ids \in [1..Cardinality(S) -> S]
      /\ \A i, j \in 1..Cardinality(S) : i # j => ids[i] # ids[j]
  BY DEF SetToSeqs
<1>3. ids \in Seq(Cards) /\ Len(ids) = Cardinality(S)
  BY <1>1, <1>2
<1> QED  BY <1>2, <1>3

\* One more report: what was on record, and the new one.
LEMMA AppendRange ==
  ASSUME NEW T, NEW s \in Seq(T), NEW e \in T
  PROVE  /\ Append(s, e) \in Seq(T)
         /\ ToSet(Append(s, e)) = ToSet(s) \cup {e}
<1> DEFINE t == Append(s, e)
<1>1. /\ t \in Seq(T) /\ Len(s) \in Nat /\ Len(t) = Len(s) + 1
      /\ DOMAIN s = 1..Len(s) /\ DOMAIN t = 1..(Len(s) + 1)
  OBVIOUS
<1>2. \A i \in 1..Len(s) : t[i] = s[i]
  OBVIOUS
<1>3. t[Len(s) + 1] = e
  OBVIOUS
<1> HIDE DEF t
<1>4. ToSet(t) = ToSet(s) \cup {e}
  <2>1. ToSet(t) \subseteq ToSet(s) \cup {e}
    BY <1>1, <1>2, <1>3 DEF ToSet
  <2>2. ToSet(s) \cup {e} \subseteq ToSet(t)
    BY <1>1, <1>2, <1>3 DEF ToSet
  <2> QED  BY <2>1, <2>2
<1> QED  BY <1>1, <1>4 DEF t

LEMMA TypeStep == ASSUME TypeInv, [Next]_vars PROVE TypeInv'
<1>1. CASE OthersMove
  BY <1>1 DEF OthersMove, TypeInv
<1>2. ASSUME NEW q \in Queries, Find(q) PROVE TypeInv'
  <2>1. /\ next' = 1 /\ devices' = <<>>
        /\ truth' = [unread |-> {}, unchecked |-> {}, openable |-> {}]
    BY <1>2 DEF Find, NoTruth
  <2>2. /\ card_ids' \in Seq(Cards)
        /\ \A i, j \in 1..Len(card_ids') : card_ids'[i] = card_ids'[j] => i = j
        /\ \/ at' = "serial" /\ card_ids' # <<>>
           \/ at' = "done" /\ card_ids' = <<>>
    <3>1. CASE card_ids' = <<>> /\ at' = "done"
      BY <3>1
    <3>2. CASE ~ (card_ids' = <<>> /\ at' = "done")
      <4>1. PICK S \in SUBSET Cards : \E ids \in SetToSeqs(S) :
              /\ card_ids' = ids
              /\ at' = IF ids = <<>> THEN "done" ELSE "serial"
        BY <1>2, <3>2 DEF Find
      <4>2. PICK ids \in SetToSeqs(S) :
              card_ids' = ids /\ at' = IF ids = <<>> THEN "done" ELSE "serial"
        BY <4>1
      <4>3. /\ ids \in Seq(Cards)
            /\ \A i, j \in 1..Len(ids) : ids[i] = ids[j] => i = j
        BY <4>2, ListsTyped
      <4> HIDE <4>1
      <4> QED  BY <3>2, <4>2, <4>3
    <3> QED  BY <3>1, <3>2
  <2>3. errors' \in Seq(ErrorRecords)
    <3>1. \/ errors' = <<>>
          \/ errors' = <<[card |-> NoCard, what |-> "enumerate"]>>
      BY <1>2 DEF Find
    <3>2. [card |-> NoCard, what |-> "enumerate"] \in ErrorRecords
      BY DEF ErrorRecords
    <3>3. \A e \in ErrorRecords : <<e>> \in Seq(ErrorRecords)
      OBVIOUS
    <3>4. <<>> \in Seq(ErrorRecords)
      OBVIOUS
    <3> HIDE DEF ErrorRecords
    <3> QED  BY <3>1, <3>2, <3>3, <3>4, Zenon
  <2> QED  BY <2>1, <2>2, <2>3 DEF TypeInv
<1>3. CASE ReadSerial
  <2>1. Card \in Cards /\ next \in 1..Len(card_ids)
    BY <1>3 DEF ReadSerial, TypeInv, Card
  <2>2. errors' \in Seq(ErrorRecords)
    <3>1. UNCHANGED errors \/ errors' = Append(errors, [card |-> Card, what |-> "serial"])
      BY <1>3 DEF ReadSerial, Report
    <3>2. [card |-> Card, what |-> "serial"] \in ErrorRecords
      BY <2>1 DEF ErrorRecords
    <3> QED  BY <3>1, <3>2 DEF TypeInv
  <2>3. truth' \in [unread : SUBSET Cards, unchecked : SUBSET Cards, openable : SUBSET Cards]
    <3>1. \/ UNCHANGED truth
          \/ truth' = [truth EXCEPT !.unread = truth.unread \cup {Card}]
      BY <1>3 DEF ReadSerial
    <3>2. truth.unread \cup {Card} \in SUBSET Cards
      BY <2>1 DEF TypeInv
    <3> QED  BY <3>1, <3>2 DEF TypeInv
  <2>4. /\ next' \in Nat /\ at' \in {"serial", "availability", "done"}
        /\ at' \in {"serial", "availability"} => next' \in 1..Len(card_ids)
        /\ at' = "done" => next' = Len(card_ids) + 1
    BY <1>3, <2>1 DEF ReadSerial, TypeInv, Continue
  <2>5. UNCHANGED <<card_ids, devices>>
    BY <1>3 DEF ReadSerial
  <2> QED  BY <2>2, <2>3, <2>4, <2>5 DEF TypeInv
<1>4. CASE CheckAvailability
  <2>1. Card \in Cards /\ next \in 1..Len(card_ids)
    BY <1>4 DEF CheckAvailability, TypeInv, Card
  <2>2. errors' \in Seq(ErrorRecords)
    <3>1. UNCHANGED errors \/ errors' = Append(errors, [card |-> Card, what |-> "availability"])
      BY <1>4 DEF CheckAvailability, Report
    <3>2. [card |-> Card, what |-> "availability"] \in ErrorRecords
      BY <2>1 DEF ErrorRecords
    <3> QED  BY <3>1, <3>2 DEF TypeInv
  <2>3. devices' \in Seq(Descriptors)
    <3>1. \/ UNCHANGED devices
          \/ devices' = Append(devices, [card |-> Card, available |-> Available])
          \/ devices' = Append(devices, [card |-> Card, available |-> FALSE])
      BY <1>4 DEF CheckAvailability, DescribeUnchecked, Describe
    <3>2. Available \in BOOLEAN
      BY DEF Available
    <3>3. \A c \in Cards, a \in BOOLEAN : [card |-> c, available |-> a] \in Descriptors
      BY DEF Descriptors
    <3>4. /\ [card |-> Card, available |-> Available] \in Descriptors
          /\ [card |-> Card, available |-> FALSE] \in Descriptors
      BY <2>1, <3>2, <3>3
    <3> HIDE DEF Descriptors, Card, Available
    <3>5. devices \in Seq(Descriptors)
      BY DEF TypeInv
    <3> QED  BY <3>1, <3>4, <3>5, AppendRange
  <2>4. truth' \in [unread : SUBSET Cards, unchecked : SUBSET Cards, openable : SUBSET Cards]
    <3>1. \/ UNCHANGED truth
          \/ truth' = [truth EXCEPT !.openable = truth.openable \cup {Card}]
          \/ truth' = [truth EXCEPT !.unchecked = truth.unchecked \cup {Card}]
      BY <1>4 DEF CheckAvailability
    <3>2. /\ truth.openable \cup {Card} \in SUBSET Cards
          /\ truth.unchecked \cup {Card} \in SUBSET Cards
      BY <2>1 DEF TypeInv
    <3> QED  BY <3>1, <3>2 DEF TypeInv
  <2>5. /\ next' \in Nat /\ at' \in {"serial", "availability", "done"}
        /\ at' \in {"serial", "availability"} => next' \in 1..Len(card_ids)
        /\ at' = "done" => next' = Len(card_ids) + 1
    BY <1>4, <2>1 DEF CheckAvailability, TypeInv, Continue
  <2>6. UNCHANGED card_ids
    BY <1>4 DEF CheckAvailability
  <2> QED  BY <2>2, <2>3, <2>4, <2>5, <2>6 DEF TypeInv
<1>5. CASE Return
  <2>1. /\ at' = "idle" /\ card_ids' = <<>> /\ next' = 1 /\ devices' = <<>> /\ errors' = <<>>
        /\ truth' = [unread |-> {}, unchecked |-> {}, openable |-> {}]
    BY <1>5 DEF Return, NoTruth
  <2> QED  BY <2>1 DEF TypeInv
<1>6. CASE UNCHANGED vars
  BY <1>6 DEF vars, TypeInv
<1> QED  BY <1>1, <1>2, <1>3, <1>4, <1>5, <1>6 DEF Next

----------------------------------------------------------------------------
\* The card in hand has not answered before.
LEMMA NotAskedYet ==
  ASSUME TypeInv, next \in 1..Len(card_ids)
  PROVE  /\ Card \notin Asked
         /\ \A i \in 1..(next - 1) : card_ids[i] # Card
         /\ {card_ids[i] : i \in 1..next} = Asked \cup {Card}
<1>1. \A i \in 1..(next - 1) : card_ids[i] # card_ids[next]
  BY DEF TypeInv
<1>2. 1..next = (1..(next - 1)) \cup {next}
  BY DEF TypeInv
<1> QED  BY <1>1, <1>2 DEF Asked, Card

\* What failed for the card in hand goes on the record.
LEMMA ErrorReported ==
  ASSUME TypeInv, next \in 1..Len(card_ids), NEW what \in {"serial", "availability"},
         errors' = Append(errors, [card |-> Card, what |-> what])
  PROVE  ToSet(errors') = ToSet(errors) \cup {[card |-> Card, what |-> what]}
<1>1. Card \in Cards
  BY DEF TypeInv, Card
<1>2. \A c \in Cards : [card |-> c, what |-> what] \in ErrorRecords
  BY DEF ErrorRecords
<1>3. errors \in Seq(ErrorRecords) /\ [card |-> Card, what |-> what] \in ErrorRecords
  BY <1>1, <1>2 DEF TypeInv
<1> HIDE DEF ErrorRecords, Card
<1> QED  BY <1>3, AppendRange

\* A card that is not listed changes nothing that was said of those before it.
LEMMA NotListed ==
  ASSUME TypeInv, NEW n \in Nat, n = next, next \in 1..Len(card_ids), Described(next - 1),
         devices' = devices, card_ids' = card_ids,
         \A i \in 1..(next - 1) :
           /\ Listed(card_ids[i])' <=> Listed(card_ids[i])
           /\ card_ids[i] \in truth'.openable <=> card_ids[i] \in truth.openable,
         ~ Listed(card_ids[n])'
  PROVE  Described(n)'
<1>1. \A i \in 1..n : i = n \/ i \in 1..(next - 1)
  OBVIOUS
<1>2. \A d \in DOMAIN devices : \E i \in 1..(next - 1) :
        /\ Listed(card_ids[i])
        /\ devices[d] = [card |-> card_ids[i], available |-> card_ids[i] \in truth.openable]
  BY DEF Described
<1>3. \A d \in DOMAIN devices' : \E i \in 1..n :
        /\ Listed(card_ids[i])'
        /\ devices'[d] = [card |-> card_ids[i], available |-> card_ids[i] \in truth'.openable]
  <2>1. SUFFICES ASSUME NEW d \in DOMAIN devices
                 PROVE  \E i \in 1..n :
                   /\ Listed(card_ids[i])'
                   /\ devices[d] = [card |-> card_ids[i],
                                    available |-> card_ids[i] \in truth'.openable]
    OBVIOUS
  <2>2. PICK i \in 1..(next - 1) :
          /\ Listed(card_ids[i])
          /\ devices[d] = [card |-> card_ids[i], available |-> card_ids[i] \in truth.openable]
    BY <1>2
  <2>3. (card_ids[i] \in truth'.openable) = (card_ids[i] \in truth.openable)
    OBVIOUS
  <2>4. i \in 1..n /\ Listed(card_ids[i])'
    BY <2>2
  <2> QED  BY <2>2, <2>3, <2>4
<1>4. \A i \in 1..n : Listed(card_ids[i])' => \E d \in DOMAIN devices' : devices'[d].card = card_ids[i]
  BY <1>1 DEF Described
<1>5. \A d \in DOMAIN devices : \A i \in 1..n : devices[d].card = card_ids[i] => i \in 1..(next - 1)
  <2>1. SUFFICES ASSUME NEW d \in DOMAIN devices, devices[d].card = card_ids[n] PROVE FALSE
    BY <1>1
  <2>2. PICK i \in 1..(next - 1) : devices[d].card = card_ids[i]
    BY <1>2
  <2> QED  BY <2>1, <2>2, NotAskedYet DEF Card
<1>6. \A d, e \in DOMAIN devices' : \A i, j \in 1..n :
        d < e /\ devices'[d].card = card_ids[i] /\ devices'[e].card = card_ids[j] => i < j
  BY <1>5 DEF Described
<1> QED  BY <1>3, <1>4, <1>6 DEF Described

\* What is said of the cards before the one in hand survives its answer, and the
\* answer adds what Described and Recorded ask of it.
LEMMA ReportStep == ASSUME TypeInv, TypeInv', ReportInv, [Next]_vars PROVE ReportInv'
<1>1. CASE OthersMove
  BY <1>1 DEF OthersMove, ReportInv, Asked, Described, Recorded, Listed, Matches
<1>2. ASSUME NEW q \in Queries, Find(q) PROVE ReportInv'
  <2>1. /\ next' = 1 /\ devices' = <<>>
        /\ truth' = [unread |-> {}, unchecked |-> {}, openable |-> {}]
        /\ card_ids' # <<>> => errors' = <<>>
    BY <1>2 DEF Find, NoTruth
  <2>2. Described(next - 1)'
    BY <2>1 DEF Described
  <2>3. (card_ids' # <<>> => Recorded')
    BY <2>1 DEF Recorded, ToSet
  <2> QED  BY <2>1, <2>2, <2>3 DEF ReportInv
<1>3. CASE ReadSerial
  <2>0. PICK n \in Nat : n = next
    BY DEF TypeInv
  <2>1. /\ at = "serial" /\ next \in 1..Len(card_ids) /\ card_ids # <<>>
        /\ query' = query /\ card_ids' = card_ids /\ devices' = devices
    BY <1>3 DEF ReadSerial, TypeInv
  <2>2. CASE UNCHANGED <<next, errors, truth>>
    BY <2>1, <2>2 DEF ReportInv, Asked, Described, Recorded, Listed, Matches
  <2>3. CASE /\ errors' = Append(errors, [card |-> Card, what |-> "serial"])
             /\ next' = next + 1
             /\ truth' = [truth EXCEPT !.unread = @ \cup {Card}]
    <3>1. /\ truth'.unread = truth.unread \cup {Card}
          /\ truth'.unchecked = truth.unchecked /\ truth'.openable = truth.openable
      BY <2>3 DEF TypeInv
    <3>2. /\ Card \notin Asked /\ Card = card_ids[next]
          /\ \A i \in 1..(next - 1) : card_ids[i] # Card
          /\ {card_ids[i] : i \in 1..next} = Asked \cup {Card}
      BY <2>1, NotAskedYet DEF Card
    <3>3. next' - 1 = next /\ next \in Nat
      BY <2>1, <2>3
    <3>4. Asked' = Asked \cup {Card}
      BY <2>1, <3>2, <3>3 DEF Asked
    <3>5. \A i \in 1..(next - 1) : Listed(card_ids[i])' <=> Listed(card_ids[i])
      BY <2>1, <3>1, <3>2 DEF Listed, Matches
    <3>6. ~ Listed(card_ids[n])'
      BY <2>0, <2>1, <2>3, <3>1, <3>2 DEF Listed
    <3>7. Described(n)'
      BY <2>0, <2>1, <3>1, <3>5, <3>6, NotListed DEF ReportInv
    <3>8. Recorded'
      BY <2>1, <2>3, <3>1, ErrorReported DEF Recorded, ReportInv
    <3> QED  BY <2>0, <2>1, <3>1, <3>2, <3>3, <3>4, <3>7, <3>8 DEF ReportInv
  <2> QED  BY <1>3, <2>2, <2>3 DEF ReadSerial, Report, Continue
<1>4. CASE CheckAvailability
  <2>0. PICK n \in Nat : n = next
    BY DEF TypeInv
  <2>1. /\ at = "availability" /\ next \in 1..Len(card_ids) /\ card_ids # <<>>
        /\ query' = query /\ card_ids' = card_ids /\ next' = next + 1
    BY <1>4 DEF CheckAvailability, TypeInv, Continue
  <2>2. /\ truth'.unread = truth.unread
        /\ truth.openable \subseteq truth'.openable
        /\ truth'.openable \subseteq truth.openable \cup {Card}
        /\ truth'.unchecked \subseteq truth.unchecked \cup {Card}
    <3>1. \/ truth' = truth
          \/ truth' = [truth EXCEPT !.openable = @ \cup {Card}]
          \/ truth' = [truth EXCEPT !.unchecked = @ \cup {Card}]
      BY <1>4 DEF CheckAvailability
    <3> HIDE DEF Card
    <3> QED  BY <3>1 DEF TypeInv
  <2>3. /\ Card \notin Asked /\ Card = card_ids[next] /\ Card \in Cards
        /\ \A i \in 1..(next - 1) : card_ids[i] # Card
        /\ {card_ids[i] : i \in 1..next} = Asked \cup {Card}
        /\ next' - 1 = next /\ next \in Nat
    BY <2>1, NotAskedYet DEF Card, TypeInv
  <2>4. Asked' = Asked \cup {Card}
    BY <2>1, <2>3 DEF Asked
  <2>5. Card \notin truth.unread \cup truth.unchecked \cup truth.openable
    BY <2>1, <2>3 DEF ReportInv
  <2>6. \A i \in 1..(next - 1) :
          /\ Listed(card_ids[i])' <=> Listed(card_ids[i])
          /\ card_ids[i] \in truth'.openable <=> card_ids[i] \in truth.openable
    BY <2>1, <2>2, <2>3 DEF Listed, Matches
  <2>7. Listed(card_ids[n])' <=> Matches(Card)
    BY <2>0, <2>1, <2>2, <2>3, <2>5 DEF Listed, Matches
  <2>8. devices' = IF Matches(Card)
                   THEN Append(devices, [card |-> Card, available |-> Card \in truth'.openable])
                   ELSE devices
    <3>1. CASE Describe(Available) /\ truth' = IF Available THEN [truth EXCEPT !.openable = @ \cup {Card}] ELSE truth
      <4>1. Card \in truth'.openable <=> Available
        BY <2>5, <3>1 DEF TypeInv
      <4>2. (Card \in truth'.openable) = Available
        BY <4>1 DEF Available
      <4> QED  BY <3>1, <4>2 DEF Describe
    <3>2. CASE Describe(FALSE) /\ truth' = [truth EXCEPT !.unchecked = @ \cup {Card}]
      <4>1. Card \notin truth'.openable
        BY <2>5, <3>2 DEF TypeInv
      <4>2. (Card \in truth'.openable) = FALSE
        BY <4>1
      <4> QED  BY <3>2, <4>2 DEF Describe
    <3> QED  BY <1>4, <3>1, <3>2 DEF CheckAvailability, DescribeUnchecked
  <2>9. Described(n)'
    <3>1. CASE ~ Matches(Card)
      BY <2>0, <2>1, <2>6, <2>7, <2>8, <3>1, NotListed DEF ReportInv
    <3>2. CASE Matches(Card)
      <4> DEFINE d == [card |-> Card, available |-> Card \in truth'.openable]
      <4>1. /\ devices' = Append(devices, d) /\ d.card = Card
            /\ devices \in Seq(Descriptors)
        BY <2>8, <3>2 DEF TypeInv
      <4> HIDE DEF d
      <4>2. /\ DOMAIN devices = 1..Len(devices) /\ Len(devices) \in Nat
            /\ DOMAIN devices' = 1..(Len(devices) + 1)
            /\ \A k \in 1..Len(devices) : devices'[k] = devices[k]
            /\ devices'[Len(devices) + 1] = d
        BY <4>1
      <4>3. Described(next - 1)
        BY <2>1 DEF ReportInv
      <4>4. \A k \in DOMAIN devices' : \E i \in 1..n :
              /\ Listed(card_ids[i])'
              /\ devices'[k] = [card |-> card_ids[i], available |-> card_ids[i] \in truth'.openable]
        <5>1. SUFFICES ASSUME NEW k \in DOMAIN devices'
                       PROVE  \E i \in 1..n :
                         /\ Listed(card_ids[i])'
                         /\ devices'[k] = [card |-> card_ids[i],
                                           available |-> card_ids[i] \in truth'.openable]
          OBVIOUS
        <5>2. CASE k \in 1..Len(devices)
          <6>1. PICK i \in 1..(next - 1) :
                  /\ Listed(card_ids[i])
                  /\ devices[k] = [card |-> card_ids[i], available |-> card_ids[i] \in truth.openable]
            BY <4>2, <4>3, <5>2 DEF Described
          <6>2. (card_ids[i] \in truth'.openable) = (card_ids[i] \in truth.openable)
            BY <2>6, <6>1
          <6>3. i \in 1..n /\ devices'[k] = devices[k] /\ Listed(card_ids[i])'
            BY <2>0, <2>3, <2>6, <4>2, <5>2, <6>1
          <6> QED  BY <6>1, <6>2, <6>3
        <5>3. CASE k = Len(devices) + 1
          <6>1. n \in 1..n /\ Listed(card_ids[n])'
            BY <2>0, <2>1, <2>7, <3>2
          <6>2. devices'[k] = [card |-> card_ids[n], available |-> card_ids[n] \in truth'.openable]
            BY <2>0, <2>3, <4>2, <5>3 DEF d
          <6> QED  BY <6>1, <6>2
        <5> QED  BY <4>2, <5>2, <5>3
      <4>5. \A i \in 1..n : Listed(card_ids[i])' =>
              \E k \in DOMAIN devices' : devices'[k].card = card_ids[i]
        <5>1. ASSUME NEW i \in 1..n, Listed(card_ids[i])', i # n
              PROVE  \E k \in DOMAIN devices' : devices'[k].card = card_ids[i]
          <6>1. i \in 1..(next - 1)
            BY <2>0, <5>1
          <6>2. PICK k \in DOMAIN devices : devices[k].card = card_ids[i]
            BY <2>1, <2>6, <4>3, <5>1, <6>1 DEF Described
          <6> QED  BY <4>2, <6>2
        <5>2. \E k \in DOMAIN devices' : devices'[k].card = card_ids[n]
          BY <2>0, <2>3, <4>1, <4>2
        <5> QED  BY <5>1, <5>2
      <4>6. \A k, e \in DOMAIN devices' : \A i, j \in 1..n :
              k < e /\ devices'[k].card = card_ids[i] /\ devices'[e].card = card_ids[j] => i < j
        <5>1. SUFFICES ASSUME NEW k \in DOMAIN devices', NEW e \in DOMAIN devices', k < e,
                              NEW i \in 1..n, NEW j \in 1..n,
                              devices'[k].card = card_ids[i], devices'[e].card = card_ids[j]
                       PROVE  i < j
          OBVIOUS
        <5>2. k \in 1..Len(devices) /\ devices'[k] = devices[k]
          BY <4>2, <5>1
        <5>3. i \in 1..(next - 1)
          <6>1. PICK m \in 1..(next - 1) : devices[k] = [card |-> card_ids[m],
                                                         available |-> card_ids[m] \in truth.openable]
            BY <4>2, <4>3, <5>2 DEF Described
          <6>2. card_ids[i] # Card
            BY <2>3, <5>1, <5>2, <6>1
          <6> QED  BY <2>0, <2>3, <6>2
        <5>4. CASE e \in 1..Len(devices)
          <6>1. PICK m \in 1..(next - 1) : devices[e] = [card |-> card_ids[m],
                                                         available |-> card_ids[m] \in truth.openable]
            BY <4>2, <4>3, <5>4 DEF Described
          <6>2. card_ids[j] # Card
            BY <2>3, <4>2, <5>1, <5>4, <6>1
          <6>3. j \in 1..(next - 1)
            BY <2>0, <2>3, <6>2
          <6> QED  BY <4>2, <4>3, <5>1, <5>2, <5>3, <5>4, <6>3 DEF Described
        <5>5. CASE e = Len(devices) + 1
          <6>1. card_ids[j] = Card
            BY <4>1, <4>2, <5>1, <5>5
          <6>2. j = n
            BY <2>0, <2>3, <6>1
          <6> QED  BY <2>0, <5>3, <6>2
        <5> QED  BY <4>2, <5>4, <5>5
      <4> QED  BY <2>1, <4>4, <4>5, <4>6 DEF Described
    <3> QED  BY <3>1, <3>2
  <2>10. Recorded'
    <3>1. CASE errors' = errors /\ truth'.unchecked = truth.unchecked
      BY <2>1, <2>2, <3>1 DEF Recorded, ReportInv
    <3>2. CASE /\ errors' = Append(errors, [card |-> Card, what |-> "availability"])
               /\ truth'.unchecked = truth.unchecked \cup {Card}
      BY <2>1, <2>2, <3>2, ErrorReported DEF Recorded, ReportInv
    <3> QED  BY <1>4, <3>1, <3>2 DEF CheckAvailability, Report, TypeInv
  <2> QED  BY <2>0, <2>1, <2>2, <2>3, <2>4, <2>5, <2>9, <2>10 DEF ReportInv
<1>5. CASE Return
  BY <1>5 DEF Return, ReportInv
<1>6. CASE UNCHANGED vars
  BY <1>6 DEF vars, ReportInv, Asked, Described, Recorded, Listed, Matches
<1> QED  BY <1>1, <1>2, <1>3, <1>4, <1>5, <1>6 DEF Next

\* The serials and filters, the order in which cards are listed, the answers and
\* what other processes do to the cards meanwhile are arbitrary.
LEMMA Invariance == Spec => [](TypeInv /\ ReportInv)
<1>1. Init => TypeInv /\ ReportInv
  BY DEF Init, NoTruth, TypeInv, ReportInv
<1>2. TypeInv /\ ReportInv /\ [Next]_vars => (TypeInv /\ ReportInv)'
  BY TypeStep, ReportStep
<1> QED  BY <1>1, <1>2, PTL DEF Spec

\* findSidekiqDevices leaves out no card whose serial it read and whose filters
\* match, lists them in the order of skiq_get_cards, calls a card available only if
\* it could be opened when asked, and reports every call that failed, for any number
\* of cards and whatever the other calls answered (DeviceDiscovery.cpp:56-86).
THEOREM EveryCardIsReported == Spec => []EveryCardReported
<1>1. TypeInv /\ ReportInv => EveryCardReported
  BY DEF TypeInv, ReportInv, EveryCardReported
<1> QED  BY <1>1, Invariance, PTL
=============================================================================

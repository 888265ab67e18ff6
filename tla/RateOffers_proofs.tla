------------------------- MODULE RateOffers_proofs -------------------------
(***************************************************************************)
(* From a rate search to the rate quoted, for search results of any length *)
(* and content: what the card offers, what it marks as a trade-off, and    *)
(* what the client is quoted.                                              *)
(***************************************************************************)
EXTENDS RateOffers, FiniteSetTheorems, TLAPS

\* The context of every lemma below: one search result and one shipment.
Searched ==
    /\ rows \in Seq(RowType)
    /\ door \in BOOLEAN
    /\ liquid \in BOOLEAN \union {Unstated}

RateType == [carrier : Nat, product : Nat, amount : Nat \union {Unstated},
             currency : STRING \union {Unstated}, minutes : Nat \union {Unstated},
             departs : Nat \union {Unstated}, liquids : BOOLEAN \union {Unstated},
             door : BOOLEAN \union {Unstated}, ref : Nat]

-----------------------------------------------------------------------------
(* Rates and filters                                                       *)

LEMMA PriceOf ==
  ASSUME NEW price \in {<<>>} \union (Nat \X STRING), price # <<>>
  PROVE  price[1] \in Nat /\ price[2] \in STRING
OBVIOUS

LEMMA DurationOf ==
  ASSUME NEW duration \in {<<>>} \union (Nat \X Nat)
  PROVE  ParseDuration(duration) \in Nat \union {Unstated}
<1>1. CASE duration = <<>> BY <1>1 DEF ParseDuration
<1>2. CASE duration # <<>>
  <2>1. duration[1] \in Nat /\ duration[2] \in Nat BY <1>2
  <2> QED BY <1>2, <2>1 DEF ParseDuration
<1> QED BY <1>1, <1>2

\* A rate's source_ref is told apart by the row's position.
LEMMA RatesTyped ==
  ASSUME Searched
  PROVE  /\ DOMAIN Rates = DOMAIN rows
         /\ \A i \in DOMAIN rows : i \in Nat /\ Rates[i] \in RateType /\ Rates[i].ref = i
<1> SUFFICES ASSUME NEW i \in DOMAIN rows
             PROVE  i \in Nat /\ MapRecord(rows[i], i) \in RateType
                    /\ MapRecord(rows[i], i).ref = i
  BY DEF Rates
<1>1. i \in Nat /\ rows[i] \in RowType BY DEF Searched
<1>2. rows[i].price # <<>> => rows[i].price[1] \in Nat /\ rows[i].price[2] \in STRING
  BY <1>1, PriceOf DEF RowType
<1>3. ParseDuration(rows[i].duration) \in Nat \union {Unstated}
  BY <1>1, DurationOf DEF RowType
<1> HIDE DEF ParseDuration
<1> QED BY <1>1, <1>2, <1>3 DEF MapRecord, RowType, RateType

LEMMA EligibleRates ==
  ASSUME Searched
  PROVE  /\ Eligible \subseteq DOMAIN rows /\ Eligible \subseteq Nat
         /\ IsFiniteSet(Eligible)
         /\ \A i \in Eligible : /\ Rates[i] \in RateType /\ Rates[i].ref = i
                                /\ Rates[i].amount \in Nat /\ Rates[i].minutes \in Nat
                                /\ Rates[i].carrier \in Nat
                                /\ ~IncompatibleService(i)
<1>1. Eligible \subseteq DOMAIN rows BY DEF Eligible
<1>2. DOMAIN rows = 1 .. Len(rows) /\ Len(rows) \in Nat BY DEF Searched
<1>3. IsFiniteSet(Eligible)
  <2>1. IsFiniteSet(1 .. Len(rows)) BY <1>2, FS_Interval
  <2> QED BY <1>1, <1>2, <2>1, FS_Subset
<1>4. ASSUME NEW i \in Eligible
      PROVE  /\ ~DropIncompleteRate(Rates[i]) /\ ~DropUnrankableRate(Rates[i])
             /\ ~DropServiceMismatch(Rates[i])
  BY DEF Eligible, ExclusionReason
<1>5. ASSUME NEW i \in Eligible
      PROVE  /\ Rates[i] \in RateType /\ Rates[i].ref = i
             /\ Rates[i].amount \in Nat /\ Rates[i].minutes \in Nat /\ Rates[i].carrier \in Nat
  <2>1. Rates[i] \in RateType /\ Rates[i].ref = i BY <1>1, RatesTyped
  <2> QED BY <1>4, <2>1 DEF DropIncompleteRate, DropUnrankableRate, RateType
<1>6. \A i \in Eligible : ~IncompatibleService(i)
  BY <1>4 DEF DropServiceMismatch, IncompatibleService
<1> QED BY <1>1, <1>2, <1>3, <1>5, <1>6

-----------------------------------------------------------------------------
(* The least of a set                                                      *)

LEMMA LeastNatural ==
  ASSUME NEW S \in SUBSET Nat, S # {}
  PROVE  \E n \in S : \A m \in S : n <= m
<1>1. PICK n \in S : \A m \in S : ~(<<m, n>> \in OpToRel(<, Nat))
  BY NatLessThanWellFounded, WFMin
<1>2. ASSUME NEW m \in S PROVE n <= m
  <2>1. n \in Nat /\ m \in Nat OBVIOUS
  <2>2. m < n => <<m, n>> \in OpToRel(<, Nat) BY <2>1 DEF OpToRel
  <2>3. ~(m < n) BY <1>1, <2>2, Zenon
  <2> QED BY <2>1, <2>3
<1> QED BY <1>2

LEMMA LeastBy ==
  ASSUME NEW S, S # {}, NEW f \in [S -> Nat]
  PROVE  \E i \in S : \A j \in S : f[i] <= f[j]
<1> DEFINE values == {f[i] : i \in S}
<1>1. values \in SUBSET Nat /\ values # {} OBVIOUS
<1>2. PICK n \in values : \A m \in values : n <= m BY <1>1, LeastNatural
<1>3. PICK i \in S : f[i] = n BY <1>2
<1> QED BY <1>2, <1>3

LEMMA Lexicographic3 ==
  ASSUME NEW a1 \in Nat, NEW a2 \in Nat, NEW a3 \in Nat,
         NEW b1 \in Nat, NEW b2 \in Nat, NEW b3 \in Nat
  PROVE  LexLess(<<a1, a2, a3>>, <<b1, b2, b3>>) <=>
            a1 < b1 \/ (a1 = b1 /\ (a2 < b2 \/ (a2 = b2 /\ a3 < b3)))
<1> DEFINE a == <<a1, a2, a3>>  b == <<b1, b2, b3>>
           before(k) == a[k] < b[k] /\ \A m \in 1 .. (k - 1) : a[m] = b[m]
<1>1. DOMAIN a = {1, 2, 3} OBVIOUS
<1>2. before(1) <=> a1 < b1 OBVIOUS
<1>3. before(2) <=> a2 < b2 /\ a1 = b1
  <2>1. 1 .. (2 - 1) = {1} OBVIOUS
  <2> QED BY <2>1
<1>4. before(3) <=> a3 < b3 /\ a1 = b1 /\ a2 = b2
  <2>1. 1 .. (3 - 1) = {1, 2} OBVIOUS
  <2> QED BY <2>1
<1>5. LexLess(a, b) <=> before(1) \/ before(2) \/ before(3) BY <1>1 DEF LexLess
<1> QED BY <1>2, <1>3, <1>4, <1>5

LEMMA Lexicographic4 ==
  ASSUME NEW a \in Nat \X Nat \X Nat \X Nat, NEW b \in Nat \X Nat \X Nat \X Nat
  PROVE  LexLess(a, b) <=>
            \/ a[1] < b[1]
            \/ /\ a[1] = b[1]
               /\ \/ a[2] < b[2]
                  \/ a[2] = b[2] /\ (a[3] < b[3] \/ (a[3] = b[3] /\ a[4] < b[4]))
<1> DEFINE before(k) == a[k] < b[k] /\ \A m \in 1 .. (k - 1) : a[m] = b[m]
<1>1. DOMAIN a = {1, 2, 3, 4} OBVIOUS
<1>2. before(1) <=> a[1] < b[1] OBVIOUS
<1>3. before(2) <=> a[2] < b[2] /\ a[1] = b[1]
  <2>1. 1 .. (2 - 1) = {1} OBVIOUS
  <2> QED BY <2>1
<1>4. before(3) <=> a[3] < b[3] /\ a[1] = b[1] /\ a[2] = b[2]
  <2>1. 1 .. (3 - 1) = {1, 2} OBVIOUS
  <2> QED BY <2>1
<1>5. before(4) <=> a[4] < b[4] /\ a[1] = b[1] /\ a[2] = b[2] /\ a[3] = b[3]
  <2>1. 1 .. (4 - 1) = {1, 2, 3} OBVIOUS
  <2> QED BY <2>1
<1>6. LexLess(a, b) <=> before(1) \/ before(2) \/ before(3) \/ before(4) BY <1>1 DEF LexLess
<1> QED BY <1>2, <1>3, <1>4, <1>5, <1>6

-----------------------------------------------------------------------------
(* Selection and options                                                   *)

\* What a rate is ranked by, as three numbers.
First(i, strategy) == IF strategy = "FASTEST" THEN Rates[i].minutes ELSE Rates[i].amount
Second(i, strategy) == IF strategy = "FASTEST" THEN Rates[i].amount ELSE Rates[i].minutes

LEMMA KeysCompared ==
  ASSUME Searched, NEW strategy \in Strategies, NEW i \in Eligible, NEW j \in Eligible
  PROVE  /\ First(i, strategy) \in Nat /\ Second(i, strategy) \in Nat
         /\ LexLess(Key(i, strategy), Key(j, strategy)) <=>
               \/ First(i, strategy) < First(j, strategy)
               \/ /\ First(i, strategy) = First(j, strategy)
                  /\ \/ Second(i, strategy) < Second(j, strategy)
                     \/ /\ Second(i, strategy) = Second(j, strategy)
                        /\ Rates[i].carrier < Rates[j].carrier
         /\ Key(i, strategy) = Key(j, strategy) <=>
               /\ First(i, strategy) = First(j, strategy)
               /\ Second(i, strategy) = Second(j, strategy)
               /\ Rates[i].carrier = Rates[j].carrier
<1>1. ASSUME NEW k \in Eligible
      PROVE  /\ First(k, strategy) \in Nat /\ Second(k, strategy) \in Nat
             /\ Rates[k].carrier \in Nat
             /\ Key(k, strategy) = <<First(k, strategy), Second(k, strategy), Rates[k].carrier>>
  BY EligibleRates DEF First, Second, Key
<1>2. LexLess(<<First(i, strategy), Second(i, strategy), Rates[i].carrier>>,
              <<First(j, strategy), Second(j, strategy), Rates[j].carrier>>) <=>
               \/ First(i, strategy) < First(j, strategy)
               \/ /\ First(i, strategy) = First(j, strategy)
                  /\ \/ Second(i, strategy) < Second(j, strategy)
                     \/ /\ Second(i, strategy) = Second(j, strategy)
                        /\ Rates[i].carrier < Rates[j].carrier
  BY <1>1, Lexicographic3
<1> QED BY <1>1, <1>2

\* A search with an eligible rate has a best one, the only one of its rank.
LEMMA SelectRateIsBest ==
  ASSUME Searched, Eligible # {}, NEW strategy \in Strategies
  PROVE  /\ SelectRate(Eligible, strategy) \in Eligible
         /\ \A j \in Eligible \ {SelectRate(Eligible, strategy)} :
               \/ LexLess(Key(SelectRate(Eligible, strategy), strategy), Key(j, strategy))
               \/ /\ Key(SelectRate(Eligible, strategy), strategy) = Key(j, strategy)
                  /\ SelectRate(Eligible, strategy) < j
<1> DEFINE first == [i \in Eligible |-> First(i, strategy)]
           second == [i \in Eligible |-> Second(i, strategy)]
           carrier == [i \in Eligible |-> Rates[i].carrier]
           best(i) == \A j \in Eligible \ {i} :
                         \/ LexLess(Key(i, strategy), Key(j, strategy))
                         \/ Key(i, strategy) = Key(j, strategy) /\ i < j
<1>1. /\ first \in [Eligible -> Nat] /\ second \in [Eligible -> Nat]
      /\ carrier \in [Eligible -> Nat] /\ Eligible \subseteq Nat
  BY KeysCompared, EligibleRates
<1>2. PICK a \in Eligible : \A j \in Eligible : first[a] <= first[j]
  <2> HIDE DEF first
  <2> QED BY <1>1, LeastBy
<1> DEFINE S1 == {j \in Eligible : first[j] = first[a]}
<1>3. PICK b \in S1 : \A j \in S1 : second[b] <= second[j]
  <2>1. [j \in S1 |-> second[j]] \in [S1 -> Nat] /\ S1 # {} BY <1>1
  <2>2. \E b \in S1 : \A j \in S1 : [k \in S1 |-> second[k]][b] <= [k \in S1 |-> second[k]][j]
    <3> HIDE DEF S1
    <3> QED BY <2>1, LeastBy
  <2> QED BY <2>2
<1> DEFINE S2 == {j \in S1 : second[j] = second[b]}
<1>4. PICK c \in S2 : \A j \in S2 : carrier[c] <= carrier[j]
  <2>1. [j \in S2 |-> carrier[j]] \in [S2 -> Nat] /\ S2 # {} BY <1>1
  <2>2. \E c \in S2 : \A j \in S2 : [k \in S2 |-> carrier[k]][c] <= [k \in S2 |-> carrier[k]][j]
    <3> HIDE DEF S2
    <3> QED BY <2>1, LeastBy
  <2> QED BY <2>2
<1> DEFINE S3 == {j \in S2 : carrier[j] = carrier[c]}
<1>5. PICK d \in S3 : \A j \in S3 : d <= j
  <2>1. S3 \in SUBSET Nat /\ S3 # {} BY <1>1
  <2> HIDE DEF S3
  <2> QED BY <2>1, LeastNatural
<1>6. best(d)
  <2> SUFFICES ASSUME NEW j \in Eligible, j # d
               PROVE  \/ LexLess(Key(d, strategy), Key(j, strategy))
                      \/ Key(d, strategy) = Key(j, strategy) /\ d < j
    OBVIOUS
  <2>1. d \in Eligible /\ first[d] <= first[j] BY <1>2
  <2>2. first[j] = first[d] => second[d] <= second[j] BY <1>3
  <2>3. first[j] = first[d] /\ second[j] = second[d] => carrier[d] <= carrier[j] BY <1>4
  <2>4. first[j] = first[d] /\ second[j] = second[d] /\ carrier[j] = carrier[d] => d <= j
    BY <1>5
  <2>5. d \in Nat /\ j \in Nat BY <1>1, <2>1
  <2>6. /\ first[d] = First(d, strategy) /\ first[j] = First(j, strategy)
        /\ second[d] = Second(d, strategy) /\ second[j] = Second(j, strategy)
        /\ carrier[d] = Rates[d].carrier /\ carrier[j] = Rates[j].carrier
    BY <2>1
  <2>7. first[d] \in Nat /\ first[j] \in Nat /\ second[d] \in Nat /\ second[j] \in Nat
        /\ carrier[d] \in Nat /\ carrier[j] \in Nat
    BY <1>1, <2>1
  <2> HIDE DEF first, second, carrier
  <2> QED BY <2>1, <2>2, <2>3, <2>4, <2>5, <2>6, <2>7, KeysCompared
<1>7. \E i \in Eligible : best(i) BY <1>6
<1>8. SelectRate(Eligible, strategy) = CHOOSE i \in Eligible : best(i) BY DEF SelectRate
<1> HIDE DEF best
<1>9. SelectRate(Eligible, strategy) \in Eligible /\ best(SelectRate(Eligible, strategy))
  BY <1>7, <1>8
<1> QED BY <1>9 DEF best

\* The options of a search: the best rate of each strategy, and no cheapest
\* where two currencies are quoted.
Fastest == SelectRate(Eligible, "FASTEST")
Cheapest == SelectRate(Eligible, "CHEAPEST")

LEMMA OptionsOfSearch ==
  ASSUME Searched, Eligible # {}
  PROVE  /\ RateOptions.fastest = Fastest /\ RateOptions.fastest \in Eligible
         /\ RateOptions.cheapest \in {Cheapest, Unstated}
         /\ Cheapest \in Eligible /\ Unstated \notin Eligible
         /\ RateOptions.cheapest = Unstated =>
               \E i, j \in Eligible : Rates[i].currency # Rates[j].currency
<1> DEFINE currencies == {Rates[i].currency : i \in Eligible}
<1>1. Fastest \in Eligible /\ Cheapest \in Eligible
  BY SelectRateIsBest DEF Fastest, Cheapest, Strategies
<1>2. Unstated \notin Eligible BY EligibleRates, OffersUnstated
<1>3. ASSUME \A i, j \in Eligible : Rates[i].currency = Rates[j].currency
      PROVE  Cardinality(currencies) = 1
  <2>1. PICK i \in Eligible : TRUE OBVIOUS
  <2>2. currencies = {Rates[i].currency} BY <1>3, <2>1
  <2> QED BY <2>2, FS_Singleton
<1>4. RateOptions = [fastest |-> Fastest,
                     cheapest |-> IF Cardinality(currencies) > 1 THEN Unstated ELSE Cheapest]
  BY DEF RateOptions, Fastest, Cheapest
<1> HIDE DEF currencies
<1> QED BY <1>1, <1>2, <1>3, <1>4

-----------------------------------------------------------------------------
(* The groups of offers                                                    *)

LEMMA GroupsPartition ==
  ASSUME NEW i \in Eligible
  PROVE  /\ i \in GroupOf(i) /\ GroupOf(i) \subseteq Eligible
         /\ \A j \in Eligible : j \in GroupOf(i) <=> GroupOf(j) = GroupOf(i)
BY DEF GroupOf

LEMMA SameOffer ==
  ASSUME NEW i \in Eligible, NEW j \in GroupOf(i)
  PROVE  /\ j \in Eligible
         /\ Rates[j].carrier = Rates[i].carrier /\ Rates[j].amount = Rates[i].amount
         /\ Rates[j].minutes = Rates[i].minutes /\ Rates[j].currency = Rates[i].currency
BY DEF GroupOf, OfferKey

\* An offer is led by its earliest departure, or by its first row.
LEMMA LeaderOfGroup ==
  ASSUME Searched, NEW i \in Eligible
  PROVE  Leader(GroupOf(i)) \in GroupOf(i)
<1> DEFINE group == GroupOf(i)
           dated == {j \in group : Rates[j].departs # Unstated}
<1>1. group \subseteq Nat /\ i \in group /\ \A j \in group : Rates[j].departs \in Nat \union {Unstated}
  BY GroupsPartition, EligibleRates DEF RateType
<1>2. \E d \in group : \A j \in group \ {d} : DepartsBefore(d, j)
  <2>1. CASE dated = {}
    <3>1. PICK d \in group : \A j \in group : d <= j BY <1>1, LeastNatural
    <3>2. \A j \in group \ {d} : DepartsBefore(d, j)
      BY <1>1, <2>1, <3>1 DEF DepartsBefore
    <3> QED BY <3>2
  <2>2. CASE dated # {}
    <3> DEFINE departure == [j \in dated |-> Rates[j].departs]
    <3>1. departure \in [dated -> Nat] BY <1>1
    <3>2. PICK a \in dated : \A j \in dated : departure[a] <= departure[j]
      <4> HIDE DEF dated, departure
      <4> QED BY <2>2, <3>1, LeastBy
    <3> DEFINE earliest == {j \in dated : departure[j] = departure[a]}
    <3>3. earliest \in SUBSET Nat /\ earliest # {} BY <1>1
    <3>4. PICK d \in earliest : \A j \in earliest : d <= j
      <4> HIDE DEF earliest
      <4> QED BY <3>3, LeastNatural
    <3>5. ASSUME NEW j \in group, j # d PROVE DepartsBefore(d, j)
      <4>1. d \in group /\ d \in Nat /\ j \in Nat /\ Rates[d].departs \in Nat
            /\ Rates[d].departs # Unstated
        BY <1>1, OffersUnstated
      <4>2. CASE j \notin dated
        <5>1. Rates[j].departs = Unstated BY <4>2
        <5> QED BY <4>1, <5>1 DEF DepartsBefore
      <4>3. CASE j \in dated
        <5>1. Rates[d].departs <= Rates[j].departs /\ Rates[j].departs \in Nat
          BY <1>1, <3>2, <4>3, OffersUnstated
        <5>2. Rates[d].departs = Rates[j].departs => d < j
          <6> SUFFICES ASSUME Rates[d].departs = Rates[j].departs PROVE d < j OBVIOUS
          <6>1. j \in earliest BY <4>3
          <6>2. d <= j /\ d # j BY <3>4, <3>5, <6>1
          <6> QED BY <4>1, <6>2
        <5> QED BY <4>1, <5>1, <5>2 DEF DepartsBefore
      <4> QED BY <4>2, <4>3
    <3> QED BY <3>5
  <2> QED BY <2>1, <2>2
<1> QED BY <1>2 DEF Leader

-----------------------------------------------------------------------------
(* What the card offers                                                    *)

\* A card for a search: its options, and the one it recommends.
CardOfSearch ==
    /\ Eligible # {}
    /\ card.options = RateOptions
    /\ card.recommended \in Strategies
    /\ card.selected = SelectionFor(RateOptions, card.recommended)
    /\ card.selected # Unstated

Chosen == {card.options.fastest, card.options.cheapest} \ {Unstated}

LEMMA OptionsOnCard ==
  ASSUME Searched, CardOfSearch
  PROVE  OptionsAreBest
<1> DEFINE f == Rates[Fastest]
           c == Rates[Cheapest]
<1>1. /\ card.options.fastest = Fastest /\ Fastest \in Eligible
      /\ card.options.cheapest \in {Cheapest, Unstated} /\ Cheapest \in Eligible
      /\ card.options.cheapest = Unstated =>
               \E i, j \in Eligible : Rates[i].currency # Rates[j].currency
  BY OptionsOfSearch DEF CardOfSearch
<1>2. ASSUME NEW i \in Eligible
      PROVE  /\ Rates[i].minutes >= f.minutes
             /\ Rates[i].minutes = f.minutes => Rates[i].amount >= f.amount
             /\ Rates[i].amount >= c.amount
             /\ Rates[i].amount = c.amount => Rates[i].minutes >= c.minutes
  <2>1. ASSUME NEW strategy \in Strategies, NEW b, b = SelectRate(Eligible, strategy)
        PROVE  /\ First(b, strategy) <= First(i, strategy)
               /\ First(b, strategy) = First(i, strategy) =>
                     Second(b, strategy) <= Second(i, strategy)
    <3>1. /\ b \in Eligible
          /\ i # b => \/ LexLess(Key(b, strategy), Key(i, strategy))
                      \/ Key(b, strategy) = Key(i, strategy)
      BY <2>1, SelectRateIsBest
    <3>2. First(b, strategy) \in Nat /\ Second(b, strategy) \in Nat
          /\ First(i, strategy) \in Nat /\ Second(i, strategy) \in Nat
      BY <3>1, KeysCompared
    <3>3. CASE i = b BY <3>2, <3>3
    <3>4. CASE i # b BY <3>1, <3>2, <3>4, KeysCompared
    <3> QED BY <3>3, <3>4
  <2>2. f.minutes <= Rates[i].minutes
        /\ (f.minutes = Rates[i].minutes => f.amount <= Rates[i].amount)
    BY <2>1 DEF First, Second, Strategies, Fastest
  <2>3. c.amount <= Rates[i].amount
        /\ (c.amount = Rates[i].amount => c.minutes <= Rates[i].minutes)
    BY <2>1 DEF First, Second, Strategies, Cheapest
  <2>4. /\ f.minutes \in Nat /\ f.amount \in Nat /\ c.minutes \in Nat /\ c.amount \in Nat
        /\ Rates[i].minutes \in Nat /\ Rates[i].amount \in Nat
    BY <1>1, EligibleRates
  <2> QED BY <2>2, <2>3, <2>4
<1> HIDE DEF f, c
<1>3. CASE card.options.cheapest = Unstated
  BY <1>1, <1>2, <1>3 DEF OptionsAreBest, f
<1>4. CASE card.options.cheapest # Unstated
  BY <1>1, <1>2, <1>4 DEF OptionsAreBest, f, c
<1> QED BY <1>3, <1>4

\* The two options are of one offer only when they are one rate.
LEMMA OptionsOfOneOffer ==
  ASSUME Searched, CardOfSearch, NEW a \in Chosen, NEW b \in Chosen, a \in GroupOf(b)
  PROVE  a = b
<1>1. /\ Chosen \subseteq {Fastest, Cheapest} /\ Fastest \in Eligible /\ Cheapest \in Eligible
  BY OptionsOfSearch DEF Chosen, CardOfSearch
<1>2. ASSUME NEW x \in Eligible, NEW y \in Eligible, y \in GroupOf(x), NEW strategy \in Strategies,
             x = SelectRate(Eligible, strategy)
      PROVE  x <= y
  <2>1. x \in Nat /\ y \in Nat BY EligibleRates
  <2>2. First(x, strategy) = First(y, strategy) /\ Second(x, strategy) = Second(y, strategy)
        /\ Rates[x].carrier = Rates[y].carrier
    BY <1>2, SameOffer DEF First, Second
  <2>3. Key(x, strategy) = Key(y, strategy) BY <2>2, KeysCompared
  <2>4. First(x, strategy) \in Nat /\ Second(x, strategy) \in Nat /\ Rates[x].carrier \in Nat
    BY KeysCompared, EligibleRates
  <2>5. ~LexLess(Key(x, strategy), Key(y, strategy)) BY <2>2, <2>4, KeysCompared
  <2>6. y # x => x < y BY <1>2, <2>5, SelectRateIsBest
  <2> QED BY <2>1, <2>6
<1>3. a \in Eligible /\ b \in Eligible /\ b \in GroupOf(a) BY <1>1, GroupsPartition
<1>4. a <= b
  <2>1. a = SelectRate(Eligible, "FASTEST") \/ a = SelectRate(Eligible, "CHEAPEST")
    BY <1>1 DEF Fastest, Cheapest
  <2> QED BY <1>2, <1>3, <2>1 DEF Strategies
<1>5. b <= a
  <2>1. b = SelectRate(Eligible, "FASTEST") \/ b = SelectRate(Eligible, "CHEAPEST")
    BY <1>1 DEF Fastest, Cheapest
  <2> QED BY <1>2, <1>3, <2>1 DEF Strategies
<1>6. a \in Nat /\ b \in Nat BY <1>3, EligibleRates
<1> QED BY <1>4, <1>5, <1>6

LEMMA OfferLeadersOnCard ==
  ASSUME Searched, CardOfSearch
  PROVE  /\ OfferLeaders = Chosen \union OtherLeaders(card.options)
         /\ OfferLeaders \subseteq Eligible
         /\ \A o \in OtherLeaders(card.options) :
               /\ o = Leader(GroupOf(o))
               /\ GroupOf(o) \intersect Chosen = {}
<1>1. Chosen \subseteq Eligible BY OptionsOfSearch DEF Chosen, CardOfSearch
<1>2. ASSUME NEW o \in OtherLeaders(card.options)
      PROVE  o \in Eligible /\ o = Leader(GroupOf(o)) /\ GroupOf(o) \intersect Chosen = {}
  <2>1. PICK i \in Eligible : o = Leader(GroupOf(i)) /\ GroupOf(i) \intersect Chosen = {}
    BY DEF OtherLeaders, Chosen
  <2>2. o \in GroupOf(i) BY <2>1, LeaderOfGroup
  <2>3. o \in Eligible /\ GroupOf(o) = GroupOf(i) BY <2>2, GroupsPartition
  <2> QED BY <2>1, <2>3
<1>3. OfferLeaders = Chosen \union OtherLeaders(card.options) BY DEF OfferLeaders, Chosen
<1> QED BY <1>1, <1>2, <1>3

-----------------------------------------------------------------------------
(* The order of the offers, and the limit                                  *)

LEMMA Lexicographic2 ==
  ASSUME NEW a1 \in Nat, NEW a2 \in Nat, NEW b1 \in Nat, NEW b2 \in Nat
  PROVE  LexLess(<<a1, a2>>, <<b1, b2>>) <=> a1 < b1 \/ (a1 = b1 /\ a2 < b2)
<1> DEFINE a == <<a1, a2>>  b == <<b1, b2>>
           before(k) == a[k] < b[k] /\ \A m \in 1 .. (k - 1) : a[m] = b[m]
<1>1. DOMAIN a = {1, 2} OBVIOUS
<1>2. before(1) <=> a1 < b1 OBVIOUS
<1>3. before(2) <=> a2 < b2 /\ a1 = b1
  <2>1. 1 .. (2 - 1) = {1} OBVIOUS
  <2> QED BY <2>1
<1>4. LexLess(a, b) <=> before(1) \/ before(2) BY <1>1 DEF LexLess
<1> QED BY <1>2, <1>3, <1>4

\* What the offers are ordered by: four numbers and the first row of the offer.
\* Without a cheapest option the first two say nothing.
Grade(options, l) == IF options.cheapest # Unstated /\ ~IsTradeoff(options, l) THEN 1 ELSE 0
Price(options, l) == IF options.cheapest = Unstated THEN 0 ELSE Rates[l].amount
FirstRow(l) == CHOOSE m \in GroupOf(l) : \A n \in GroupOf(l) : m <= n

LEMMA FirstRowOf ==
  ASSUME Searched, NEW l \in Eligible
  PROVE  FirstRow(l) \in GroupOf(l) /\ FirstRow(l) \in Nat
<1>1. GroupOf(l) \in SUBSET Nat /\ GroupOf(l) # {} BY GroupsPartition, EligibleRates
<1>2. FirstRow(l) \in GroupOf(l) BY <1>1, LeastNatural DEF FirstRow
<1> QED BY <1>1, <1>2

LEMMA ShownByNumbers ==
  ASSUME Searched, NEW options, NEW i \in Eligible, NEW j \in Eligible
  PROVE  /\ Grade(options, i) \in Nat /\ Price(options, i) \in Nat
         /\ Rates[i].minutes \in Nat /\ Rates[i].carrier \in Nat
         /\ ShownBefore(options, i, j) <=>
               \/ Grade(options, i) < Grade(options, j)
               \/ /\ Grade(options, i) = Grade(options, j)
                  /\ \/ Price(options, i) < Price(options, j)
                     \/ /\ Price(options, i) = Price(options, j)
                        /\ \/ Rates[i].minutes < Rates[j].minutes
                           \/ /\ Rates[i].minutes = Rates[j].minutes
                              /\ \/ Rates[i].carrier < Rates[j].carrier
                                 \/ /\ Rates[i].carrier = Rates[j].carrier
                                    /\ FirstRow(i) < FirstRow(j)
<1>1. ASSUME NEW l \in Eligible
      PROVE  /\ Grade(options, l) \in Nat /\ Price(options, l) \in Nat
             /\ Rates[l].minutes \in Nat /\ Rates[l].carrier \in Nat
  BY EligibleRates DEF Grade, Price
<1>2. CASE options.cheapest = Unstated
  <2> DEFINE rank(l) == <<Rates[l].minutes, Rates[l].carrier>>
  <2>1. ShownBefore(options, i, j) <=>
           LexLess(rank(i), rank(j)) \/ (rank(i) = rank(j) /\ FirstRow(i) < FirstRow(j))
    BY <1>2 DEF ShownBefore, FirstRow
  <2>2. LexLess(rank(i), rank(j)) <=>
           \/ Rates[i].minutes < Rates[j].minutes
           \/ Rates[i].minutes = Rates[j].minutes /\ Rates[i].carrier < Rates[j].carrier
    BY <1>1, Lexicographic2
  <2>3. rank(i) = rank(j) <=> /\ Rates[i].minutes = Rates[j].minutes
                              /\ Rates[i].carrier = Rates[j].carrier
    OBVIOUS
  <2>4. /\ Grade(options, i) = 0 /\ Grade(options, j) = 0
        /\ Price(options, i) = 0 /\ Price(options, j) = 0
    BY <1>2 DEF Grade, Price
  <2> HIDE DEF rank
  <2> QED BY <1>1, <2>1, <2>2, <2>3, <2>4
<1>3. CASE options.cheapest # Unstated
  <2> DEFINE rank(l) == <<IF IsTradeoff(options, l) THEN 0 ELSE 1, Rates[l].amount,
                          Rates[l].minutes, Rates[l].carrier>>
             numbers(l) == <<Grade(options, l), Price(options, l), Rates[l].minutes, Rates[l].carrier>>
  <2>1. rank(i) = numbers(i) /\ rank(j) = numbers(j)
    BY <1>3 DEF Grade, Price
  <2>2. ShownBefore(options, i, j) <=>
           LexLess(rank(i), rank(j)) \/ (rank(i) = rank(j) /\ FirstRow(i) < FirstRow(j))
    BY <1>3 DEF ShownBefore, FirstRow
  <2> HIDE DEF rank
  <2>3. LexLess(numbers(i), numbers(j)) <=>
            \/ Grade(options, i) < Grade(options, j)
            \/ /\ Grade(options, i) = Grade(options, j)
               /\ \/ Price(options, i) < Price(options, j)
                  \/ /\ Price(options, i) = Price(options, j)
                     /\ \/ Rates[i].minutes < Rates[j].minutes
                        \/ /\ Rates[i].minutes = Rates[j].minutes
                           /\ Rates[i].carrier < Rates[j].carrier
    <3>1. numbers(i) \in Nat \X Nat \X Nat \X Nat /\ numbers(j) \in Nat \X Nat \X Nat \X Nat
      BY <1>1
    <3>2. /\ numbers(i)[1] = Grade(options, i) /\ numbers(i)[2] = Price(options, i)
          /\ numbers(i)[3] = Rates[i].minutes /\ numbers(i)[4] = Rates[i].carrier
          /\ numbers(j)[1] = Grade(options, j) /\ numbers(j)[2] = Price(options, j)
          /\ numbers(j)[3] = Rates[j].minutes /\ numbers(j)[4] = Rates[j].carrier
      OBVIOUS
    <3> HIDE DEF numbers
    <3> QED BY <3>1, <3>2, Lexicographic4
  <2>4. numbers(i) = numbers(j) <=>
           /\ Grade(options, i) = Grade(options, j) /\ Price(options, i) = Price(options, j)
           /\ Rates[i].minutes = Rates[j].minutes /\ Rates[i].carrier = Rates[j].carrier
    OBVIOUS
  <2> HIDE DEF numbers
  <2> QED BY <1>1, <2>1, <2>2, <2>3, <2>4
<1> QED BY <1>1, <1>2, <1>3

\* The trade-offs come first where prices compare; the order is strict, and of
\* two offers one goes before the other.
LEMMA ShownOrder ==
  ASSUME Searched, NEW options, NEW i \in Eligible, NEW j \in Eligible, NEW k \in Eligible
  PROVE  /\ options.cheapest # Unstated /\ IsTradeoff(options, i) /\ ~IsTradeoff(options, j)
               => ShownBefore(options, i, j)
         /\ ShownBefore(options, i, j) /\ ShownBefore(options, j, k) => ShownBefore(options, i, k)
         /\ ~ShownBefore(options, i, i)
         /\ GroupOf(i) # GroupOf(j) => ShownBefore(options, i, j) \/ ShownBefore(options, j, i)
<1>1. /\ FirstRow(i) \in Nat /\ FirstRow(j) \in Nat /\ FirstRow(k) \in Nat
      /\ GroupOf(i) # GroupOf(j) => FirstRow(i) # FirstRow(j)
  <2>1. /\ FirstRow(i) \in GroupOf(i) /\ FirstRow(j) \in GroupOf(j)
        /\ FirstRow(i) \in Nat /\ FirstRow(j) \in Nat /\ FirstRow(k) \in Nat
    BY FirstRowOf
  <2>2. GroupOf(FirstRow(i)) = GroupOf(i) /\ GroupOf(FirstRow(j)) = GroupOf(j)
    BY <2>1, GroupsPartition
  <2> QED BY <2>1, <2>2
<1>2. ASSUME options.cheapest # Unstated, IsTradeoff(options, i), ~IsTradeoff(options, j)
      PROVE  ShownBefore(options, i, j)
  <2>1. Grade(options, i) = 0 /\ Grade(options, j) = 1
    BY <1>2 DEF Grade
  <2> QED BY <2>1, ShownByNumbers
<1> DEFINE before(a, b) == \/ a[1] < b[1]
                           \/ /\ a[1] = b[1]
                              /\ \/ a[2] < b[2]
                                 \/ /\ a[2] = b[2]
                                    /\ \/ a[3] < b[3]
                                       \/ /\ a[3] = b[3]
                                          /\ a[4] < b[4] \/ (a[4] = b[4] /\ a[5] < b[5])
           numbers(l) == <<Grade(options, l), Price(options, l), Rates[l].minutes,
                           Rates[l].carrier, FirstRow(l)>>
           Five == Nat \X Nat \X Nat \X Nat \X Nat
<1>3. ASSUME NEW a \in Eligible, NEW b \in Eligible
      PROVE  numbers(a) \in Five /\ (ShownBefore(options, a, b) <=> before(numbers(a), numbers(b)))
  <2>1. FirstRow(a) \in Nat /\ FirstRow(b) \in Nat BY FirstRowOf
  <2> QED BY <2>1, ShownByNumbers
<1>4. \A a, b, c \in Five : /\ before(a, b) /\ before(b, c) => before(a, c)
                            /\ ~before(a, a)
                            /\ a[5] # b[5] => before(a, b) \/ before(b, a)
  OBVIOUS
<1>5. /\ numbers(i) \in Five /\ numbers(j) \in Five /\ numbers(k) \in Five
      /\ numbers(i)[5] = FirstRow(i) /\ numbers(j)[5] = FirstRow(j)
  BY <1>3
<1> HIDE DEF numbers, before, Five
<1> QED BY <1>1, <1>2, <1>3, <1>4, <1>5

\* The other offers, how many go before each, and what that says of two of them.
Ahead(o) == {p \in OtherLeaders(card.options) : ShownBefore(card.options, p, o)}
Place(o) == Cardinality(Ahead(o))

LEMMA PlacesOnCard ==
  ASSUME Searched, CardOfSearch, NEW o \in OtherLeaders(card.options)
  PROVE  /\ Place(o) \in Nat /\ IsFiniteSet(Ahead(o)) /\ o \notin Ahead(o)
         /\ o \in OtherOffers(card.options) <=> Place(o) < Limit
         /\ \A p \in OtherLeaders(card.options) :
               /\ p \in Ahead(o) => Place(p) < Place(o)
               /\ p # o /\ p \notin Ahead(o) => o \in Ahead(p)
<1> DEFINE all == OtherLeaders(card.options)
<1>1. all \subseteq Eligible /\ IsFiniteSet(all)
  BY OfferLeadersOnCard, EligibleRates, FS_Subset
<1>2. ASSUME NEW p \in all
      PROVE  IsFiniteSet(Ahead(p)) /\ Place(p) \in Nat /\ p \notin Ahead(p)
  <2>1. Ahead(p) \subseteq all BY DEF Ahead
  <2>2. IsFiniteSet(Ahead(p)) BY <1>1, <2>1, FS_Subset
  <2> QED BY <1>1, <2>2, FS_CardinalityType, ShownOrder DEF Ahead, Place
<1>3. o \in OtherOffers(card.options) <=> Place(o) < Limit
  BY DEF OtherOffers, Place, Ahead
<1>4. ASSUME NEW p \in Ahead(o) PROVE Place(p) < Place(o)
  <2>1. p \in all /\ Ahead(p) \subseteq Ahead(o) /\ p \notin Ahead(p)
    BY <1>1, <1>2, ShownOrder DEF Ahead
  <2>2. IsFiniteSet(Ahead(o)) /\ Ahead(p) # Ahead(o)
    BY <1>2, <1>4, <2>1
  <2>3. /\ Cardinality(Ahead(p)) <= Cardinality(Ahead(o))
        /\ Cardinality(Ahead(p)) = Cardinality(Ahead(o)) => Ahead(p) = Ahead(o)
    BY <2>1, <2>2, FS_Subset
  <2> QED BY <1>2, <2>1, <2>2, <2>3 DEF Place
<1>5. ASSUME NEW p \in all, p # o, p \notin Ahead(o) PROVE o \in Ahead(p)
  <2>1. GroupOf(p) # GroupOf(o)
    BY <1>5, OfferLeadersOnCard
  <2> QED BY <1>1, <1>5, <2>1, ShownOrder DEF Ahead
<1> QED BY <1>2, <1>3, <1>4, <1>5

\* Where the limit leaves an offer out, the card has as many others as that, and
\* they go before it: the first one left out has just these before it.
LEMMA LimitLeavesOutTheLast ==
  ASSUME Searched, CardOfSearch,
         NEW o \in OtherLeaders(card.options), o \notin OtherOffers(card.options)
  PROVE  /\ Cardinality(OtherOffers(card.options)) = Limit
         /\ \A p \in OtherOffers(card.options) : ShownBefore(card.options, p, o)
<1> DEFINE all == OtherLeaders(card.options)
           shown == OtherOffers(card.options)
           left == all \ shown
<1>1. shown \subseteq all /\ IsFiniteSet(all) /\ IsFiniteSet(shown) /\ Limit \in Nat
  <2>1. all \subseteq Eligible /\ IsFiniteSet(all)
    BY OfferLeadersOnCard, EligibleRates, FS_Subset
  <2>2. shown \subseteq all BY DEF OtherOffers
  <2> QED BY <2>1, <2>2, FS_Subset, OffersLimit
<1>2. \A p \in all : Place(p) \in Nat /\ (p \in shown <=> Place(p) < Limit)
  BY PlacesOnCard
<1>3. ASSUME NEW p \in shown, NEW q \in left PROVE p \in Ahead(q)
  <2>1. p \in all /\ q \in all /\ p # q /\ Place(p) < Limit /\ ~(Place(q) < Limit)
    BY <1>1, <1>2, <1>3
  <2>2. q \in Ahead(p) => Place(q) < Place(p)
    BY <2>1, PlacesOnCard
  <2>3. q \notin Ahead(p)
    BY <1>1, <1>2, <2>1, <2>2
  <2> QED BY <2>1, <2>3, PlacesOnCard
<1>4. Cardinality(shown) >= Limit
  <2>1. [p \in left |-> Place(p)] \in [left -> Nat] /\ left # {}
    BY <1>2
  <2>2. PICK q \in left : \A p \in left : Place(q) <= Place(p)
    <3>1. PICK q \in left : \A p \in left : [r \in left |-> Place(r)][q] <= [r \in left |-> Place(r)][p]
      <4> HIDE DEF left
      <4> QED BY <2>1, LeastBy
    <3> QED BY <3>1
  <2>3. \A p \in Ahead(q) : p \in all /\ Place(p) \in Nat /\ Place(q) \in Nat /\ Place(p) < Place(q)
    BY <1>2, PlacesOnCard DEF Ahead
  <2>4. Ahead(q) = shown
    BY <1>3, <2>2, <2>3
  <2>5. ~(Place(q) < Limit) /\ Place(q) \in Nat
    BY <1>2, <2>2
  <2>6. Place(q) = Cardinality(shown)
    BY <2>4 DEF Place
  <2> HIDE DEF shown
  <2> QED BY <1>1, <2>5, <2>6
<1>5. Cardinality(shown) <= Limit
  <2>1. CASE shown = {}
    BY <1>1, <2>1, FS_EmptySet
  <2>2. CASE shown # {}
    <3> DEFINE behind == [p \in shown |-> Limit - Place(p)]
    <3>1. behind \in [shown -> Nat]
      BY <1>1, <1>2
    <3>2. PICK q \in shown : \A p \in shown : behind[q] <= behind[p]
      <4> HIDE DEF behind, shown
      <4> QED BY <2>2, <3>1, LeastBy
    <3>3. \A p \in shown : Place(p) \in Nat /\ Place(q) \in Nat /\ Place(p) <= Place(q)
      BY <1>1, <1>2, <3>2
    <3>4. \A p \in shown : p # q => p \in Ahead(q)
      BY <1>1, <3>3, PlacesOnCard
    <3>5. /\ IsFiniteSet(Ahead(q)) /\ q \notin Ahead(q) /\ Place(q) \in Nat /\ Place(q) < Limit
      BY <1>1, <1>2, PlacesOnCard
    <3>6. Cardinality(Ahead(q) \union {q}) = Place(q) + 1 /\ IsFiniteSet(Ahead(q) \union {q})
      BY <3>5, FS_AddElement DEF Place
    <3>7. shown \subseteq Ahead(q) \union {q}
      BY <3>4
    <3>8. Cardinality(shown) <= Place(q) + 1
      BY <3>6, <3>7, FS_Subset
    <3>9. Cardinality(shown) \in Nat BY <1>1, FS_CardinalityType
    <3> QED BY <1>1, <3>5, <3>8, <3>9
  <2> QED BY <2>1, <2>2
<1>6. Cardinality(shown) \in Nat BY <1>1, FS_CardinalityType
<1>7. \A p \in shown : ShownBefore(card.options, p, o)
  BY <1>3 DEF Ahead
<1> HIDE DEF shown
<1> QED BY <1>1, <1>4, <1>5, <1>6, <1>7 DEF shown

LEMMA RatesOfferedOnce ==
  ASSUME Searched, CardOfSearch
  PROVE  EveryRateIsOfferedOnce
<1> SUFFICES ASSUME NEW i \in Eligible, NEW offers, offers = {o \in CardOffers : i \in GroupOf(o)}
             PROVE  \/ Cardinality(offers) = 1
                    \/ /\ offers = {} /\ Cardinality(OtherOffers(card.options)) = Limit
                       /\ \A o \in OtherOffers(card.options) :
                             ShownBefore(card.options, o, Leader(GroupOf(i)))
  BY DEF EveryRateIsOfferedOnce
<1>1. ASSUME NEW o \in OfferLeaders, i \in GroupOf(o)
      PROVE  o \in GroupOf(i) /\ GroupOf(o) = GroupOf(i)
  BY <1>1, OfferLeadersOnCard, GroupsPartition
<1>2. \E o \in OfferLeaders : i \in GroupOf(o)
  <2>1. CASE GroupOf(i) \intersect Chosen # {}
    <3>1. PICK o \in GroupOf(i) : o \in Chosen BY <2>1
    <3> QED BY <3>1, OfferLeadersOnCard, GroupsPartition
  <2>2. CASE GroupOf(i) \intersect Chosen = {}
    <3>1. Leader(GroupOf(i)) \in OtherLeaders(card.options)
      BY <2>2 DEF OtherLeaders, Chosen
    <3>2. i \in GroupOf(Leader(GroupOf(i))) BY LeaderOfGroup, GroupsPartition
    <3> QED BY <3>1, <3>2, OfferLeadersOnCard
  <2> QED BY <2>1, <2>2
<1>3. ASSUME NEW o \in OfferLeaders, NEW p \in OfferLeaders, i \in GroupOf(o), i \in GroupOf(p)
      PROVE  o = p
  <2>1. /\ o \in GroupOf(i) /\ p \in GroupOf(i)
        /\ GroupOf(o) = GroupOf(i) /\ GroupOf(p) = GroupOf(i)
    BY <1>1, <1>3
  <2>2. CASE o \in Chosen /\ p \in Chosen BY <2>1, <2>2, OptionsOfOneOffer
  <2>3. CASE o \notin Chosen /\ p \notin Chosen BY <2>1, <2>3, OfferLeadersOnCard
  <2>4. CASE (o \in Chosen) # (p \in Chosen)
    BY <2>1, <2>4, OfferLeadersOnCard
  <2> QED BY <2>2, <2>3, <2>4
<1>4. PICK o \in OfferLeaders : i \in GroupOf(o) BY <1>2
<1>5. /\ CardOffers \subseteq OfferLeaders /\ Chosen \subseteq CardOffers
      /\ CardOffers = Chosen \union OtherOffers(card.options)
      /\ OfferLeaders = Chosen \union OtherLeaders(card.options)
  BY OfferLeadersOnCard DEF CardOffers, Chosen, OtherOffers
<1>6. CASE o \in CardOffers
  <2>1. offers = {o} BY <1>3, <1>4, <1>5, <1>6
  <2> QED BY <2>1, FS_Singleton
<1>7. CASE o \notin CardOffers
  <2>1. offers = {} BY <1>3, <1>4, <1>5, <1>7
  <2>2. o \in OtherLeaders(card.options) /\ o \notin OtherOffers(card.options)
    BY <1>5, <1>7
  <2>3. o = Leader(GroupOf(i))
    BY <1>1, <1>4, <2>2, OfferLeadersOnCard
  <2> QED BY <2>1, <2>2, <2>3, LimitLeavesOutTheLast
<1> QED BY <1>6, <1>7

-----------------------------------------------------------------------------
(* The trade-offs                                                          *)

\* A trade-off is compared with the first row of every other offer, which costs
\* and takes what each of its rows does.
LEMMA TradeoffIsUnbeaten ==
  ASSUME Searched, NEW options, options.cheapest # Unstated, NEW o \in Eligible
  PROVE  IsTradeoff(options, o) <=>
            ~ \E i \in Eligible \ GroupOf(o) : /\ Rates[i].amount <= Rates[o].amount
                                               /\ Rates[i].minutes <= Rates[o].minutes
<1> DEFINE head(j) == CHOOSE k \in GroupOf(j) : \A l \in GroupOf(j) : k <= l
           heads == {head(j) : j \in Eligible}
           rivals == {j \in heads : OfferKey(j) # OfferKey(o)}
<1>1. ASSUME NEW j \in Eligible
      PROVE  head(j) \in GroupOf(j)
  <2>1. GroupOf(j) \in SUBSET Nat /\ GroupOf(j) # {} BY GroupsPartition, EligibleRates
  <2> QED BY <2>1, LeastNatural
<1>2. ASSUME NEW j \in Eligible
      PROVE  /\ head(j) \in Eligible /\ OfferKey(head(j)) = OfferKey(j)
             /\ Rates[head(j)].amount = Rates[j].amount
             /\ Rates[head(j)].minutes = Rates[j].minutes
  <2> HIDE DEF head
  <2>1. head(j) \in GroupOf(j) BY <1>1
  <2>2. head(j) \in Eligible /\ OfferKey(head(j)) = OfferKey(j) BY <2>1 DEF GroupOf
  <2> QED BY <2>1, <2>2, SameOffer
<1>3. IsTradeoff(options, o) <=> ~WeaklyDominated(o, rivals) BY DEF IsTradeoff
<1> HIDE DEF head
<1>4. ASSUME NEW i \in Eligible \ GroupOf(o), Rates[i].amount <= Rates[o].amount,
             Rates[i].minutes <= Rates[o].minutes
      PROVE  WeaklyDominated(o, rivals)
  <2>1. head(i) \in rivals BY <1>2 DEF GroupOf
  <2> QED BY <1>2, <1>4, <2>1 DEF WeaklyDominated
<1>5. ASSUME WeaklyDominated(o, rivals)
      PROVE  \E i \in Eligible \ GroupOf(o) : /\ Rates[i].amount <= Rates[o].amount
                                              /\ Rates[i].minutes <= Rates[o].minutes
  <2>1. PICK r \in rivals : Rates[r].amount <= Rates[o].amount
                            /\ Rates[r].minutes <= Rates[o].minutes
    BY <1>5 DEF WeaklyDominated
  <2>2. r \in Eligible \ GroupOf(o) BY <1>2 DEF GroupOf
  <2> QED BY <2>1, <2>2
<1> QED BY <1>3, <1>4, <1>5

LEMMA TradeoffsOnCard ==
  ASSUME Searched, CardOfSearch
  PROVE  TradeoffsArePareto
<1> SUFFICES ASSUME card.options.cheapest # Unstated, NEW o \in OtherLeaders(card.options)
             PROVE  /\ IsTradeoff(card.options, o) <=>
                         ~ \E i \in Eligible \ GroupOf(o) : /\ Rates[i].amount <= Rates[o].amount
                                                            /\ Rates[i].minutes <= Rates[o].minutes
                    /\ o \notin OtherOffers(card.options) /\ IsTradeoff(card.options, o) =>
                         \A p \in OtherOffers(card.options) : IsTradeoff(card.options, p)
  BY DEF TradeoffsArePareto
<1> DEFINE all == OtherLeaders(card.options)
           ahead(i) == {j \in all : ShownBefore(card.options, j, i)}
<1>1. all \subseteq Eligible /\ IsFiniteSet(all)
  BY OfferLeadersOnCard, EligibleRates, FS_Subset
<1>2. ASSUME o \notin OtherOffers(card.options), IsTradeoff(card.options, o),
             NEW p \in OtherOffers(card.options), ~IsTradeoff(card.options, p)
      PROVE  FALSE
  <2>1. p \in all /\ Cardinality(ahead(p)) < Limit /\ ~(Cardinality(ahead(o)) < Limit)
    BY <1>2 DEF OtherOffers
  <2>2. ahead(o) \subseteq ahead(p)
    BY <1>1, <1>2, <2>1, ShownOrder
  <2>3. IsFiniteSet(ahead(p)) BY <1>1, FS_Subset
  <2>4. IsFiniteSet(ahead(o)) /\ Cardinality(ahead(o)) <= Cardinality(ahead(p))
    BY <2>2, <2>3, FS_Subset
  <2>5. Cardinality(ahead(o)) \in Nat /\ Cardinality(ahead(p)) \in Nat
    BY <2>3, <2>4, FS_CardinalityType
  <2> HIDE DEF ahead
  <2> QED BY <2>1, <2>4, <2>5, OffersLimit
<1>3. o \in Eligible BY <1>1
<1> QED BY <1>2, <1>3, TradeoffIsUnbeaten

-----------------------------------------------------------------------------
(* What is quoted                                                          *)

\* Each rate of the card is named by its ref alone, and is quotable.
LEMMA OffersQuotable ==
  ASSUME Searched, CardOfSearch
  PROVE  ShownRatesAreQuotable
<1>1. ASSUME NEW o \in OfferLeaders
      PROVE  /\ {p.rate : p \in PacketForOption([option |-> Unstated, ref |-> Rates[o].ref])} = {o}
             /\ ~IncompatibleService(o)
  <2> DEFINE c == [option |-> Unstated, ref |-> Rates[o].ref]
  <2>1. o \in Eligible /\ ~IncompatibleService(o) /\ Rates[o].ref = o /\ o \in Nat
    BY OfferLeadersOnCard, EligibleRates
  <2>2. c.ref = o /\ c.ref # Unstated BY <2>1, OffersUnstated
  <2>3. Matches(o) = {o}
    <3>1. \A i \in Eligible : Rates[i].ref = i BY EligibleRates
    <3> QED BY <2>1, <3>1 DEF Matches
  <2>4. Cardinality(Matches(o)) = 1 BY <2>3, FS_Singleton
  <2> HIDE DEF c
  <2>5. PICK option : PacketForOption(c) = {[option |-> option, rate |-> o]}
    <3> DEFINE named(i) == CASE i = card.options.fastest -> "FASTEST"
                             [] i # card.options.fastest /\ i = card.options.cheapest -> "CHEAPEST"
                             [] OTHER -> "OTHER"
               exact == {j \in Matches(c.ref) : Cardinality(Matches(c.ref)) = 1}
    <3>1. exact = {o} BY <2>2, <2>3, <2>4
    <3>2. PacketForOption(c) = {[option |-> named(i), rate |-> i] : i \in exact}
      BY <2>2 DEF PacketForOption
    <3> HIDE DEF named, exact
    <3>3. PacketForOption(c) = {[option |-> named(o), rate |-> o]} BY <3>1, <3>2
    <3> QED BY <3>3
  <2>6. {p.rate : p \in PacketForOption(c)} = {o} BY <2>5
  <2> QED BY <2>1, <2>6 DEF c
<1>2. {p.rate : p \in PacketForOption([option |-> Unstated, ref |-> Unstated])} = {card.selected}
  <2> DEFINE c == [option |-> Unstated, ref |-> Unstated]
  <2>1. /\ ChosenOption(c) = card.recommended
        /\ SelectionFor(card.options, card.recommended) = card.selected
        /\ card.selected # Unstated
    BY DEF ChosenOption, CardOfSearch
  <2>2. PacketForOption(c) = {[option |-> card.recommended, rate |-> card.selected]}
    BY <2>1 DEF PacketForOption
  <2> HIDE DEF c
  <2>3. {p.rate : p \in PacketForOption(c)} = {card.selected} BY <2>2
  <2> QED BY <2>3 DEF c
<1> QED BY <1>1, <1>2 DEF ShownRatesAreQuotable

\* The packets a clear choice may stand for.
PacketOfCard(p) ==
    /\ p.rate \in Eligible
    /\ \/ p.option = "FASTEST" /\ p.rate = card.options.fastest
       \/ p.option = "CHEAPEST" /\ p.rate = card.options.cheapest
       \/ p.option = "OTHER" /\ p.rate \notin Chosen

LEMMA PacketsOfCard ==
  ASSUME Searched, CardOfSearch, NEW c \in Clicks, ChoiceIsClear(c), NEW p \in PacketForOption(c)
  PROVE  PacketOfCard(p)
<1>1. /\ card.options.fastest \in Eligible
      /\ card.options.cheapest \in Eligible \union {Unstated} /\ Unstated \notin Eligible
  BY OptionsOfSearch DEF CardOfSearch
<1>2. CASE c.ref # Unstated
  <2>1. PICK i \in Matches(c.ref) :
           p = [option |-> CASE i = card.options.fastest -> "FASTEST"
                             [] i # card.options.fastest /\ i = card.options.cheapest -> "CHEAPEST"
                             [] OTHER -> "OTHER",
                rate |-> i]
    BY <1>2 DEF PacketForOption
  <2>2. i \in Eligible BY DEF Matches
  <2>3. CASE i = card.options.fastest BY <2>1, <2>2, <2>3 DEF PacketOfCard
  <2>4. CASE i # card.options.fastest /\ i = card.options.cheapest
    BY <2>1, <2>2, <2>4 DEF PacketOfCard
  <2>5. CASE i # card.options.fastest /\ i # card.options.cheapest
    BY <2>1, <2>2, <2>5 DEF PacketOfCard, Chosen
  <2> QED BY <2>3, <2>4, <2>5
<1>3. CASE c.ref = Unstated
  <2>1. c.option \in {"FASTEST", "CHEAPEST", Unstated}
    BY <1>3 DEF ChoiceIsClear, Clicks
  <2>2. ChosenOption(c) \in Strategies
    BY <1>3, <2>1 DEF ChosenOption, CardOfSearch, Strategies
  <2>3. /\ p = [option |-> ChosenOption(c), rate |-> SelectionFor(card.options, ChosenOption(c))]
        /\ SelectionFor(card.options, ChosenOption(c)) # Unstated
    BY <1>3 DEF PacketForOption
  <2> QED BY <1>1, <2>2, <2>3 DEF PacketOfCard, SelectionFor, Strategies
<1> QED BY <1>2, <1>3

\* The mail about such a packet is true of it.
LEMMA ReviewIsTrue ==
  ASSUME Searched, CardOfSearch, NEW p, PacketOfCard(p), NEW body,
         body = ReviewBody(card.options, p.option, p.rate)
  PROVE  /\ body.selected = p.rate /\ body.alternative # body.selected
         /\ body.title \in {"FASTEST", "BOTH"} <=> body.selected = card.options.fastest
         /\ body.title \in {"CHEAPEST", "BOTH"} <=> body.selected = card.options.cheapest
<1>1. /\ card.options.fastest \in Eligible
      /\ card.options.cheapest \in Eligible \union {Unstated} /\ Unstated \notin Eligible
  BY OptionsOfSearch DEF CardOfSearch
<1>2. CASE p.option = "OTHER"
  BY <1>1, <1>2 DEF ReviewBody, PacketOfCard, Chosen
<1>3. CASE p.option # "OTHER" /\ SameRate(card.options)
  BY <1>1, <1>3 DEF ReviewBody, PacketOfCard, SameRate
<1>4. CASE p.option = "CHEAPEST" /\ ~SameRate(card.options)
  BY <1>1, <1>4 DEF ReviewBody, PacketOfCard, SameRate
<1>5. CASE p.option = "FASTEST" /\ ~SameRate(card.options)
  BY <1>1, <1>5 DEF ReviewBody, PacketOfCard, SameRate
<1> QED BY <1>2, <1>3, <1>4, <1>5 DEF PacketOfCard

-----------------------------------------------------------------------------
(* The invariant                                                           *)

\* A card is of this search, and a request on whose rates a person decides has one.
Carded ==
    /\ card # NoCard => CardOfSearch
    /\ phase = "RATE_SELECTED" => card # NoCard

\* No mail before the decision; after it the mails are of the card.
Mailed ==
    /\ phase \in {"VALIDATED", "RATE_SELECTED"} => reviewed = NoMail /\ quoted = NoQuote
    /\ reviewed # NoMail => card # NoCard
    /\ QuotedAsReviewed

IInv == Searched /\ Carded /\ Mailed

LEMMA InitHolds == Init => IInv
BY OffersResults DEF Init, IInv, Searched, Carded, Mailed, QuotedAsReviewed

\* What a step leaves alone: the search and what is derived from it.
LEMMA SameSearch ==
  ASSUME UNCHANGED <<rows, door, liquid>>
  PROVE  /\ Searched' <=> Searched
         /\ Rates' = Rates /\ Eligible' = Eligible /\ RateOptions' = RateOptions
BY DEF Searched, Rates, Eligible, RateOptions, ExclusionReason, DropIncompleteRate,
       DropUnrankableRate, DropRestrictedCarrier, DropServiceMismatch, SelectRate, Key

LEMMA StepHolds == IInv /\ [Next]_vars => IInv'
<1> SUFFICES ASSUME IInv, [Next]_vars PROVE IInv' OBVIOUS
<1>1. /\ Searched' /\ Rates' = Rates /\ Eligible' = Eligible /\ RateOptions' = RateOptions
  <2>1. UNCHANGED <<rows, door, liquid>>
    BY DEF Next, vars, EarlyMessage, LateMessage, RateSelected, NotifyNoRates,
           HandOverReturnedRates, Approve, Decline
  <2> QED BY <2>1, SameSearch DEF IInv
<1>2. ASSUME UNCHANGED card PROVE CardOfSearch' <=> CardOfSearch
  BY <1>1, <1>2 DEF CardOfSearch, SelectionFor
<1>3. ASSUME UNCHANGED <<card, reviewed, quoted>>,
             phase' = phase \/ (phase' \notin {"VALIDATED", "RATE_SELECTED"})
      PROVE  IInv'
  BY <1>1, <1>2, <1>3 DEF IInv, Carded, Mailed, QuotedAsReviewed
<1>4. ASSUME RateSelected PROVE IInv'
  <2> DEFINE recommended == RecommendedOption(RateOptions, preference)
  <2>1. /\ phase' = "RATE_SELECTED" /\ Eligible # {} /\ UNCHANGED <<reviewed, quoted>>
        /\ reviewed = NoMail /\ quoted = NoQuote
        /\ card' = [options |-> RateOptions, recommended |-> recommended,
                    selected |-> SelectionFor(RateOptions, recommended)]
    BY <1>4 DEF RateSelected, IInv, Mailed
  <2>2. /\ RateOptions.fastest \in Eligible /\ Unstated \notin Eligible
        /\ RateOptions.cheapest \in Eligible \union {Unstated}
    BY <2>1, OptionsOfSearch DEF IInv
  <2>3. recommended \in Strategies /\ SelectionFor(RateOptions, recommended) # Unstated
    BY <2>2 DEF RecommendedOption, RecommendedStrategy, SelectionFor, Strategies
  <2> HIDE DEF recommended
  <2>4. CardOfSearch'
    BY <1>1, <2>1, <2>3 DEF CardOfSearch, SelectionFor
  <2>5. card' # NoCard
    BY <2>1, <2>2 DEF NoCard
  <2> QED BY <1>1, <2>1, <2>4, <2>5 DEF IInv, Carded, Mailed, QuotedAsReviewed
<1>5. ASSUME NEW c \in Clicks, Approve(c) PROVE IInv'
  <2>1. phase = "RATE_SELECTED" /\ card # NoCard /\ CardOfSearch /\ Searched
        /\ UNCHANGED card /\ phase' = "QUOTATION_SENT" /\ ChoiceIsClear(c)
    BY <1>5 DEF Approve, IInv, Carded
  <2>2. PICK p \in PacketForOption(c) :
           /\ reviewed' = ReviewBody(card.options, p.option, p.rate)
           /\ quoted' = QuotationBody(p.rate)
    BY <1>5 DEF Approve
  <2>3. PacketOfCard(p) BY <2>1, PacketsOfCard
  <2>4. /\ reviewed'.selected = p.rate /\ reviewed'.alternative # reviewed'.selected
        /\ reviewed'.title \in {"FASTEST", "BOTH"} <=> reviewed'.selected = card.options.fastest
        /\ reviewed'.title \in {"CHEAPEST", "BOTH"} <=> reviewed'.selected = card.options.cheapest
    BY <2>1, <2>2, <2>3, ReviewIsTrue
  <2>5. quoted'.rate = p.rate /\ p.rate \in Eligible' BY <1>1, <2>2, <2>3 DEF QuotationBody, PacketOfCard
  <2>6. QuotedAsReviewed' BY <2>1, <2>4, <2>5 DEF QuotedAsReviewed
  <2> QED BY <1>1, <1>2, <2>1, <2>6 DEF IInv, Carded, Mailed
<1>6. ASSUME Decline PROVE IInv'
  <2>1. /\ phase = "RATE_SELECTED" /\ card # NoCard /\ CardOfSearch /\ Searched
        /\ quoted = NoQuote /\ UNCHANGED <<card, quoted>> /\ phase' = "MAKER_REJECTED"
        /\ reviewed' = ReviewBody(card.options, card.recommended, card.selected)
    BY <1>6 DEF Decline, IInv, Carded, Mailed
  <2> DEFINE p == [option |-> card.recommended, rate |-> card.selected]
  <2>2. PacketOfCard(p)
    BY <2>1, OptionsOfSearch DEF PacketOfCard, CardOfSearch, SelectionFor, Strategies
  <2>3. reviewed' = ReviewBody(card.options, p.option, p.rate) BY <2>1
  <2> HIDE DEF p
  <2>4. /\ reviewed'.alternative # reviewed'.selected
        /\ reviewed'.title \in {"FASTEST", "BOTH"} <=> reviewed'.selected = card.options.fastest
        /\ reviewed'.title \in {"CHEAPEST", "BOTH"} <=> reviewed'.selected = card.options.cheapest
    BY <2>1, <2>2, <2>3, ReviewIsTrue
  <2>5. QuotedAsReviewed' BY <2>1, <2>4 DEF QuotedAsReviewed
  <2> QED BY <1>1, <1>2, <2>1, <2>5 DEF IInv, Carded, Mailed
<1>7. CASE \E stated \in Words : EarlyMessage(stated) \/ LateMessage(stated)
  BY <1>3, <1>7 DEF EarlyMessage, LateMessage
<1>8. CASE NotifyNoRates \/ HandOverReturnedRates
  BY <1>3, <1>8 DEF NotifyNoRates, HandOverReturnedRates
<1>9. CASE UNCHANGED vars BY <1>3, <1>9 DEF vars
<1> QED BY <1>4, <1>5, <1>6, <1>7, <1>8, <1>9 DEF Next

\* The inductive invariant: a card is of the request's one search, and the mails
\* are of that card.
THEOREM Invariance == Spec => []IInv
BY InitHolds, StepHolds, PTL DEF Spec

-----------------------------------------------------------------------------
(* The properties                                                          *)

\* No eligible rate is faster than the fastest option or as fast and cheaper,
\* nor cheaper than the cheapest or as cheap and faster (select_rate, rate_options).
THEOREM BestOptions == Spec => []OptionsAreBest
<1>1. IInv => OptionsAreBest
  BY OptionsOnCard DEF IInv, Carded, OptionsAreBest, HasCard
<1> QED BY <1>1, Invariance, PTL

\* Every eligible rate is in the departures of exactly one offer of the card, or
\* the limit leaves its offer out, behind as many others (group_offers, other_offers).
THEOREM OfferedOnce == Spec => []EveryRateIsOfferedOnce
<1>1. IInv => EveryRateIsOfferedOnce
  BY RatesOfferedOnce DEF IInv, Carded, EveryRateIsOfferedOnce, HasCard
<1> QED BY <1>1, Invariance, PTL

\* The other rates marked as a trade-off are those no other offer matches on both
\* price and time, and the limit hides none of them for one that is not (other_offers).
THEOREM ParetoTradeoffs == Spec => []TradeoffsArePareto
<1>1. IInv => TradeoffsArePareto
  BY TradeoffsOnCard DEF IInv, Carded, TradeoffsArePareto, HasCard
<1> QED BY <1>1, Invariance, PTL

\* To name the rate of any offer of the card is a choice that stands for that rate
\* alone, and build_quotation accepts it (_packet_for_option).
THEOREM QuotableOffers == Spec => []ShownRatesAreQuotable
<1>1. IInv => ShownRatesAreQuotable
  BY OffersQuotable DEF IInv, Carded, ShownRatesAreQuotable, HasCard
<1> QED BY <1>1, Invariance, PTL

\* The rate quoted is eligible and the one the approver's mail put first, under a
\* title that is true of it (decide, compose_review_body).
THEOREM QuotedIsReviewed == Spec => []QuotedAsReviewed
<1>1. IInv => QuotedAsReviewed BY DEF IInv, Mailed
<1> QED BY <1>1, Invariance, PTL
=============================================================================

----------------------------- MODULE RateOffers -----------------------------
(***************************************************************************)
(* From the rows a rate search returns to the rate a client is quoted: the *)
(* eligibility filters, the fastest and the cheapest option, the other     *)
(* offers, the approval card, and the choice the operator makes on it.     *)
(*                                                                         *)
(* A rate is its position in the search result, which is also what its     *)
(* source_ref distinguishes it by.  Sorts are stable: equal keys stay in   *)
(* that order.  A refused choice changes nothing, so it is no step.        *)
(***************************************************************************)
EXTENDS Integers, FiniteSets, Sequences

CONSTANTS
    Results,      \* the row sequences a search may return
    Limit,        \* OTHER_OFFERS_LIMIT
    MaxMessages,  \* bound on the client's messages about the rates
    Unstated      \* None

\* A row: carrier and product by number (only their order or equality counts),
\* the price and the duration where the row states a readable one.
RowType == [carrier : Nat, product : Nat, price : {<<>>} \union (Nat \X STRING),
            duration : {<<>>} \union (Nat \X Nat), departs : Nat \union {Unstated},
            liquids : BOOLEAN \union {Unstated}, door : BOOLEAN \union {Unstated}]

ASSUME OffersUnstated == Unstated \notin Int \union BOOLEAN \union STRING
ASSUME OffersResults == \A result \in Results : result \in Seq(RowType)
ASSUME OffersLimit == Limit \in Nat
ASSUME OffersMessages == MaxMessages \in Nat

Strategies == {"FASTEST", "CHEAPEST"}
Preferences == {"FASTEST", "CHEAPEST", "UNCLEAR", Unstated}

VARIABLES
    rows,         \* what the provider returned
    door,         \* record.delivery_type is DOOR
    liquid,       \* cargo_is_liquid
    phase,        \* state of the request
    preference,   \* request.rate_preference
    card,         \* the approval card: packet and frozen recommendation
    late,         \* request.late_preference
    reviewed,     \* what the approver's mail says
    quoted,       \* what the client's mail says
    messages      \* client messages so far

vars == <<rows, door, liquid, phase, preference, card, late, reviewed, quoted, messages>>

(***************************************************************************)
(* Rows into rates                                                         *)
(***************************************************************************)

(* "34h 05m" in minutes; a duration that is not stated, or zero, is none.  *)
ParseDuration(d) ==
    IF d = <<>> \/ 60 * d[1] + d[2] <= 0 THEN Unstated ELSE 60 * d[1] + d[2]

MutMapRecord(row, index) ==
    [carrier |-> row.carrier, product |-> row.product,
     amount |-> IF row.price = <<>> THEN Unstated ELSE row.price[1],
     currency |-> IF row.price = <<>> THEN Unstated ELSE row.price[2],
     minutes |-> ParseDuration(row.duration), departs |-> row.departs,
     liquids |-> row.liquids, door |-> row.door, ref |-> 10 * row.carrier + row.product]

(* mapper.map_record: a row without a readable price has no amount and no  *)
(* currency; the ref carries the row's index.                              *)
MapRecord(row, index) ==
    [carrier |-> row.carrier, product |-> row.product,
     amount |-> IF row.price = <<>> THEN Unstated ELSE row.price[1],
     currency |-> IF row.price = <<>> THEN Unstated ELSE row.price[2],
     minutes |-> ParseDuration(row.duration), departs |-> row.departs,
     liquids |-> row.liquids, door |-> row.door, ref |-> index]

Rates == [i \in DOMAIN rows |-> MapRecord(rows[i], i)]

(***************************************************************************)
(* Filters: the first rule that rejects a rate names the reason            *)
(***************************************************************************)

DropIncompleteRate(r) == r.amount = Unstated \/ r.currency = Unstated
DropUnrankableRate(r) == r.minutes = Unstated
DropRestrictedCarrier(r) == liquid = TRUE /\ r.liquids = FALSE
DropServiceMismatch(r) == door /\ r.door # TRUE

ExclusionReason(i) ==
    LET r == Rates[i]
    IN  CASE DropIncompleteRate(r) -> "INCOMPLETE_RATE"
          [] ~DropIncompleteRate(r) /\ DropUnrankableRate(r) -> "UNRANKABLE_NO_TRANSIT"
          [] ~DropIncompleteRate(r) /\ ~DropUnrankableRate(r) /\ DropRestrictedCarrier(r)
               -> "CARRIER_RESTRICTED"
          [] OTHER -> IF DropServiceMismatch(r) THEN "SERVICE_NOT_AVAILABLE" ELSE "NONE"

Eligible == {i \in DOMAIN rows : ExclusionReason(i) = "NONE"}
Excluded == DOMAIN rows \ Eligible

(***************************************************************************)
(* Selection and options                                                   *)
(***************************************************************************)

LexLess(a, b) ==
    \E k \in DOMAIN a : a[k] < b[k] /\ \A m \in 1 .. (k - 1) : a[m] = b[m]

Key(i, strategy) ==
    LET r == Rates[i]
    IN  IF strategy = "FASTEST" THEN <<r.minutes, r.amount, r.carrier>>
        ELSE <<r.amount, r.minutes, r.carrier>>

MutSelectRate(eligible, strategy) ==
    CHOOSE i \in eligible : \A j \in eligible : Key(i, strategy)[1] <= Key(j, strategy)[1]

(* The first of the sorted rates; a tie on every key goes to the earlier.  *)
SelectRate(eligible, strategy) ==
    CHOOSE i \in eligible : \A j \in eligible \ {i} :
        LexLess(Key(i, strategy), Key(j, strategy))
            \/ (Key(i, strategy) = Key(j, strategy) /\ i < j)

(* The cheapest option is withheld when prices cannot be compared.         *)
RateOptions ==
    [fastest |-> SelectRate(Eligible, "FASTEST"),
     cheapest |-> IF Cardinality({Rates[i].currency : i \in Eligible}) > 1 THEN Unstated
                  ELSE SelectRate(Eligible, "CHEAPEST")]

SelectionFor(options, strategy) ==
    IF strategy = "FASTEST" THEN options.fastest ELSE options.cheapest

(***************************************************************************)
(* The other offers                                                        *)
(***************************************************************************)

OfferKey(i) ==
    LET r == Rates[i] IN <<r.carrier, r.product, r.amount, r.currency, r.minutes>>

GroupOf(i) == {j \in Eligible : OfferKey(j) = OfferKey(i)}

(* Earliest departure first; a date that cannot be read goes last.         *)
DepartsBefore(i, j) ==
    LET a == Rates[i].departs
        b == Rates[j].departs
    IN  \/ a # Unstated /\ (b = Unstated \/ a < b)
        \/ a = b /\ i < j

Leader(group) == CHOOSE i \in group : \A j \in group \ {i} : DepartsBefore(i, j)

WeaklyDominated(i, rivals) ==
    \E j \in rivals : Rates[j].amount <= Rates[i].amount /\ Rates[j].minutes <= Rates[i].minutes

MutOtherLeaders(options) ==
    {Leader(g) : g \in {GroupOf(i) : i \in Eligible \ GroupOf(options.fastest)}}

OtherLeaders(options) ==
    LET chosen == {options.fastest, options.cheapest} \ {Unstated}
    IN  {Leader(g) : g \in {h \in {GroupOf(i) : i \in Eligible} : h \cap chosen = {}}}

MutIsTradeoff(options, i) ==
    options.cheapest # Unstated /\ ~WeaklyDominated(i, {options.fastest, options.cheapest})

(* Compared with one rate of every other offer; never without a cheapest.  *)
IsTradeoff(options, i) ==
    /\ options.cheapest # Unstated
    /\ LET first == {CHOOSE k \in GroupOf(j) : \A l \in GroupOf(j) : k <= l : j \in Eligible}
       IN  ~WeaklyDominated(i, {j \in first : OfferKey(j) # OfferKey(i)})

ShownBefore(options, i, j) ==
    LET rank(k) == IF options.cheapest = Unstated
                   THEN <<Rates[k].minutes, Rates[k].carrier>>
                   ELSE <<IF IsTradeoff(options, k) THEN 0 ELSE 1, Rates[k].amount,
                          Rates[k].minutes, Rates[k].carrier>>
        first(k) == CHOOSE l \in GroupOf(k) : \A m \in GroupOf(k) : l <= m
    IN  LexLess(rank(i), rank(j)) \/ (rank(i) = rank(j) /\ first(i) < first(j))

(* other_offers: the best of them, up to the limit.                        *)
OtherOffers(options) ==
    LET all == OtherLeaders(options)
    IN  {i \in all : Cardinality({j \in all : ShownBefore(options, j, i)}) < Limit}

(***************************************************************************)
(* Preference                                                              *)
(***************************************************************************)

(* What the client's own words say about speed and about price.            *)
DetectRatePreference(speed, price) ==
    CASE speed /\ price -> "UNCLEAR"
      [] speed /\ ~price -> "FASTEST"
      [] ~speed /\ price -> "CHEAPEST"
      [] OTHER -> Unstated

RecommendedStrategy(p) == IF p = "CHEAPEST" THEN "CHEAPEST" ELSE "FASTEST"

(* LiveRequest.recommended_option when the card is built.                  *)
RecommendedOption(options, p) ==
    IF SelectionFor(options, RecommendedStrategy(p)) = Unstated THEN "FASTEST"
    ELSE RecommendedStrategy(p)

(***************************************************************************)
(* The mails                                                               *)
(***************************************************************************)

NoMail == [title |-> "NONE", selected |-> Unstated, alternative |-> Unstated]

SameRate(options) == options.cheapest = options.fastest

(* compose_review_body: how the approver's mail names the selected rate,   *)
(* and the rate it sets beside it.                                         *)
ReviewBody(options, option, rate) ==
    [title |-> IF option = "OTHER" THEN "OTHER"
               ELSE IF SameRate(options) THEN "BOTH" ELSE option,
     selected |-> rate,
     alternative |-> CASE option = "OTHER" -> options.fastest
                       [] option # "OTHER" /\ SameRate(options) -> Unstated
                       [] option = "CHEAPEST" /\ ~SameRate(options) -> options.fastest
                       [] OTHER -> options.cheapest]

DeliveryScope == IF door THEN "DOOR" ELSE "AIRPORT"

(* build_quotation refuses a rate that does not serve the stated scope.    *)
IncompatibleService(rate) == door /\ Rates[rate].door # TRUE

QuotationBody(rate) == [rate |-> rate, scope |-> DeliveryScope]

(***************************************************************************)
(* Steps                                                                   *)
(***************************************************************************)

NoCard == [options |-> [fastest |-> Unstated, cheapest |-> Unstated],
           recommended |-> Unstated, selected |-> Unstated]
NoQuote == [rate |-> Unstated, scope |-> "NONE"]

Init ==
    /\ rows \in Results
    /\ door \in BOOLEAN
    /\ liquid \in BOOLEAN \union {Unstated}
    /\ phase = "VALIDATED"
    /\ preference = Unstated /\ late = Unstated
    /\ card = NoCard
    /\ reviewed = NoMail /\ quoted = NoQuote
    /\ messages = 0

(* _note_rate_preference: a message before the rates are in.               *)
EarlyMessage(stated) ==
    /\ phase = "VALIDATED"
    /\ messages < MaxMessages
    /\ messages' = messages + 1
    /\ preference' = IF stated = Unstated THEN preference ELSE stated
    /\ UNCHANGED <<rows, door, liquid, phase, card, late, reviewed, quoted>>

(* _apply_rate_outcome with a selection: the card is built.                *)
RateSelected ==
    /\ phase = "VALIDATED"
    /\ Eligible # {}
    /\ phase' = "RATE_SELECTED"
    /\ LET recommended == RecommendedOption(RateOptions, preference)
       IN  card' = [options |-> RateOptions, recommended |-> recommended,
                    selected |-> SelectionFor(RateOptions, recommended)]
    /\ late' = Unstated
    /\ UNCHANGED <<rows, door, liquid, preference, reviewed, quoted, messages>>

(* Nothing was returned: the client is told.                               *)
NotifyNoRates ==
    /\ phase = "VALIDATED"
    /\ rows = <<>>
    /\ phase' = "CLOSED_NO_RATES"
    /\ UNCHANGED <<rows, door, liquid, preference, card, late, reviewed, quoted, messages>>

DoorLegOnly ==
    \A i \in Excluded : ExclusionReason(i) = "SERVICE_NOT_AVAILABLE" /\ Rates[i].door = Unstated

(* Rates came back and none is usable: a person takes over.                *)
HandOverReturnedRates ==
    /\ phase = "VALIDATED"
    /\ Eligible = {} /\ rows # <<>>
    /\ phase' = IF DoorLegOnly THEN "DOOR_LEG_REVIEW" ELSE "MANUAL_REVIEW"
    /\ UNCHANGED <<rows, door, liquid, preference, card, late, reviewed, quoted, messages>>

(* _note_late_rate_preference: noted beside the card, which stays.         *)
LateMessage(stated) ==
    /\ phase = "RATE_SELECTED"
    /\ messages < MaxMessages
    /\ messages' = messages + 1
    /\ stated # Unstated
    /\ preference' = stated
    /\ late' = stated
    /\ UNCHANGED <<rows, door, liquid, phase, card, reviewed, quoted>>

(* _chosen_option: a rate and an option of another name contradict.        *)
ChoiceIsClear(c) ==
    /\ c.ref # Unstated => c.option \in {"OTHER", Unstated}
    /\ c.option = "OTHER" => c.ref # Unstated

ChosenOption(c) ==
    CASE c.ref # Unstated -> "OTHER"
      [] c.ref = Unstated /\ c.option # Unstated -> c.option
      [] OTHER -> card.recommended

MutMatches(ref) == {i \in DOMAIN rows : Rates[i].ref = ref}

(* _selection_for_rate.                                                    *)
Matches(ref) == {i \in Eligible : Rates[i].ref = ref}

MutPacketForOption(c) ==
    IF c.ref # Unstated
    THEN {[option |-> "OTHER", rate |-> i] : i \in Matches(c.ref)}
    ELSE {[option |-> ChosenOption(c), rate |-> SelectionFor(card.options, ChosenOption(c))]}

(* _packet_for_option: the packets a clear choice may stand for, one or    *)
(* none.  A rate picked by ref that is an option is recorded as the option.*)
PacketForOption(c) ==
    LET named == SelectionFor(card.options, ChosenOption(c))
        option(i) == CASE i = card.options.fastest -> "FASTEST"
                       [] i # card.options.fastest /\ i = card.options.cheapest -> "CHEAPEST"
                       [] OTHER -> "OTHER"
    IN  IF c.ref # Unstated
        THEN {[option |-> option(i), rate |-> i] :
                i \in {j \in Matches(c.ref) : Cardinality(Matches(c.ref)) = 1}}
        ELSE {[option |-> ChosenOption(c), rate |-> named]} \ {[option |-> ChosenOption(c), rate |-> Unstated]}

(* decide with an approval: the approver's mail, then the client's.        *)
Approve(c) ==
    /\ phase = "RATE_SELECTED"
    /\ ChoiceIsClear(c)
    /\ \E p \in PacketForOption(c) :
          /\ ~IncompatibleService(p.rate)
          /\ reviewed' = ReviewBody(card.options, p.option, p.rate)
          /\ quoted' = QuotationBody(p.rate)
    /\ phase' = "QUOTATION_SENT"
    /\ UNCHANGED <<rows, door, liquid, preference, card, late, messages>>

(* decide with a decline: the packet of the card is reviewed.              *)
Decline ==
    /\ phase = "RATE_SELECTED"
    /\ reviewed' = ReviewBody(card.options, card.recommended, card.selected)
    /\ phase' = "MAKER_REJECTED"
    /\ UNCHANGED <<rows, door, liquid, preference, card, late, quoted, messages>>

(* What a click may name: an option, a rate, or neither.                   *)
Clicks == [option : {"FASTEST", "CHEAPEST", "OTHER", Unstated},
           ref : {Rates[i].ref : i \in DOMAIN rows} \union {Unstated}]

Words == {DetectRatePreference(s, p) : s \in BOOLEAN, p \in BOOLEAN}

Next ==
    \/ \E stated \in Words : EarlyMessage(stated) \/ LateMessage(stated)
    \/ RateSelected
    \/ NotifyNoRates
    \/ HandOverReturnedRates
    \/ \E c \in Clicks : Approve(c)
    \/ Decline

Spec == Init /\ [][Next]_vars

(***************************************************************************)
(* Properties                                                              *)
(***************************************************************************)

HasCard == card # NoCard

(* The two options are the best by their own measure, and among equals by  *)
(* the other one: no eligible rate is faster than the fastest, or as fast  *)
(* and cheaper; no eligible rate is cheaper than the cheapest, or as cheap *)
(* and faster.  A cheapest is withheld only when prices do not compare.    *)
OptionsAreBest ==
    HasCard =>
        LET f == Rates[card.options.fastest]
            c == Rates[card.options.cheapest]
        IN  /\ \A i \in Eligible : /\ Rates[i].minutes >= f.minutes
                                   /\ Rates[i].minutes = f.minutes => Rates[i].amount >= f.amount
            /\ IF card.options.cheapest = Unstated
               THEN \E i, j \in Eligible : Rates[i].currency # Rates[j].currency
               ELSE \A i \in Eligible : /\ Rates[i].amount >= c.amount
                                        /\ Rates[i].amount = c.amount => Rates[i].minutes >= c.minutes

OfferLeaders == ({card.options.fastest, card.options.cheapest} \ {Unstated})
                    \union OtherLeaders(card.options)

CardOffers == ({card.options.fastest, card.options.cheapest} \ {Unstated})
                  \union OtherOffers(card.options)

(* Every eligible rate is in the departures of one offer of the card, be   *)
(* it an option or another offer, and of no second one; only the limit may *)
(* keep it off, when the card has as many other offers as that, and each   *)
(* of them goes before the offer of this rate.                             *)
EveryRateIsOfferedOnce ==
    HasCard => \A i \in Eligible :
        LET offers == {o \in CardOffers : i \in GroupOf(o)}
        IN  \/ Cardinality(offers) = 1
            \/ /\ offers = {} /\ Cardinality(OtherOffers(card.options)) = Limit
               /\ \A o \in OtherOffers(card.options) :
                     ShownBefore(card.options, o, Leader(GroupOf(i)))

(* The other rates marked as a trade-off are those that no eligible rate   *)
(* of another offer matches or beats on both price and time, when prices   *)
(* compare; and the limit never hides one of them for one that is not.     *)
TradeoffsArePareto ==
    HasCard /\ card.options.cheapest # Unstated =>
        \A o \in OtherLeaders(card.options) :
            /\ IsTradeoff(card.options, o) <=>
                 ~ \E i \in Eligible \ GroupOf(o) : /\ Rates[i].amount <= Rates[o].amount
                                                    /\ Rates[i].minutes <= Rates[o].minutes
            /\ o \notin OtherOffers(card.options) /\ IsTradeoff(card.options, o) =>
                 \A p \in OtherOffers(card.options) : IsTradeoff(card.options, p)

(* Whatever the card shows can be quoted: naming the rate of an offer is a *)
(* choice that stands for that rate and no other, and build_quotation does *)
(* not refuse it.                                                          *)
ShownRatesAreQuotable ==
    HasCard =>
        /\ \A o \in OfferLeaders :
              /\ {p.rate : p \in PacketForOption([option |-> Unstated, ref |-> Rates[o].ref])} = {o}
              /\ ~IncompatibleService(o)
        /\ {p.rate : p \in PacketForOption([option |-> Unstated, ref |-> Unstated])} = {card.selected}

(* The rate quoted is eligible, is the one the approver's mail put first,  *)
(* and the mail's title for it is true of it.                              *)
QuotedAsReviewed ==
    /\ quoted # NoQuote => quoted.rate \in Eligible /\ quoted.rate = reviewed.selected
    /\ reviewed # NoMail =>
         /\ reviewed.alternative # reviewed.selected
         /\ reviewed.title \in {"FASTEST", "BOTH"} <=> reviewed.selected = card.options.fastest
         /\ reviewed.title \in {"CHEAPEST", "BOTH"} <=> reviewed.selected = card.options.cheapest

=============================================================================

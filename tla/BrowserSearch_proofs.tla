------------------------ MODULE BrowserSearch_proofs ------------------------
(***************************************************************************)
(* The search on WebCargo's page, for any shipments, suggestions, menus,   *)
(* harvests and waits: what is searched for is the shipment, and what is   *)
(* presented as the whole answer is whole.                                 *)
(***************************************************************************)
EXTENDS BrowserSearch, FiniteSetTheorems, WellFoundedInduction, NaturalsInduction, TLAPS

-----------------------------------------------------------------------------
(* Totals                                                                  *)

LEMMA LeastNatural ==
  ASSUME NEW S \in SUBSET Nat, S # {}
  PROVE  \E n \in S : \A m \in S : n <= m
<1>1. PICK n \in S : \A m \in S : ~(<<m, n>> \in OpToRel(<, Nat))
  BY NatLessThanWellFounded, WFMin
<1>2. ASSUME NEW m \in S PROVE n <= m
  <2>1. n \in Nat /\ m \in Nat OBVIOUS
  <2>2. m < n => <<m, n>> \in OpToRel(<, Nat) BY <2>1 DEF OpToRel
  <2>3. ~(m < n) BY <1>1, <2>2, Zenon
  <2> QED BY <2>1, <2>3
<1> QED BY <1>2

\* The sums of the first members of a sequence.
IsSums(sum, s, n) ==
    /\ sum \in [0 .. n -> Nat]
    /\ sum[0] = 0
    /\ \A m \in 1 .. n : sum[m] = sum[m - 1] + s[m]

LEMMA SumsExist ==
  ASSUME NEW s \in Seq(Nat)
  PROVE  \E sum : IsSums(sum, s, Len(s))
<1> DEFINE missing == {n \in 0 .. Len(s) : ~ \E sum : IsSums(sum, s, n)}
<1>1. SUFFICES ASSUME missing # {} PROVE FALSE
  <2>1. Len(s) \in 0 .. Len(s) OBVIOUS
  <2> QED BY <2>1
<1>2. PICK n \in missing : \A m \in missing : n <= m
  <2>1. missing \in SUBSET Nat OBVIOUS
  <2> HIDE DEF missing
  <2> QED BY <1>1, <2>1, LeastNatural
<1>3. n # 0
  <2>1. IsSums([m \in 0 .. 0 |-> 0], s, 0) BY DEF IsSums
  <2> QED BY <2>1
<1>4. n - 1 \in 0 .. Len(s) /\ n - 1 \notin missing
  <2>1. n \in 0 .. Len(s) OBVIOUS
  <2> HIDE DEF missing
  <2> QED BY <1>2, <1>3, <2>1
<1>5. PICK sum : IsSums(sum, s, n - 1) BY <1>4
<1> DEFINE longer == [m \in 0 .. n |-> IF m = n THEN sum[n - 1] + s[n] ELSE sum[m]]
<1>6. IsSums(longer, s, n)
  <2>1. n \in 1 .. Len(s) /\ s[n] \in Nat BY <1>3
  <2>2. sum \in [0 .. (n - 1) -> Nat] /\ sum[0] = 0
        /\ \A m \in 1 .. (n - 1) : sum[m] = sum[m - 1] + s[m]
    BY <1>5 DEF IsSums
  <2>3. longer \in [0 .. n -> Nat] BY <2>1, <2>2
  <2>4. longer[0] = 0 BY <2>1, <2>2
  <2>5. ASSUME NEW m \in 1 .. n PROVE longer[m] = longer[m - 1] + s[m]
    <3>1. CASE m = n BY <2>1, <2>2, <3>1
    <3>2. CASE m # n
      <4>1. m \in 1 .. (n - 1) /\ m - 1 # n /\ m \in 0 .. n /\ m - 1 \in 0 .. n
        BY <2>1, <3>2
      <4> QED BY <2>2, <4>1, <3>2
    <3> QED BY <3>1, <3>2
  <2> HIDE DEF longer
  <2> QED BY <2>3, <2>4, <2>5 DEF IsSums
<1> HIDE DEF longer
<1> QED BY <1>6

\* The total is the last of these sums.
LEMMA TotalIsLast ==
  ASSUME NEW s \in Seq(Nat), NEW sum, IsSums(sum, s, Len(s))
  PROVE  Total(s) = sum[Len(s)]
<1> DEFINE by(f) == f = [n \in 0 .. Len(s) |-> IF n = 0 THEN 0 ELSE f[n - 1] + s[n]]
           own == CHOOSE f : by(f)
<1>1. by(sum)
  <2>1. sum = [n \in 0 .. Len(s) |-> sum[n]] BY DEF IsSums
  <2>2. \A n \in 0 .. Len(s) : sum[n] = IF n = 0 THEN 0 ELSE sum[n - 1] + s[n]
    BY DEF IsSums
  <2> QED BY <2>1, <2>2
<1>2. by(own)
  <2> HIDE DEF by
  <2> QED BY <1>1
<1>3. Total(s) = own[Len(s)] BY DEF Total
<1>4. \A n \in 0 .. Len(s) : own[n] = IF n = 0 THEN 0 ELSE own[n - 1] + s[n]
  <2> HIDE DEF own
  <2> QED BY <1>2
<1> HIDE DEF own
<1> DEFINE apart == {n \in 0 .. Len(s) : own[n] # sum[n]}
<1>5. apart = {}
  <2> SUFFICES ASSUME apart # {} PROVE FALSE OBVIOUS
  <2>1. PICK n \in apart : \A m \in apart : n <= m
    <3>1. apart \in SUBSET Nat OBVIOUS
    <3> HIDE DEF apart
    <3> QED BY <3>1, LeastNatural
  <2>2. n # 0 BY <1>4 DEF IsSums
  <2>3. n - 1 \in 0 .. Len(s) /\ n \in 1 .. Len(s) BY <2>2
  <2>4. own[n - 1] = sum[n - 1] BY <2>1, <2>3
  <2> QED BY <1>4, <2>2, <2>3, <2>4 DEF IsSums
<1>6. Len(s) \in 0 .. Len(s) OBVIOUS
<1> QED BY <1>3, <1>5, <1>6

LEMMA TotalTyped ==
  ASSUME NEW s \in Seq(Nat) PROVE Total(s) \in Nat
<1>1. PICK sum : IsSums(sum, s, Len(s)) BY SumsExist
<1>2. Total(s) = sum[Len(s)] BY <1>1, TotalIsLast
<1> QED BY <1>1, <1>2 DEF IsSums

\* A sequence of smaller members has a smaller total.
LEMMA TotalGrows ==
  ASSUME NEW s \in Seq(Nat), NEW t \in Seq(Nat), Len(s) = Len(t),
         \A i \in 1 .. Len(s) : s[i] <= t[i]
  PROVE  /\ Total(s) <= Total(t)
         /\ (\E i \in 1 .. Len(s) : s[i] < t[i]) => Total(s) < Total(t)
<1>1. PICK a : IsSums(a, s, Len(s)) BY SumsExist
<1>2. PICK b : IsSums(b, t, Len(t)) BY SumsExist
<1> DEFINE below(n) == /\ a[n] <= b[n]
                       /\ (\E i \in 1 .. n : s[i] < t[i]) => a[n] < b[n]
           wrong == {n \in 0 .. Len(s) : ~below(n)}
<1>3. wrong = {}
  <2> SUFFICES ASSUME wrong # {} PROVE FALSE OBVIOUS
  <2>1. PICK n \in wrong : \A m \in wrong : n <= m
    <3>1. wrong \in SUBSET Nat OBVIOUS
    <3> HIDE DEF wrong
    <3> QED BY <3>1, LeastNatural
  <2>2. n # 0
    <3>1. below(0) BY <1>1, <1>2 DEF IsSums
    <3> HIDE DEF below
    <3> QED BY <3>1
  <2>3. n \in 1 .. Len(s) /\ n - 1 \in 0 .. Len(s) BY <2>2
  <2>4. below(n - 1)
    <3>1. n - 1 \notin wrong
      <4> HIDE DEF wrong
      <4> QED BY <2>1, <2>3
    <3> HIDE DEF below
    <3> QED BY <2>3, <3>1
  <2>5. /\ a[n] = a[n - 1] + s[n] /\ b[n] = b[n - 1] + t[n]
        /\ a[n - 1] \in Nat /\ b[n - 1] \in Nat /\ s[n] \in Nat /\ t[n] \in Nat
        /\ s[n] <= t[n]
    <3>1. n \in 1 .. Len(s) /\ n \in 1 .. Len(t) /\ n - 1 \in 0 .. Len(s) /\ n - 1 \in 0 .. Len(t)
      BY <2>3
    <3> HIDE DEF wrong
    <3>2. a[n] = a[n - 1] + s[n] /\ a[n - 1] \in Nat BY <1>1, <3>1 DEF IsSums
    <3>3. b[n] = b[n - 1] + t[n] /\ b[n - 1] \in Nat BY <1>2, <3>1 DEF IsSums
    <3>4. s[n] \in Nat /\ t[n] \in Nat /\ s[n] <= t[n] BY <3>1
    <3> QED BY <3>2, <3>3, <3>4
  <2>6. a[n] <= b[n] BY <2>4, <2>5
  <2>7. ASSUME NEW i \in 1 .. n, s[i] < t[i] PROVE a[n] < b[n]
    <3>1. CASE i = n BY <2>4, <2>5, <2>7, <3>1
    <3>2. CASE i # n
      <4>1. i \in 1 .. (n - 1) BY <2>3, <3>2
      <4>2. a[n - 1] < b[n - 1] BY <2>4, <2>7, <4>1
      <4> QED BY <2>5, <4>2
    <3> QED BY <3>1, <3>2
  <2>8. below(n) BY <2>6, <2>7
  <2> HIDE DEF below
  <2> QED BY <2>8
<1>4. below(Len(s))
  <2>1. Len(s) \in 0 .. Len(s) OBVIOUS
  <2> HIDE DEF below
  <2> QED BY <1>3, <2>1
<1>5. Total(s) = a[Len(s)] /\ Total(t) = b[Len(s)] BY <1>1, <1>2, TotalIsLast
<1> QED BY <1>4, <1>5

-----------------------------------------------------------------------------
(* What is searched for                                                    *)

Idle == {"starting", "stopped", "idle"}
Counting == {"full list", "first count", "count", "rows"}
Shown == {"results"} \union Counting

\* The steps at which a field is filled already.
FromSearch == {"search", "results"}
FromGross == {"iata"} \union FromSearch
FromWeight == {"gross weight"} \union FromGross
FromWeightUnit == {"weight"} \union FromWeight
FromUnit == {"weight unit"} \union FromWeightUnit
FromMeasures == {"dimension unit"} \union FromUnit
FromGoods == {"measures"} \union FromMeasures
FromDate == {"goods"} \union FromGoods
FromDestination == {"date"} \union FromDate
FromOrigin == {"destination"} \union FromDestination
Filling == {"page", "authenticate", "origin"} \union FromOrigin
Steps == Idle \union Filling \union Counting

Fields == DOMAIN EmptyForm

Typed ==
    /\ step \in Steps
    /\ form = [field \in Fields |-> form[field]]
    /\ browser = [state |-> browser.state, dead |-> browser.dead]
    /\ step \notin Idle => /\ query.shipment \in Shipments /\ browser.state = "PROCESSING"
                           /\ outcome = Null

\* What the search has put in the form so far is the shipment's.
Filled ==
    /\ step \in FromOrigin => IsAirportOf(form.origin, query.shipment.origin)
    /\ step \in FromDestination => IsAirportOf(form.destination, query.shipment.destination)
    /\ step \in FromDate => form.date = query.shipment.date
    /\ step \in FromGoods => form.goods = query.goods
    /\ step \in FromMeasures =>
         form.pieces = query.shipment.pieces /\ 10 * form.side >= query.shipment.side
    /\ step \in FromUnit => form.unit = "IN"
    /\ step \in FromWeightUnit => form.weightUnit = "KG"
    /\ step \in FromGross => GrossWeightMatches(GrossWeight(form), query.shipment.weight)

FormInv == Typed /\ Filled

LEMMA FieldNames ==
  Fields = {"origin", "destination", "date", "goods", "pieces", "side", "unit", "weight", "mode",
            "weightUnit", "iata"}
BY DEF Fields, EmptyForm

LEMMA FormInit == Init => FormInv
BY DEF Init, FormInv, Typed, Filled, Steps, Idle, Filling, FromOrigin, FromDestination, FromDate,
       FromGoods, FromMeasures, FromUnit, FromWeightUnit, FromWeight, FromGross, FromSearch,
       Fields, EmptyForm

USE DEF Idle, Counting, Shown, Filling, FromOrigin, FromDestination, FromDate, FromGoods,
        FromMeasures, FromUnit, FromWeightUnit, FromWeight, FromGross, FromSearch

\* A search that is over has nothing in the form.
LEMMA EndHolds ==
  ASSUME FormInv, NEW result, NEW dead, EndOn(result, dead) PROVE FormInv'
<1>1. step' = "idle" /\ form' = EmptyForm BY DEF EndOn
<1>2. browser' = [state |-> browser'.state, dead |-> browser'.dead] BY DEF EndOn
<1>3. EmptyForm = [field \in Fields |-> EmptyForm[field]] BY DEF EmptyForm, Fields
<1>4. Typed' BY <1>1, <1>2, <1>3 DEF Typed, Steps
<1> QED BY <1>1, <1>4 DEF FormInv, Filled

LEMMA EndsHold ==
  ASSUME FormInv,
         \/ Unreachable \/ DriverFails \/ LocationNotOffered \/ DateNotConfirmed
         \/ GoodsNotSelected \/ UnitNotSelected \/ GrossWeightWrong \/ IataNotSelected
         \/ NoRates \/ ResultsTimeOut \/ NoFullList \/ NoCountStated
         \/ RatesComplete \/ RatesIncomplete
  PROVE  FormInv'
<1>1. \E result, dead : EndOn(result, dead)
  BY DEF Unreachable, DriverFails, LocationNotOffered, DateNotConfirmed, GoodsNotSelected,
         UnitNotSelected, GrossWeightWrong, IataNotSelected, NoRates,
         ResultsTimeOut, NoFullList, NoCountStated, RatesComplete, RatesIncomplete, End
<1> QED BY <1>1, EndHolds

LEMMA BrowserStepsHold ==
  ASSUME FormInv
  PROVE  /\ ProbePasses \/ ProbeFindsLogin \/ ProbeUnreachable \/ SignInFails => FormInv'
         /\ LaunchFails \/ BrowserDies \/ SessionLost => FormInv'
         /\ \A s \in Shipments : StartJob(s) => FormInv'
<1> USE FieldNames DEF FormInv, Typed, Filled, Steps
<1>1. ASSUME ProbePasses PROVE FormInv' BY <1>1 DEF ProbePasses
<1>2. ASSUME ProbeFindsLogin PROVE FormInv' BY <1>2 DEF ProbeFindsLogin
<1>3. ASSUME ProbeUnreachable PROVE FormInv' BY <1>3 DEF ProbeUnreachable
<1>4. ASSUME SignInFails PROVE FormInv' BY <1>4 DEF SignInFails
<1>5. ASSUME LaunchFails PROVE FormInv' BY <1>5 DEF LaunchFails
<1>6. ASSUME BrowserDies PROVE FormInv' BY <1>6 DEF BrowserDies
<1>7. ASSUME SessionLost PROVE FormInv' BY <1>7 DEF SessionLost
<1>8. ASSUME NEW s \in Shipments, StartJob(s) PROVE FormInv'
  BY <1>8 DEF StartJob
<1> QED BY <1>1, <1>2, <1>3, <1>4, <1>5, <1>6, <1>7, <1>8

LEMMA EnoughInches ==
  ASSUME NEW side \in Nat PROVE 10 * WholeInches(side) >= side
BY DEF WholeInches

\* The option that is clicked is the one that was chosen, and the airport's own if
\* it is listed.
LEMMA ClickedAirport ==
  ASSUME SuggestionsArePlain, NEW s \in Shipments, NEW field \in {"origin", "destination"},
         NEW chosen \in ChooseOption(Resolve(s[field]), Suggest(Resolve(s[field]))),
         NEW o \in Clickable(chosen, Suggest(Resolve(s[field])))
  PROVE  IsAirportOf(o.code, s[field])
<1> DEFINE token == Resolve(s[field])
           options == Suggest(token)
           exact == {own \in options : own.code = token}
           mentions == {any \in options : token \in any.words}
<1>1. /\ IsFiniteSet(options)
      /\ \A own \in options : own.code = token => Clickable(own, options) = {own}
  BY DEF SuggestionsArePlain
<1>2. CASE Cardinality(exact) = 1
  <2>1. chosen \in exact BY <1>2 DEF ChooseOption
  <2>2. o = chosen BY <1>1, <2>1
  <2> QED BY <1>2, <2>1, <2>2 DEF IsAirportOf
<1>3. CASE Cardinality(exact) # 1
  <2>1. Cardinality(mentions) = 1 /\ chosen \in mentions BY <1>3 DEF ChooseOption
  <2>2. PICK x : mentions = {x}
    <3>1. mentions \subseteq options OBVIOUS
    <3>2. IsFiniteSet(mentions) BY <1>1, <3>1, FS_Subset
    <3> HIDE DEF mentions
    <3> QED BY <2>1, <3>2, FS_Singleton
  <2>3. o \in mentions BY <2>1 DEF Clickable
  <2> QED BY <1>3, <2>2, <2>3 DEF IsAirportOf
<1> QED BY <1>2, <1>3

LEMMA FillStepsHold ==
  ASSUME FormInv, SuggestionsArePlain, MenuIsPlain
  PROVE  /\ NewPage \/ VerifyAuthenticated => FormInv'
         /\ \A field \in DOMAIN NextField : FillLocation(field) => FormInv'
         /\ FillDepartureDate \/ SelectGoodsType \/ FillMeasures \/ SetDimensionUnit => FormInv'
         /\ SetWeightTotalKg \/ FillWeight \/ GrossWeightTotal \/ ClickTotal => FormInv'
         /\ SelectIata \/ ClickSearch => FormInv'
<1> USE FieldNames DEF FormInv, Typed, Filled, Steps
<1>1. ASSUME NewPage PROVE FormInv' BY <1>1 DEF NewPage, Goto
<1>2. ASSUME VerifyAuthenticated PROVE FormInv' BY <1>2 DEF VerifyAuthenticated, Goto
<1>3. ASSUME GrossWeightTotal PROVE FormInv' BY <1>3 DEF GrossWeightTotal, Goto
<1>4. ASSUME ClickTotal PROVE FormInv' BY <1>4 DEF ClickTotal, Goto
<1>5. ASSUME SelectIata PROVE FormInv' BY <1>5 DEF SelectIata, Goto, GrossWeight
<1>6. ASSUME ClickSearch PROVE FormInv' BY <1>6 DEF ClickSearch, Goto
<1>7. ASSUME FillDepartureDate PROVE FormInv' BY <1>7 DEF FillDepartureDate, Goto
<1>8. ASSUME SelectGoodsType PROVE FormInv'
  <2>1. PICK chosen \in GoodsMenu : \E o \in Clickable(chosen, GoodsMenu) :
           /\ chosen.label = query.goods /\ (chosen.label = o.label \/ chosen.name = o.name)
           /\ form' = [form EXCEPT !.goods = o.label]
    BY <1>8 DEF SelectGoodsType
  <2>2. form' = [form EXCEPT !.goods = query.goods] BY <2>1 DEF MenuIsPlain
  <2> QED BY <1>8, <2>2 DEF SelectGoodsType, Goto
<1>9. ASSUME FillMeasures PROVE FormInv'
  <2>1. query.shipment.side \in Nat BY <1>9, BrowserShipments DEF FillMeasures
  <2>2. 10 * WholeInches(query.shipment.side) >= query.shipment.side
    BY <2>1, EnoughInches
  <2> HIDE DEF WholeInches
  <2> QED BY <1>9, <2>2 DEF FillMeasures, Goto
<1>10. ASSUME SetDimensionUnit PROVE FormInv' BY <1>10 DEF SetDimensionUnit, Goto
<1>11. ASSUME SetWeightTotalKg PROVE FormInv' BY <1>11 DEF SetWeightTotalKg, Goto
<1>12. ASSUME FillWeight PROVE FormInv' BY <1>12 DEF FillWeight, Goto
<1>13. ASSUME NEW field \in DOMAIN NextField, FillLocation(field) PROVE FormInv'
  <2> DEFINE token == Resolve(query.shipment[field])
  <2>1. field \in {"origin", "destination"} /\ step = field /\ step' = NextField[field]
        /\ query.shipment \in Shipments
    BY <1>13 DEF FillLocation, Goto, NextField
  <2>2. PICK chosen \in ChooseOption(token, Suggest(token)) :
           \E o \in Clickable(chosen, Suggest(token)) : form' = [form EXCEPT ![field] = o.code]
    BY <1>13 DEF FillLocation
  <2>3. PICK o \in Clickable(chosen, Suggest(token)) : form' = [form EXCEPT ![field] = o.code]
    BY <2>2
  <2>4. /\ UNCHANGED <<browser, query, outcome>>
        /\ IsAirportOf(o.code, query.shipment[field])
    <3>1. UNCHANGED <<browser, query, outcome>> BY <1>13 DEF FillLocation, Goto
    <3>2. IsAirportOf(o.code, query.shipment[field]) BY <2>1, <2>2, <2>3, ClickedAirport
    <3> QED BY <3>1, <3>2
  <2> HIDE DEF token
  <2>5. CASE field = "origin"
    BY <2>1, <2>3, <2>4, <2>5 DEF NextField
  <2>6. CASE field = "destination"
    BY <2>1, <2>3, <2>4, <2>6 DEF NextField
  <2> QED BY <2>1, <2>5, <2>6
<1> QED BY <1>1, <1>2, <1>3, <1>4, <1>5, <1>6, <1>7, <1>8, <1>9, <1>10, <1>11, <1>12, <1>13

LEMMA ResultStepsHold ==
  ASSUME FormInv
  PROVE  /\ PageMoves \/ Settled \/ AwaitResults \/ EnsureFullList => FormInv'
         /\ FirstCount \/ AwaitStableCount \/ CountSettled \/ ReadTab => FormInv'
<1> USE FieldNames DEF FormInv, Typed, Filled, Steps
<1>1. ASSUME PageMoves PROVE FormInv' BY <1>1 DEF PageMoves, Goto, Waits
<1>2. ASSUME Settled PROVE FormInv' BY <1>2 DEF Settled, Goto, Waits
<1>3. ASSUME AwaitResults PROVE FormInv' BY <1>3 DEF AwaitResults, Goto, Waits
<1>4. ASSUME EnsureFullList PROVE FormInv' BY <1>4 DEF EnsureFullList, Goto, Waits
<1>5. ASSUME FirstCount PROVE FormInv' BY <1>5 DEF FirstCount, Goto, Waits
<1>6. ASSUME AwaitStableCount PROVE FormInv' BY <1>6 DEF AwaitStableCount, Goto, Waits
<1>7. ASSUME CountSettled PROVE FormInv' BY <1>7 DEF CountSettled, Goto, Waits
<1>8. ASSUME ReadTab PROVE FormInv' BY <1>8 DEF ReadTab, Goto, Waits
<1> QED BY <1>1, <1>2, <1>3, <1>4, <1>5, <1>6, <1>7, <1>8

LEMMA FormStep ==
  ASSUME FormInv, SuggestionsArePlain, MenuIsPlain, [Next]_vars PROVE FormInv'
<1>1. CASE UNCHANGED vars BY <1>1 DEF vars, FormInv, Typed, Filled, GrossWeight
<1> QED BY <1>1, EndsHold, BrowserStepsHold, FillStepsHold, ResultStepsHold DEF Next

\* What is searched for is the shipment: airports, date, Goods Type, pieces, sides
\* and weight, on a session nobody has found signed out (run_rate_search).  A place
\* WebCargo lists is its own airport; for another, the only airport that mentions
\* its code is searched (_choose_option).
THEOREM SearchedForTheShipment ==
  ASSUME SuggestionsArePlain, MenuIsPlain PROVE Spec => []SearchIsTheShipments
<1>1. FormInv /\ [Next]_vars => FormInv' BY FormStep
<1>2. FormInv => SearchIsTheShipments
  BY DEF FormInv, Typed, Filled, SearchIsTheShipments
<1> QED BY <1>1, <1>2, FormInit, PTL DEF Spec

-----------------------------------------------------------------------------
(* What is found                                                           *)

PollsType == [count : Nat, stable : Nat, elapsed : Nat, emptySeen : BOOLEAN]
PageType == [shown : {"none", "blank", "empty", "loading", "final empty", "count", "refreshing"},
             idle : 0 .. MaxPause]

\* A date tab never shows more rates than it holds.
TabsFill ==
    /\ tabs = [holds |-> tabs.holds, arrived |-> tabs.arrived]
    /\ tabs.holds \in Seq(Nat) /\ tabs.arrived \in Seq(Nat)
    /\ Len(tabs.arrived) = Len(tabs.holds)
    /\ \A i \in 1 .. Len(tabs.holds) : tabs.arrived[i] <= tabs.holds[i]
    /\ step \notin Idle => tabs.holds \in Harvests

\* What the results page shows, by the step of the search.
PageFollows ==
    /\ page \in PageType
    /\ step \notin Shown => page = NoPage
    /\ step \in Counting => page.shown \in {"count", "refreshing"}
    /\ page.shown = "final empty" => Total(tabs.holds) = 0
    /\ page.shown = "refreshing" => ~Done

\* The count is the whole one, and known.
Final == Done /\ polls.count = Arrived

\* While rates still arrive a count is seen unmoved for one pause at most, and every
\* arrival buys one pause more.
CountFollows ==
    /\ polls \in PollsType
    /\ step = "count" =>
         /\ polls.count <= Arrived
         /\ ~Final => polls.stable <= MaxPause
         /\ ~Done /\ polls.count = Arrived => polls.stable <= page.idle
         /\ ~Done => polls.elapsed <= MaxPause * Arrived + page.idle
         /\ Done /\ ~Final => polls.elapsed <= MaxPause * (Arrived + 1)
         /\ Final => polls.elapsed <= MaxPause * (Arrived + 1) + 1 + polls.stable
    /\ step = "rows" => polls.count = Total(tabs.holds)

Presented ==
    /\ step \in Steps
    /\ step \notin Idle => outcome = Null
    /\ ResultsAreWhole

ResultInv == TabsFill /\ PageFollows /\ CountFollows /\ Presented

LEMMA Times ==
  {Stable, SettleMax, Timeout, MaxPause, Attempts, MaxJobs} \subseteq Nat
BY BrowserTimes

LEMMA ArrivedBounds ==
  ASSUME TabsFill
  PROVE  /\ Arrived \in Nat /\ Total(tabs.holds) \in Nat
         /\ Arrived <= Total(tabs.holds)
         /\ Done => Arrived = Total(tabs.holds)
<1>1. /\ tabs.holds \in Seq(Nat) /\ tabs.arrived \in Seq(Nat)
      /\ Len(tabs.arrived) = Len(tabs.holds)
      /\ \A i \in 1 .. Len(tabs.arrived) : tabs.arrived[i] <= tabs.holds[i]
  BY DEF TabsFill
<1>2. Total(tabs.arrived) \in Nat /\ Total(tabs.holds) \in Nat BY <1>1, TotalTyped
<1>3. Total(tabs.arrived) <= Total(tabs.holds) BY <1>1, TotalGrows
<1> QED BY <1>2, <1>3 DEF Arrived, Done

LEMMA OnePauseMore ==
  ASSUME NEW m \in Nat, NEW n \in Nat
  PROVE  /\ MaxPause * m \in Nat
         /\ MaxPause * (m + 1) = MaxPause * m + MaxPause
         /\ m < n => MaxPause * m + MaxPause <= MaxPause * n
<1>1. MaxPause \in Nat BY Times
<1>2. MaxPause * m \in Nat /\ MaxPause * (m + 1) = MaxPause * m + MaxPause BY <1>1
<1>3. ASSUME m < n PROVE MaxPause * m + MaxPause <= MaxPause * n
  <2>1. PICK d \in Nat : n = m + 1 + d
    <3>1. n - m - 1 \in Nat /\ n = m + 1 + (n - m - 1) BY <1>3
    <3> QED BY <3>1
  <2>2. MaxPause * d \in Nat /\ MaxPause * n = MaxPause * m + MaxPause + MaxPause * d
    BY <1>1, <2>1
  <2> QED BY <1>1, <1>2, <2>2
<1> QED BY <1>2, <1>3

LEMMA ResultInit == Init => ResultInv
<1> SUFFICES ASSUME Init PROVE ResultInv OBVIOUS
<1>1. TabsFill BY DEF Init, TabsFill, NoTabs
<1>2. PageFollows BY Times DEF Init, PageFollows, PageType, NoPage
<1>3. CountFollows BY DEF Init, CountFollows, NoPolls, PollsType
<1>4. Null \notin {"rates", "no rates"} BY NullIsNoOutcome
<1>5. Presented BY <1>4 DEF Init, Presented, ResultsAreWhole, Steps
<1> QED BY <1>1, <1>2, <1>3, <1>5 DEF ResultInv

\* A step outside the results page that neither searches nor presents.
LEMMA QuietHolds ==
  ASSUME ResultInv, UNCHANGED <<page, tabs, rows>>, polls' \in PollsType,
         step \notin Shown, step' \in Steps \ Shown,
         step' \notin Idle => step \notin Idle /\ outcome' = Null,
         outcome' = outcome \/ outcome' \notin {"rates", "no rates"}
  PROVE  ResultInv'
<1>1. TabsFill' BY DEF ResultInv, TabsFill
<1>2. PageFollows' BY DEF ResultInv, PageFollows, Done
<1>3. CountFollows' BY DEF CountFollows
<1>4. Presented' BY DEF ResultInv, Presented, ResultsAreWhole
<1> QED BY <1>1, <1>2, <1>3, <1>4 DEF ResultInv

LEMMA PageTyped ==
  ASSUME NEW n \in 0 .. MaxPause,
         NEW what \in {"none", "blank", "empty", "loading", "final empty", "count", "refreshing"}
  PROVE  [shown |-> what, idle |-> n] \in PageType
BY DEF PageType

LEMMA NoPageTyped == NoPage \in PageType
<1>1. MaxPause \in Nat BY Times
<1>2. 0 \in 0 .. MaxPause BY <1>1
<1> QED BY <1>2, PageTyped DEF NoPage

LEMMA IdleTyped ==
  ASSUME page \in PageType
  PROVE  MaxPause \in Nat /\ page.idle \in Nat /\ page.idle <= MaxPause
<1>1. MaxPause \in Nat BY Times
<1>2. page.idle \in 0 .. MaxPause BY DEF PageType
<1> QED BY <1>1, <1>2

\* A search that ends presents what its result says.
LEMMA EndPresents ==
  ASSUME ResultInv, NEW result, NEW dead, EndOn(result, dead),
         result = "rates" => Total(rows) = Total(tabs.holds),
         result = "no rates" => Total(tabs.holds) = 0
  PROVE  ResultInv'
<1>1. /\ step' = "idle" /\ outcome' = result /\ page' = NoPage /\ polls' = NoPolls
      /\ UNCHANGED <<tabs, rows>>
  BY DEF EndOn
<1>2. TabsFill' BY <1>1 DEF ResultInv, TabsFill
<1>3. PageFollows'
  <2>1. NoPage \in PageType BY NoPageTyped
  <2>2. NoPage.shown = "none" BY DEF NoPage
  <2> QED BY <1>1, <2>1, <2>2 DEF PageFollows
<1>4. CountFollows' BY <1>1 DEF CountFollows, NoPolls, PollsType
<1>5. Presented' BY <1>1 DEF Presented, ResultsAreWhole, Steps
<1> QED BY <1>2, <1>3, <1>4, <1>5 DEF ResultInv

LEMMA FailuresPresentNothing ==
  ASSUME ResultInv,
         \/ Unreachable \/ DriverFails \/ LocationNotOffered \/ DateNotConfirmed
         \/ GoodsNotSelected \/ UnitNotSelected \/ GrossWeightWrong \/ IataNotSelected
         \/ ResultsTimeOut \/ NoFullList \/ NoCountStated \/ RatesIncomplete
  PROVE  ResultInv'
<1>1. PICK result \in {"WebCargoUnreachable", "DriverError", "UnresolvedLocation",
                       "ContractViolation", "PermanentFailure"} : \E dead : EndOn(result, dead)
  <2>1. Unreachable => EndOn("WebCargoUnreachable", browser.dead) BY DEF Unreachable, End
  <2>2. DriverFails => \E dead : EndOn("DriverError", dead) BY DEF DriverFails
  <2>3. LocationNotOffered => EndOn("UnresolvedLocation", browser.dead)
    BY DEF LocationNotOffered, End
  <2>4. GoodsNotSelected => EndOn("PermanentFailure", browser.dead) BY DEF GoodsNotSelected, End
  <2>5. \/ DateNotConfirmed \/ UnitNotSelected \/ GrossWeightWrong \/ IataNotSelected
        \/ ResultsTimeOut \/ NoFullList \/ NoCountStated \/ RatesIncomplete
        => EndOn("ContractViolation", browser.dead)
    BY DEF DateNotConfirmed, UnitNotSelected, GrossWeightWrong, IataNotSelected,
           ResultsTimeOut, NoFullList, NoCountStated, RatesIncomplete, End
  <2> HIDE DEF EndOn
  <2> QED BY <2>1, <2>2, <2>3, <2>4, <2>5
<1>2. result \notin {"rates", "no rates"} OBVIOUS
<1> QED BY <1>1, <1>2, EndPresents

\* "No rates" seen twice running is the page's last word; rates are presented when
\* as many were read as were counted.
LEMMA AnswersAreWhole ==
  ASSUME ResultInv PROVE NoRates \/ RatesComplete => ResultInv'
<1>1. ASSUME NoRates PROVE ResultInv'
  <2>1. page.shown = "final empty" BY <1>1 DEF NoRates, CanPoll, ShowsEmpty
  <2>2. Total(tabs.holds) = 0 BY <2>1 DEF ResultInv, PageFollows
  <2> QED BY <1>1, <2>2, EndPresents DEF NoRates, End
<1>2. ASSUME RatesComplete PROVE ResultInv'
  <2>1. Total(rows) = Total(tabs.holds)
    BY <1>2 DEF RatesComplete, ResultInv, CountFollows
  <2> QED BY <1>2, <2>1, EndPresents DEF RatesComplete, End
<1> QED BY <1>1, <1>2

LEMMA BrowserStepsAreQuiet ==
  ASSUME ResultInv
  PROVE  /\ ProbePasses \/ ProbeFindsLogin \/ ProbeUnreachable \/ SignInFails => ResultInv'
         /\ LaunchFails \/ BrowserDies \/ SessionLost => ResultInv'
         /\ NewPage \/ VerifyAuthenticated => ResultInv'
<1> USE DEF Steps
<1>1. step \in Steps /\ polls \in PollsType /\ (step \notin Idle => outcome = Null)
  BY DEF ResultInv, CountFollows, Presented
<1>2. ASSUME ProbePasses PROVE ResultInv'
  BY <1>1, <1>2, QuietHolds DEF ProbePasses, NoPolls, PollsType
<1>3. ASSUME ProbeFindsLogin PROVE ResultInv'
  <2>1. polls' \in PollsType BY <1>1, <1>3 DEF ProbeFindsLogin, PollsType
  <2>2. /\ step = "starting" /\ step' \in Idle /\ UNCHANGED <<page, tabs, rows>>
        /\ outcome' = outcome \/ outcome' = "WebCargoSessionLost"
    BY <1>3 DEF ProbeFindsLogin
  <2> QED BY <2>1, <2>2, QuietHolds
<1>4. ASSUME ProbeUnreachable PROVE ResultInv' BY <1>1, <1>4, QuietHolds DEF ProbeUnreachable
<1>5. ASSUME SignInFails PROVE ResultInv' BY <1>1, <1>5, QuietHolds DEF SignInFails
<1>6. ASSUME LaunchFails PROVE ResultInv' BY <1>1, <1>6, QuietHolds DEF LaunchFails
<1>7. ASSUME BrowserDies PROVE ResultInv' BY <1>1, <1>7, QuietHolds DEF BrowserDies
<1>8. ASSUME SessionLost PROVE ResultInv' BY <1>1, <1>8, QuietHolds DEF SessionLost
<1>9. ASSUME NewPage PROVE ResultInv' BY <1>1, <1>9, QuietHolds DEF NewPage, Goto
<1>10. ASSUME VerifyAuthenticated PROVE ResultInv'
  BY <1>1, <1>10, QuietHolds DEF VerifyAuthenticated, Goto
<1> QED BY <1>2, <1>3, <1>4, <1>5, <1>6, <1>7, <1>8, <1>9, <1>10

LEMMA FillStepsAreQuiet ==
  ASSUME ResultInv
  PROVE  /\ \A field \in DOMAIN NextField : FillLocation(field) => ResultInv'
         /\ FillDepartureDate \/ SelectGoodsType \/ FillMeasures \/ SetDimensionUnit => ResultInv'
         /\ SetWeightTotalKg \/ FillWeight \/ GrossWeightTotal \/ ClickTotal => ResultInv'
         /\ SelectIata => ResultInv'
<1> USE DEF Steps
<1>1. step \in Steps /\ polls \in PollsType /\ (step \notin Idle => outcome = Null)
  BY DEF ResultInv, CountFollows, Presented
<1>2. ASSUME NEW next \in Filling \ Shown, step \in Filling \ Shown, Goto(next) PROVE ResultInv'
  BY <1>1, <1>2, QuietHolds DEF Goto
<1>3. ASSUME NEW field \in DOMAIN NextField, FillLocation(field) PROVE ResultInv'
  <2>1. field \in {"origin", "destination"} /\ step = field /\ Goto(NextField[field])
    BY <1>3 DEF FillLocation, NextField
  <2>2. NextField[field] \in {"destination", "date"} BY <2>1 DEF NextField
  <2> QED BY <1>2, <2>1, <2>2
<1>4. ASSUME FillDepartureDate PROVE ResultInv' BY <1>2, <1>4 DEF FillDepartureDate
<1>5. ASSUME SelectGoodsType PROVE ResultInv' BY <1>2, <1>5 DEF SelectGoodsType
<1>6. ASSUME FillMeasures PROVE ResultInv' BY <1>2, <1>6 DEF FillMeasures
<1>7. ASSUME SetDimensionUnit PROVE ResultInv' BY <1>2, <1>7 DEF SetDimensionUnit
<1>8. ASSUME SetWeightTotalKg PROVE ResultInv' BY <1>2, <1>8 DEF SetWeightTotalKg
<1>9. ASSUME FillWeight PROVE ResultInv' BY <1>2, <1>9 DEF FillWeight
<1>10. ASSUME GrossWeightTotal PROVE ResultInv' BY <1>2, <1>10 DEF GrossWeightTotal
<1>11. ASSUME SelectIata PROVE ResultInv' BY <1>2, <1>11 DEF SelectIata
<1>12. ASSUME ClickTotal PROVE ResultInv'
  <2>1. polls' \in PollsType
    <3>1. polls' = [polls EXCEPT !.elapsed = polls.elapsed + 1] BY <1>12 DEF ClickTotal
    <3>2. polls.elapsed + 1 \in Nat
      <4>1. polls \in PollsType BY <1>1, Zenon
      <4> QED BY <4>1 DEF PollsType
    <3>3. polls \in PollsType BY <1>1, Zenon
    <3> QED BY <3>1, <3>2, <3>3 DEF PollsType
  <2>2. step = "gross weight" /\ UNCHANGED <<step, page, tabs, rows, outcome>>
    BY <1>12 DEF ClickTotal
  <2> QED BY <1>1, <2>1, <2>2, QuietHolds
<1> QED BY <1>3, <1>4, <1>5, <1>6, <1>7, <1>8, <1>9, <1>10, <1>11, <1>12

LEMMA SearchStarts ==
  ASSUME ResultInv
  PROVE  /\ \A s \in Shipments : StartJob(s) => ResultInv'
         /\ ClickSearch => ResultInv'
<1>1. ASSUME NEW s \in Shipments, StartJob(s) PROVE ResultInv'
  <2>1. PICK h \in Harvests : tabs' = [holds |-> h, arrived |-> [i \in DOMAIN h |-> 0]]
    BY <1>1 DEF StartJob
  <2>2. /\ step = "idle" /\ step' \in {"page", "idle"} /\ UNCHANGED <<page, polls>>
        /\ outcome' \in {Null, "UnresolvedLocation", "PermanentFailure"}
        /\ step' = "page" => outcome' = Null
    BY <1>1 DEF StartJob
  <2>3. TabsFill'
    <3>1. h \in Seq(Nat) BY BrowserHarvests
    <3>2. [i \in DOMAIN h |-> 0] \in Seq(Nat) /\ Len([i \in DOMAIN h |-> 0]) = Len(h)
      <4>1. DOMAIN h = 1 .. Len(h) /\ Len(h) \in Nat BY <3>1
      <4> QED BY <4>1
    <3>3. tabs'.holds = h /\ tabs'.arrived = [i \in DOMAIN h |-> 0] BY <2>1
    <3>4. \A i \in 1 .. Len(h) : 0 <= h[i] BY <3>1
    <3>5. tabs' = [holds |-> tabs'.holds, arrived |-> tabs'.arrived] BY <2>1
    <3> QED BY <3>1, <3>2, <3>3, <3>4, <3>5 DEF TabsFill
  <2>4. PageFollows'
    <3>1. page' = NoPage /\ NoPage \in PageType BY <2>2 DEF ResultInv, PageFollows
    <3>2. NoPage.shown = "none" BY DEF NoPage
    <3> QED BY <2>2, <3>1, <3>2 DEF PageFollows
  <2>5. CountFollows' BY <2>2 DEF ResultInv, CountFollows
  <2>6. Null \notin {"rates", "no rates"} BY NullIsNoOutcome
  <2>7. Presented' BY <2>2, <2>6 DEF ResultInv, Presented, ResultsAreWhole, Steps
  <2> QED BY <2>3, <2>4, <2>5, <2>7 DEF ResultInv
<1>2. ASSUME ClickSearch PROVE ResultInv'
  <2>1. /\ step = "search" /\ step' = "results" /\ page' = [shown |-> "blank", idle |-> 0]
        /\ polls' = NoPolls /\ UNCHANGED <<tabs, rows, outcome>>
    BY <1>2 DEF ClickSearch
  <2>2. TabsFill' BY <2>1 DEF ResultInv, TabsFill
  <2>3. PageFollows' BY <2>1, Times DEF PageFollows, PageType
  <2>4. CountFollows' BY <2>1 DEF CountFollows, NoPolls, PollsType
  <2>5. Presented' BY <2>1 DEF ResultInv, Presented, ResultsAreWhole, Steps
  <2> QED BY <2>2, <2>3, <2>4, <2>5 DEF ResultInv
<1> QED BY <1>1, <1>2

\* While the search runs nothing is presented.
LEMMA RunningPresentsNothing ==
  ASSUME step' \in Steps \ Idle, outcome' = Null PROVE Presented'
BY NullIsNoOutcome DEF Presented, ResultsAreWhole

LEMMA PageLoadsHolds == ASSUME ResultInv, PageMoves, PageLoads PROVE ResultInv'
<1>1. /\ step \in Shown /\ UNCHANGED <<step, polls, outcome, tabs>>
      /\ page.shown \in {"blank", "empty", "loading"}
      /\ page' = [shown |-> page'.shown, idle |-> 0]
      /\ page'.shown \in {"empty", "loading", "final empty"}
      /\ page'.shown = "final empty" => Total(tabs.holds) = 0
  <2>1. step \in Shown /\ UNCHANGED <<step, polls, outcome, tabs>>
    BY DEF PageMoves, PageLoads
  <2>2. CASE page.shown = "blank" /\ Show("empty") BY <2>1, <2>2 DEF Show
  <2>3. CASE page.shown \in {"blank", "empty"} /\ Show("loading") BY <2>1, <2>3 DEF Show
  <2>4. CASE page.shown = "loading" /\ Total(tabs.holds) = 0 /\ Show("final empty")
    BY <2>1, <2>4 DEF Show
  <2> QED BY <2>2, <2>3, <2>4 DEF PageLoads
<1>2. step = "results" BY <1>1 DEF ResultInv, PageFollows
<1>3. TabsFill' BY <1>1 DEF ResultInv, TabsFill
<1>4. page' \in PageType
  <2>1. MaxPause \in Nat BY Times
  <2>2. 0 \in 0 .. MaxPause BY <2>1
  <2> QED BY <1>1, <2>2, PageTyped
<1>5. PageFollows' BY <1>1, <1>2, <1>4 DEF PageFollows
<1>6. CountFollows'
  <2>1. polls \in PollsType BY DEF ResultInv, CountFollows
  <2> QED BY <1>1, <1>2, <2>1 DEF CountFollows
<1>7. Presented'
  <2>1. outcome = Null BY <1>2 DEF ResultInv, Presented
  <2> QED BY <1>1, <1>2, <2>1, RunningPresentsNothing DEF Steps
<1> QED BY <1>3, <1>5, <1>6, <1>7 DEF ResultInv

LEMMA CountRefreshesHolds == ASSUME ResultInv, PageMoves, CountRefreshes PROVE ResultInv'
<1>1. /\ step \in Shown /\ UNCHANGED <<step, polls, outcome, tabs>>
      /\ page.shown \in {"count", "refreshing"}
      /\ page' = [page EXCEPT !.shown = page'.shown] /\ page'.shown \in {"count", "refreshing"}
      /\ page'.shown = "refreshing" => ~Done
  <2>1. page \in PageType BY DEF ResultInv, PageFollows
  <2> QED BY <2>1 DEF PageMoves, CountRefreshes, Flicker, PageType
<1>2. page \in PageType /\ page' \in PageType /\ page'.idle = page.idle
  <2>1. page \in PageType BY DEF ResultInv, PageFollows
  <2> QED BY <1>1, <2>1 DEF PageType
<1>3. Arrived' = Arrived /\ Done' = Done BY <1>1 DEF Arrived, Done
<1>4. TabsFill' BY <1>1 DEF ResultInv, TabsFill
<1>5. PageFollows' BY <1>1, <1>2, <1>3 DEF PageFollows
<1>6. CountFollows'
  <2>1. CountFollows BY DEF ResultInv
  <2>2. Final' = Final BY <1>1, <1>3 DEF Final
  <2> QED BY <1>1, <1>2, <1>3, <2>1, <2>2 DEF CountFollows
<1>7. Presented'
  <2>1. outcome = Null BY <1>1 DEF ResultInv, Presented
  <2> QED BY <1>1, <2>1, RunningPresentsNothing DEF Steps
<1> QED BY <1>4, <1>5, <1>6, <1>7 DEF ResultInv

\* Rates that arrive make the total grow, and buy a pause.
LEMMA RatesArriveHolds == ASSUME ResultInv, PageMoves, RatesArrive PROVE ResultInv'
<1>1. /\ step \in Shown /\ UNCHANGED <<step, polls, outcome>> /\ ~Done
      /\ page.shown \in {"loading", "count", "refreshing"}
      /\ page' = [shown |-> "count", idle |-> 0]
  BY DEF PageMoves, RatesArrive, Show
<1>2. PICK i \in DOMAIN tabs.holds : \E n \in tabs.arrived[i] + 1 .. tabs.holds[i] :
        tabs' = [tabs EXCEPT !.arrived[i] = n]
  BY DEF RatesArrive
<1>3. PICK n \in tabs.arrived[i] + 1 .. tabs.holds[i] : tabs' = [tabs EXCEPT !.arrived[i] = n]
  BY <1>2
<1>4. TabsFill BY DEF ResultInv
<1>5. /\ i \in 1 .. Len(tabs.holds) /\ i \in 1 .. Len(tabs.arrived)
      /\ tabs.holds[i] \in Nat /\ tabs.arrived[i] \in Nat
      /\ n \in Nat /\ tabs.arrived[i] < n /\ n <= tabs.holds[i]
  BY <1>3, <1>4 DEF TabsFill
<1>6. tabs'.holds = tabs.holds /\ tabs'.arrived = [tabs.arrived EXCEPT ![i] = n]
      /\ tabs' = [holds |-> tabs'.holds, arrived |-> tabs'.arrived]
  BY <1>3, <1>4 DEF TabsFill
<1>7. /\ tabs'.arrived \in Seq(Nat) /\ Len(tabs'.arrived) = Len(tabs.arrived)
      /\ \A k \in 1 .. Len(tabs.arrived) :
            tabs'.arrived[k] = IF k = i THEN n ELSE tabs.arrived[k]
  BY <1>4, <1>5, <1>6 DEF TabsFill
<1>8. TabsFill' BY <1>1, <1>4, <1>5, <1>6, <1>7 DEF TabsFill
<1>9. Arrived < Arrived'
  <2>1. tabs.arrived \in Seq(Nat) /\ \A k \in 1 .. Len(tabs.arrived) : tabs.arrived[k] \in Nat
    BY <1>4 DEF TabsFill
  <2>2. \A k \in 1 .. Len(tabs.arrived) : tabs.arrived[k] <= tabs'.arrived[k]
    <3>1. ASSUME NEW k \in 1 .. Len(tabs.arrived) PROVE tabs.arrived[k] <= tabs'.arrived[k]
      <4>1. tabs.arrived[k] \in Nat BY <2>1
      <4>2. tabs'.arrived[k] = IF k = i THEN n ELSE tabs.arrived[k] BY <1>7
      <4> QED BY <1>5, <4>1, <4>2
    <3> QED BY <3>1
  <2>3. tabs.arrived[i] < tabs'.arrived[i] BY <1>5, <1>7
  <2> QED BY <1>5, <1>7, <2>1, <2>2, <2>3, TotalGrows DEF Arrived
<1>10. Arrived \in Nat /\ Arrived' \in Nat
  <2>1. TabsFill => Arrived \in Nat BY ArrivedBounds
  <2>2. tabs.arrived \in Seq(Nat) /\ tabs'.arrived \in Seq(Nat) BY <1>4, <1>7 DEF TabsFill
  <2> QED BY <2>2, TotalTyped DEF Arrived
<1>11. page' \in PageType
  <2>1. MaxPause \in Nat BY Times
  <2>2. 0 \in 0 .. MaxPause BY <2>1
  <2> QED BY <1>1, <2>2, PageTyped
<1>12. PageFollows' BY <1>1, <1>11 DEF PageFollows
<1>13. CountFollows'
  <2>1. CountFollows /\ polls \in PollsType BY DEF ResultInv, CountFollows
  <2>2. polls.count \in Nat /\ polls.stable \in Nat /\ polls.elapsed \in Nat
    BY <2>1 DEF PollsType
  <2>3. step' = "rows" => polls'.count = Total(tabs'.holds) BY <1>1, <1>6, <2>1 DEF CountFollows
  <2>4. ASSUME step = "count"
        PROVE  /\ polls.count < Arrived' /\ polls.stable <= MaxPause
               /\ polls.elapsed <= MaxPause * Arrived'
    <3>1. /\ polls.count <= Arrived /\ polls.stable <= MaxPause
          /\ polls.elapsed <= MaxPause * Arrived + page.idle
      BY <1>1, <2>1, <2>4 DEF CountFollows, Final
    <3>2. page.idle \in Nat /\ page.idle <= MaxPause
      <4>1. page \in PageType BY DEF ResultInv, PageFollows
      <4> QED BY <4>1, IdleTyped
    <3>3. /\ MaxPause * Arrived \in Nat /\ MaxPause * Arrived' \in Nat
          /\ MaxPause * Arrived + MaxPause <= MaxPause * Arrived'
      BY <1>9, <1>10, OnePauseMore
    <3>4. MaxPause \in Nat BY Times
    <3> HIDE DEF Arrived
    <3> QED BY <1>9, <1>10, <2>2, <3>1, <3>2, <3>3, <3>4
  <2>5. polls'.count = polls.count /\ polls'.stable = polls.stable
        /\ polls'.elapsed = polls.elapsed /\ polls' \in PollsType /\ page'.idle = 0
    BY <1>1, <2>1
  <2>6. /\ MaxPause * Arrived' \in Nat /\ MaxPause \in Nat
        /\ MaxPause * (Arrived' + 1) = MaxPause * Arrived' + MaxPause
    BY <1>10, OnePauseMore, Times
  <2>7. CASE step # "count" BY <1>1, <2>3, <2>5, <2>7 DEF CountFollows
  <2>8. CASE step = "count"
    <3>1. polls'.count < Arrived' /\ polls'.stable <= MaxPause
          /\ polls'.elapsed <= MaxPause * Arrived'
      BY <2>4, <2>5, <2>8
    <3>2. polls'.count \in Nat /\ polls'.elapsed \in Nat BY <2>2, <2>5
    <3> HIDE DEF Arrived
    <3>3. polls'.count # Arrived' BY <1>10, <3>1, <3>2
    <3>4. ~Final' BY <3>3 DEF Final
    <3>5. polls'.count <= Arrived' /\ polls'.elapsed <= MaxPause * (Arrived' + 1)
          /\ polls'.elapsed <= MaxPause * Arrived' + page'.idle
      BY <1>10, <2>5, <2>6, <3>1, <3>2
    <3>6. step' = "count" BY <1>1, <2>8
    <3> QED BY <2>5, <3>1, <3>3, <3>4, <3>5, <3>6 DEF CountFollows
  <2> QED BY <2>7, <2>8
<1>14. Presented'
  <2>1. outcome = Null BY <1>1 DEF ResultInv, Presented
  <2> QED BY <1>1, <2>1, RunningPresentsNothing DEF Steps
<1> QED BY <1>8, <1>12, <1>13, <1>14 DEF ResultInv

\* A step on the results page that leaves what it shows.
LEMMA ShownStays ==
  ASSUME ResultInv, step \in Shown, step' \in Shown, UNCHANGED <<tabs, outcome>>,
         page' \in PageType, page'.shown = page.shown,
         step' \in Counting => page.shown \in {"count", "refreshing"},
         CountFollows'
  PROVE  ResultInv'
<1>1. TabsFill' BY DEF ResultInv, TabsFill
<1>2. PageFollows' BY DEF ResultInv, PageFollows, Done
<1>3. Presented'
  <2>1. outcome = Null BY DEF ResultInv, Presented
  <2> QED BY <2>1, RunningPresentsNothing DEF Steps
<1> QED BY <1>1, <1>2, <1>3 DEF ResultInv

\* A poll counts the time, and a page that is not at rest has a pause left.
LEMMA WaitsTick ==
  ASSUME ResultInv, NEW p \in PollsType, Waits(p)
  PROVE  /\ polls' = [p EXCEPT !.elapsed = p.elapsed + 1] /\ polls' \in PollsType
         /\ page' \in PageType /\ page'.shown = page.shown
         /\ page.idle < MaxPause => page'.idle = page.idle + 1
         /\ UNCHANGED <<step, tabs, outcome>>
<1>1. polls' = [p EXCEPT !.elapsed = p.elapsed + 1] /\ UNCHANGED <<step, tabs, outcome>>
      /\ page' = [page EXCEPT !.idle = IF page.idle < MaxPause THEN page.idle + 1 ELSE page.idle]
  BY DEF Waits
<1>2. polls' \in PollsType
  <2>1. p.elapsed + 1 \in Nat BY DEF PollsType
  <2> QED BY <1>1, <2>1 DEF PollsType
<1>3. page \in PageType BY DEF ResultInv, PageFollows
<1>4. MaxPause \in Nat /\ page.idle \in Nat /\ page.idle <= MaxPause BY <1>3, IdleTyped
<1>5. page'.shown = page.shown
      /\ page'.idle = IF page.idle < MaxPause THEN page.idle + 1 ELSE page.idle
  BY <1>1, <1>3 DEF PageType
<1>6. page' = [shown |-> page.shown, idle |-> page'.idle] BY <1>1, <1>3, <1>5 DEF PageType
<1>7. page'.idle \in 0 .. MaxPause BY <1>4, <1>5
<1>8. page' \in PageType
  <2>1. page.shown \in {"none", "blank", "empty", "loading", "final empty", "count", "refreshing"}
    BY <1>3 DEF PageType
  <2> QED BY <1>6, <1>7, <2>1, PageTyped
<1> QED BY <1>1, <1>2, <1>4, <1>5, <1>8

LEMMA WaitsForResultsHold ==
  ASSUME ResultInv
  PROVE  Settled \/ AwaitResults \/ EnsureFullList \/ FirstCount \/ ReadTab => ResultInv'
<1>1. polls \in PollsType /\ page \in PageType BY DEF ResultInv, CountFollows, PageFollows
<1>2. ASSUME Settled PROVE ResultInv'
  <2>1. /\ step = "results" /\ step' = "full list" /\ page.shown = "count"
        /\ UNCHANGED <<page, tabs, polls, outcome>>
    BY <1>2 DEF Settled, Goto
  <2>2. CountFollows' BY <1>1, <2>1 DEF CountFollows
  <2> QED BY <1>1, <2>1, <2>2, ShownStays
<1>3. ASSUME AwaitResults PROVE ResultInv'
  <2> DEFINE p == [polls EXCEPT !.emptySeen = ShowsEmpty]
  <2>1. step = "results" /\ Waits(p) BY <1>3 DEF AwaitResults
  <2>2. p \in PollsType
    <3>1. ShowsEmpty \in BOOLEAN BY DEF ShowsEmpty
    <3> QED BY <1>1, <3>1 DEF PollsType
  <2> HIDE DEF p
  <2>3. /\ polls' \in PollsType /\ page' \in PageType /\ page'.shown = page.shown
        /\ UNCHANGED <<step, tabs, outcome>>
    BY <2>1, <2>2, WaitsTick
  <2>4. CountFollows' BY <2>1, <2>3 DEF CountFollows
  <2> QED BY <2>1, <2>3, <2>4, ShownStays
<1>4. ASSUME EnsureFullList PROVE ResultInv'
  <2>1. /\ step = "full list" /\ step' = "first count"
        /\ UNCHANGED <<page, tabs, polls, outcome>>
    BY <1>4 DEF EnsureFullList, Goto
  <2>2. CountFollows' BY <1>1, <2>1 DEF CountFollows
  <2>3. page.shown \in {"count", "refreshing"} BY <2>1 DEF ResultInv, PageFollows
  <2> QED BY <1>1, <2>1, <2>2, <2>3, ShownStays
<1>5. ASSUME FirstCount PROVE ResultInv'
  <2>1. /\ step = "first count" /\ step' = "count" /\ page.shown = "count"
        /\ UNCHANGED <<page, tabs, outcome>>
        /\ polls' = [count |-> Arrived, stable |-> 0, elapsed |-> 0, emptySeen |-> FALSE]
    BY <1>5 DEF FirstCount, NoPolls
  <2>2. Arrived \in Nat /\ Arrived' = Arrived
    <3>1. TabsFill BY DEF ResultInv
    <3> QED BY <2>1, <3>1, ArrivedBounds DEF Arrived
  <2>3. /\ MaxPause \in Nat /\ page.idle \in Nat
        /\ MaxPause * Arrived \in Nat /\ MaxPause * (Arrived + 1) \in Nat
    <3>1. Arrived + 1 \in Nat BY <2>2
    <3> QED BY <1>1, <2>2, <3>1, IdleTyped, OnePauseMore
  <2>4. polls' \in PollsType BY <2>1, <2>2 DEF PollsType
  <2>5. CountFollows'
    <3> HIDE DEF Arrived
    <3>1. polls'.count = Arrived /\ polls'.stable = 0 /\ polls'.elapsed = 0 /\ page' = page
      BY <2>1
    <3>2. Done' <=> Final' BY <2>2, <3>1 DEF Final
    <3>3. /\ MaxPause * Arrived' \in Nat /\ MaxPause * (Arrived' + 1) \in Nat
          /\ Arrived' \in Nat /\ page'.idle \in Nat
      BY <2>2, <2>3, <3>1
    <3>4. polls'.elapsed <= MaxPause * (Arrived' + 1) + 1 + polls'.stable
      BY <3>1, <3>3
    <3>5. polls'.elapsed <= MaxPause * Arrived' + page'.idle BY <3>1, <3>3
    <3>6. polls'.stable <= page'.idle /\ polls'.stable <= MaxPause /\ polls'.count <= Arrived'
      BY <2>2, <2>3, <3>1, <3>3
    <3> QED BY <2>1, <2>4, <3>2, <3>4, <3>5, <3>6 DEF CountFollows
  <2> QED BY <1>1, <2>1, <2>5, ShownStays
<1>6. ASSUME ReadTab PROVE ResultInv'
  <2>1. step = "rows" /\ UNCHANGED <<step, page, tabs, polls, outcome>> BY <1>6 DEF ReadTab
  <2>2. polls.count = Total(tabs.holds) BY <2>1 DEF ResultInv, CountFollows
  <2>3. CountFollows' BY <1>1, <2>1, <2>2 DEF CountFollows
  <2>4. page.shown \in {"count", "refreshing"} BY <2>1 DEF ResultInv, PageFollows
  <2> QED BY <1>1, <2>1, <2>3, <2>4, ShownStays
<1> QED BY <1>2, <1>3, <1>4, <1>5, <1>6

\* What the wait for a stable count keeps, in numbers.
LEMMA CountInNumbers ==
  ASSUME ResultInv, step = "count"
  PROVE  /\ polls \in PollsType /\ page \in PageType
         /\ polls.count \in Nat /\ polls.stable \in Nat /\ polls.elapsed \in Nat
         /\ MaxPause \in Nat /\ page.idle \in Nat /\ page.idle <= MaxPause
         /\ Arrived \in Nat /\ MaxPause * Arrived \in Nat
         /\ MaxPause * (Arrived + 1) = MaxPause * Arrived + MaxPause
         /\ page.shown \in {"count", "refreshing"} /\ (page.shown = "refreshing" => ~Done)
<1>1. polls \in PollsType /\ page \in PageType BY DEF ResultInv, CountFollows, PageFollows
<1>2. polls.count \in Nat /\ polls.stable \in Nat /\ polls.elapsed \in Nat
  BY <1>1 DEF PollsType
<1>3. Arrived \in Nat
  <2>1. TabsFill BY DEF ResultInv
  <2> QED BY <2>1, ArrivedBounds
<1>4. page.shown \in {"count", "refreshing"} /\ (page.shown = "refreshing" => ~Done)
  BY DEF ResultInv, PageFollows
<1> QED BY <1>1, <1>2, <1>3, <1>4, IdleTyped, OnePauseMore

LEMMA AwaitStableCountHolds == ASSUME ResultInv, AwaitStableCount PROVE ResultInv'
<1> DEFINE p == IF page.shown = "refreshing" THEN [polls EXCEPT !.stable = 0]
                ELSE IF Arrived # polls.count THEN [polls EXCEPT !.stable = 0, !.count = Arrived]
                ELSE [polls EXCEPT !.stable = polls.stable + 1]
<1>1. step = "count" /\ CanPoll /\ Waits(p) BY DEF AwaitStableCount
<1>2. /\ polls \in PollsType /\ page \in PageType
      /\ polls.count \in Nat /\ polls.stable \in Nat /\ polls.elapsed \in Nat
      /\ MaxPause \in Nat /\ page.idle \in Nat /\ page.idle <= MaxPause
      /\ Arrived \in Nat /\ MaxPause * Arrived \in Nat
      /\ MaxPause * (Arrived + 1) = MaxPause * Arrived + MaxPause
      /\ page.shown \in {"count", "refreshing"} /\ (page.shown = "refreshing" => ~Done)
  BY <1>1, CountInNumbers
<1> HIDE DEF Arrived
<1>3. p \in PollsType
  <2>1. polls.stable + 1 \in Nat /\ 0 \in Nat BY <1>2
  <2> QED BY <1>2, <2>1 DEF PollsType
<1>4. /\ p.elapsed = polls.elapsed
      /\ p.count = IF page.shown = "refreshing" THEN polls.count ELSE Arrived
      /\ p.stable = IF page.shown = "refreshing" \/ Arrived # polls.count
                    THEN 0 ELSE polls.stable + 1
  BY <1>2 DEF PollsType
<1> HIDE DEF p
<1>5. /\ polls' = [p EXCEPT !.elapsed = p.elapsed + 1] /\ polls' \in PollsType
      /\ page' \in PageType /\ page'.shown = page.shown
      /\ page.idle < MaxPause => page'.idle = page.idle + 1
      /\ UNCHANGED <<step, tabs, outcome>>
  BY <1>1, <1>3, WaitsTick
<1>6. polls'.count = p.count /\ polls'.stable = p.stable /\ polls'.elapsed = polls.elapsed + 1
  BY <1>3, <1>4, <1>5 DEF PollsType
<1>7. Arrived' = Arrived /\ Done' = Done BY <1>5 DEF Arrived, Done
<1>8. ~Done => page.idle < MaxPause /\ page'.idle = page.idle + 1
  BY <1>1, <1>2, <1>5 DEF CanPoll, AtRest
<1>9. /\ polls.count <= Arrived
      /\ ~Final => polls.stable <= MaxPause
      /\ ~Done /\ polls.count = Arrived => polls.stable <= page.idle
      /\ ~Done => polls.elapsed <= MaxPause * Arrived + page.idle
      /\ Done /\ ~Final => polls.elapsed <= MaxPause * (Arrived + 1)
      /\ Final => polls.elapsed <= MaxPause * (Arrived + 1) + 1 + polls.stable
  BY <1>1 DEF ResultInv, CountFollows
<1>10. CASE ~Done
  <2>1. polls'.count <= Arrived BY <1>2, <1>4, <1>6, <1>9
  <2>2. polls'.count = Arrived => polls'.stable <= page'.idle
    BY <1>2, <1>4, <1>6, <1>8, <1>9, <1>10
  <2>3. polls'.stable <= MaxPause BY <1>2, <1>4, <1>6, <1>8, <1>9, <1>10
  <2>4. polls'.elapsed <= MaxPause * Arrived + page'.idle BY <1>2, <1>6, <1>8, <1>9, <1>10
  <2>5. ~Done' /\ ~Final' BY <1>7, <1>10 DEF Final
  <2>6. CountFollows' BY <1>1, <1>5, <1>7, <2>1, <2>2, <2>3, <2>4, <2>5 DEF CountFollows
  <2> QED BY <1>1, <1>2, <1>5, <2>6, ShownStays
<1>11. CASE Done
  <2>1. page.shown = "count" /\ p.count = Arrived BY <1>2, <1>4, <1>11
  <2>2. Done' /\ Final' BY <1>6, <1>7, <1>11, <2>1 DEF Final
  <2>3. polls'.elapsed <= MaxPause * (Arrived + 1) + 1 + polls'.stable
    <3>1. CASE Final
      <4>1. polls'.stable = polls.stable + 1 BY <1>4, <1>6, <2>1, <3>1 DEF Final
      <4> QED BY <1>2, <1>6, <1>9, <3>1, <4>1
    <3>2. CASE ~Final
      <4>1. polls'.stable = 0 BY <1>4, <1>6, <1>11, <3>2 DEF Final
      <4> QED BY <1>2, <1>6, <1>9, <1>11, <3>2, <4>1
    <3> QED BY <3>1, <3>2
  <2>4. polls'.count <= Arrived BY <1>2, <1>6, <2>1
  <2>5. CountFollows' BY <1>1, <1>5, <1>7, <2>2, <2>3, <2>4 DEF CountFollows
  <2> QED BY <1>1, <1>2, <1>5, <2>5, ShownStays
<1> QED BY <1>10, <1>11

\* The count that is read is the whole one: a count that was stable for longer than
\* the page pauses is final, and no arrival is left when the longest wait is over.
LEMMA CountSettledHolds ==
  ASSUME ResultInv, WaitsAreLongEnough, CountSettled PROVE ResultInv'
<1>1. /\ step = "count" /\ step' = "rows" /\ UNCHANGED <<page, tabs, polls, outcome>>
      /\ polls.stable >= Stable \/ polls.elapsed >= SettleMax
  BY DEF CountSettled, Goto
<1>2. /\ polls \in PollsType /\ page \in PageType
      /\ polls.count \in Nat /\ polls.stable \in Nat /\ polls.elapsed \in Nat
      /\ MaxPause \in Nat /\ page.idle \in Nat /\ page.idle <= MaxPause
      /\ Arrived \in Nat /\ MaxPause * Arrived \in Nat
      /\ MaxPause * (Arrived + 1) = MaxPause * Arrived + MaxPause
      /\ page.shown \in {"count", "refreshing"}
  BY <1>1, CountInNumbers
<1>3. TabsFill /\ Total(tabs.holds) \in Nat /\ Arrived <= Total(tabs.holds)
      /\ (Done => Arrived = Total(tabs.holds))
  <2>1. TabsFill BY DEF ResultInv
  <2> QED BY <2>1, ArrivedBounds
<1>4. Stable \in Nat /\ SettleMax \in Nat BY Times
<1>5. MaxPause < Stable /\ MaxPause * (Arrived + 1) + 1 + Stable <= SettleMax
  <2>1. tabs.holds \in Harvests BY <1>1, <1>3 DEF TabsFill
  <2>2. MaxPause < Stable
        /\ MaxPause * (Total(tabs.holds) + 1) + 1 + Stable <= SettleMax
    BY <2>1 DEF WaitsAreLongEnough
  <2>3. Total(tabs.holds) + 1 \in Nat /\ Arrived + 1 \in Nat BY <1>2, <1>3
  <2>4. MaxPause * (Arrived + 1) <= MaxPause * (Total(tabs.holds) + 1)
    <3>1. CASE Arrived = Total(tabs.holds)
      <4>1. MaxPause * (Arrived + 1) \in Nat BY <2>3, OnePauseMore
      <4> QED BY <3>1, <4>1
    <3>2. CASE Arrived < Total(tabs.holds)
      <4>1. Arrived + 1 < Total(tabs.holds) + 1 BY <1>2, <1>3, <3>2
      <4>2. /\ MaxPause * (Arrived + 1) \in Nat
            /\ MaxPause * (Total(tabs.holds) + 1) \in Nat
            /\ MaxPause * (Arrived + 1) + MaxPause <= MaxPause * (Total(tabs.holds) + 1)
        BY <2>3, <4>1, OnePauseMore
      <4> QED BY <1>2, <4>2
    <3> QED BY <1>2, <1>3, <3>1, <3>2
  <2>5. MaxPause * (Arrived + 1) \in Nat /\ MaxPause * (Total(tabs.holds) + 1) \in Nat
    BY <2>3, OnePauseMore
  <2> QED BY <1>4, <2>2, <2>4, <2>5
<1> HIDE DEF Arrived
<1>6. Final
  <2> SUFFICES ASSUME ~Final PROVE FALSE OBVIOUS
  <2>1. /\ polls.stable <= MaxPause
        /\ ~Done => polls.elapsed <= MaxPause * Arrived + page.idle
        /\ Done => polls.elapsed <= MaxPause * (Arrived + 1)
    BY <1>1 DEF ResultInv, CountFollows
  <2>2. polls.elapsed <= MaxPause * (Arrived + 1) BY <1>2, <2>1
  <2> QED BY <1>1, <1>2, <1>4, <1>5, <2>1, <2>2
<1>7. polls.count = Total(tabs.holds) BY <1>3, <1>6 DEF Final
<1>8. CountFollows' BY <1>1, <1>2, <1>7 DEF CountFollows
<1> QED BY <1>1, <1>2, <1>8, ShownStays

LEMMA ResultStep ==
  ASSUME ResultInv, WaitsAreLongEnough, [Next]_vars PROVE ResultInv'
<1>1. CASE UNCHANGED vars
  BY <1>1 DEF vars, ResultInv, TabsFill, PageFollows, CountFollows, Final, Arrived, Done,
              Presented, ResultsAreWhole
<1>2. PageMoves => ResultInv'
  BY PageLoadsHolds, RatesArriveHolds, CountRefreshesHolds DEF PageMoves
<1> QED
  BY <1>1, <1>2, FailuresPresentNothing, AnswersAreWhole, BrowserStepsAreQuiet, FillStepsAreQuiet,
     SearchStarts, WaitsForResultsHold, AwaitStableCountHolds, CountSettledHolds DEF Next

\* What is presented as the whole answer is whole, when the waits outlast the page
\* (_await_stable_count): as many rates as WebCargo has, and "no rates"
\* only when it has none.
THEOREM WholeAnswer ==
  ASSUME WaitsAreLongEnough PROVE Spec => []ResultsAreWhole
<1>1. ResultInv /\ [Next]_vars => ResultInv' BY ResultStep
<1>2. ResultInv => ResultsAreWhole BY DEF ResultInv, Presented
<1> QED BY <1>1, <1>2, ResultInit, PTL DEF Spec
=============================================================================

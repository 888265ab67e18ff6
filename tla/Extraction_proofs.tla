--------------------------- MODULE Extraction_proofs ---------------------------
(***************************************************************************)
(* From a letter to a record, for any letters with any numbers, pieces,    *)
(* sides and dates, and any report that quotes them as written: what       *)
(* enters the record is what the letter says by its only reading, and a    *)
(* mistake the client can correct is asked about.                          *)
(***************************************************************************)
EXTENDS Extraction, TLAPS

IsContent(l, c) ==
    /\ IsReport(c) /\ Normalised(l, c) \notin {Null, Garbage}
    /\ Read(c.weight) => WeightAsWritten(l, c.weight)
    /\ Read(c.pcs) => c.pcs.value = l.pcs
    /\ IsPerPiece(l.weight) /\ l.pcs # Null => IsStated(c.pcs)
    /\ Read(c.dims) => SidesAsWritten(l, c.dims)
    /\ Read(c.date) => c.date.value = l.date.means

IsLetter(l) ==
    /\ IsWeightPhrase(l.weight)
    /\ l.pcs \in Nat \union {Null}
    /\ \A i \in Sides : IsSide(l.sides[i])
    /\ l.unit # Absent
    /\ EitherWay(l.date) => l.date.means \in {DayFirst(l.date), MonthFirst(l.date)}

-----------------------------------------------------------------------------
(* Units                                                                   *)

\* A unit or a note is not null.
LEMMA WordsAreThere ==
  /\ \A u \in DOMAIN KgPer \union DOMAIN InchesPer : u # Null
  /\ \A f \in Notes.AMBIGUOUS \union Notes.INVALID \union {"impossible", "ft-in"} : f # Null
BY ExtractionValues DEF Words

\* A length or weight in a unit, and the tenths it is rounded up to.
LEMMA PerKg ==
  ASSUME NEW u \in DOMAIN KgPer
  PROVE  u \in {"kg", "g", "lb", "t"} /\ KgPer[u][1] \in Nat /\ KgPer[u][2] \in Nat
BY DEF KgPer

LEMMA RoundedKg ==
  ASSUME NEW u \in DOMAIN KgPer, NEW n \in Int
  PROVE  /\ ToKg(n, u) \in Int
         /\ Covers(ToKg(n, u), <<n, u>>, KgPer)
         /\ ToKg(n, u) > 0 <=> n > 0
<1>1. CASE u = "kg"
  BY <1>1 DEF ToKg, RoundUp, KgPer, Covers
<1>2. CASE u = "g"
  BY <1>2 DEF ToKg, RoundUp, KgPer, Covers
<1>3. CASE u = "lb"
  BY <1>3 DEF ToKg, RoundUp, KgPer, Covers
<1>4. CASE u = "t"
  BY <1>4 DEF ToKg, RoundUp, KgPer, Covers
<1> QED BY <1>1, <1>2, <1>3, <1>4, PerKg

LEMMA RoundedInches ==
  ASSUME NEW u \in DOMAIN InchesPer, NEW n \in Int
  PROVE  /\ ToInches(n, u) \in Int
         /\ Covers(ToInches(n, u), <<n, u>>, InchesPer)
<1>0. u \in {"in", "cm", "mm", "m", "ft"}
  BY DEF InchesPer
<1>1. CASE u = "in"
  BY <1>1 DEF ToInches, RoundUp, InchesPer, Covers
<1>2. CASE u = "cm"
  BY <1>2 DEF ToInches, RoundUp, InchesPer, Covers
<1>3. CASE u = "mm"
  BY <1>3 DEF ToInches, RoundUp, InchesPer, Covers
<1>4. CASE u = "m"
  BY <1>4 DEF ToInches, RoundUp, InchesPer, Covers
<1>5. CASE u = "ft"
  BY <1>5 DEF ToInches, RoundUp, InchesPer, Covers
<1> QED BY <1>0, <1>1, <1>2, <1>3, <1>4, <1>5

\* A unit the code converts is the unit itself, or the one "k" goes with.
LEMMA KnownUnit ==
  ASSUME NEW raw, WeightUnit(raw) # Null
  PROVE  \/ raw \in DOMAIN KgPer /\ raw \notin DOMAIN ThousandWeightUnit /\ WeightUnit(raw) = raw
         \/ /\ raw \in DOMAIN ThousandWeightUnit /\ WeightUnit(raw) = ThousandWeightUnit[raw]
            /\ WeightUnit(raw) \in DOMAIN KgPer
BY DEF WeightUnit, KgPer, ThousandWeightUnit

-----------------------------------------------------------------------------
(* The fields of a report after the rules                                  *)

LEMMA Moved ==
  ASSUME NEW c, IsReport(c)
  PROVE  LET m == MoveCargoType(c)
         IN  /\ IsReport(m)
             /\ m.weight = c.weight /\ m.pcs = c.pcs /\ m.dims = c.dims /\ m.date = c.date
             /\ m.commodity \in {c.commodity, NotStated}
             /\ m.cargo \in {c.cargo, c.commodity}
BY DEF MoveCargoType, IsReport, NotStated, Cell, Fields

\* What is left of a field that can be impossible.
Checked(cell, impossible) == IF IsStated(cell) /\ impossible THEN Invalid("impossible") ELSE cell

\* Fields are replaced one after the other.
LEMMA MarkedFields ==
  ASSUME NEW m, NEW w, NEW p, NEW d, NEW e, NEW g, NEW k,
         m = [weight |-> w, pcs |-> p, dims |-> d, date |-> e, commodity |-> g, cargo |-> k]
  PROVE  MarkImpossible(m) =
            [weight |-> Checked(w, IsNonpositive(w.value)),
             pcs |-> Checked(p, IsNonpositive(p.value)),
             dims |-> Checked(d, ImpossibleSides(d.value)),
             date |-> e, commodity |-> g, cargo |-> k]
<1> DEFINE w2 == Checked(w, IsNonpositive(w.value))
           p2 == Checked(p, IsNonpositive(p.value))
           d2 == Checked(d, ImpossibleSides(d.value))
<1>1. PICK m1 : m1 = [m EXCEPT !.weight = w2]
  OBVIOUS
<1>2. PICK m2 : m2 = [m1 EXCEPT !.pcs = p2]
  OBVIOUS
<1>3. m.weight = w /\ m.pcs = p /\ m.dims = d
  OBVIOUS
<1>4. MarkImpossible(m) = [m EXCEPT !.weight = w2, !.pcs = p2, !.dims = d2]
  BY <1>3 DEF MarkImpossible, Checked
<1> HIDE DEF w2, p2, d2
<1>5. m1 = [weight |-> w2, pcs |-> p, dims |-> d, date |-> e, commodity |-> g, cargo |-> k]
  BY <1>1
<1>6. m2 = [weight |-> w2, pcs |-> p2, dims |-> d, date |-> e, commodity |-> g, cargo |-> k]
  BY <1>2, <1>5
<1>7. [m2 EXCEPT !.dims = d2] =
         [weight |-> w2, pcs |-> p2, dims |-> d2, date |-> e, commodity |-> g, cargo |-> k]
  BY <1>6
<1>8. MarkImpossible(m) = [m2 EXCEPT !.dims = d2]
  BY <1>1, <1>2, <1>4
<1> QED BY <1>7, <1>8 DEF w2, p2, d2

LEMMA NormalisedFields ==
  ASSUME NEW l, NEW c, IsReport(c)
  PROVE  LET n == Normalised(l, c)
             w == NormaliseWeight(l, MoveCargoType(c))
             d == NormaliseDimensions(c.dims)
         IN  /\ n.weight = Checked(w, IsNonpositive(w.value))
             /\ n.pcs = Checked(c.pcs, IsNonpositive(c.pcs.value))
             /\ n.dims = Checked(d, ImpossibleSides(d.value))
             /\ n.date = FlagWeekdayMismatch(l.date, FlagAmbiguousDayMonth(l.date, c.date))
             /\ n.commodity \in {c.commodity, NotStated}
             /\ n.cargo \in {c.cargo, c.commodity}
<1> DEFINE m == MoveCargoType(c)
           w == NormaliseWeight(l, m)
           d == NormaliseDimensions(c.dims)
           e == FlagWeekdayMismatch(l.date, FlagAmbiguousDayMonth(l.date, c.date))
           moved == [m EXCEPT !.weight = w, !.dims = d, !.date = e]
<1>1. /\ m = [weight |-> m.weight, pcs |-> m.pcs, dims |-> m.dims,
              date |-> m.date, commodity |-> m.commodity, cargo |-> m.cargo]
      /\ m.pcs = c.pcs /\ m.dims = c.dims /\ m.date = c.date
      /\ m.commodity \in {c.commodity, NotStated}
      /\ m.cargo \in {c.cargo, c.commodity}
  BY Moved DEF IsReport
<1>2. Normalised(l, c) = MarkImpossible([m EXCEPT !.weight = w, !.dims = NormaliseDimensions(@),
         !.date = FlagWeekdayMismatch(l.date, FlagAmbiguousDayMonth(l.date, @))])
  BY DEF Normalised
<1> HIDE DEF m, w, d, e
<1>3. moved = [weight |-> w, pcs |-> c.pcs, dims |-> d, date |-> e,
               commodity |-> m.commodity, cargo |-> m.cargo]
  <2>1. m = [weight |-> m.weight, pcs |-> c.pcs, dims |-> c.dims,
             date |-> c.date, commodity |-> m.commodity, cargo |-> m.cargo]
    BY <1>1
  <2>2. PICK m1 : m1 = [m EXCEPT !.weight = w]
    OBVIOUS
  <2>3. PICK m2 : m2 = [m1 EXCEPT !.dims = d]
    OBVIOUS
  <2>4. m1 = [weight |-> w, pcs |-> c.pcs, dims |-> c.dims,
              date |-> c.date, commodity |-> m.commodity, cargo |-> m.cargo]
    BY <2>1, <2>2
  <2>5. m2 = [weight |-> w, pcs |-> c.pcs, dims |-> d,
              date |-> c.date, commodity |-> m.commodity, cargo |-> m.cargo]
    BY <2>3, <2>4
  <2>6. [m2 EXCEPT !.date = e] = [weight |-> w, pcs |-> c.pcs, dims |-> d,
              date |-> e, commodity |-> m.commodity, cargo |-> m.cargo]
    BY <2>5
  <2>7. moved = [m2 EXCEPT !.date = e]
    BY <2>2, <2>3
  <2> QED BY <2>6, <2>7
<1>4. Normalised(l, c) = MarkImpossible(moved)
  BY <1>1, <1>2 DEF d, e
<1> HIDE DEF moved
<1>5. MarkImpossible(moved) =
         [weight |-> Checked(w, IsNonpositive(w.value)), pcs |-> Checked(c.pcs, IsNonpositive(c.pcs.value)),
          dims |-> Checked(d, ImpossibleSides(d.value)), date |-> e,
          commodity |-> m.commodity, cargo |-> m.cargo]
  BY <1>3, MarkedFields
<1> QED BY <1>1, <1>4, <1>5 DEF m, w, d, e

-----------------------------------------------------------------------------
(* The weight                                                              *)

NumbersOf(w) ==
    (IF w.kilo THEN {} ELSE {w.number}) \union (IF w.kilo \/ w.dots THEN {1000 * w.number} ELSE {})
UnitsOf(w) == IF w.unit = Null THEN DOMAIN KgPer ELSE {w.unit} \intersect DOMAIN KgPer
CountsOf(l) == IF ~IsPerPiece(l.weight) THEN {1} ELSE IF l.pcs = Null THEN {} ELSE {l.pcs}

LEMMA ReadingsOf ==
  ASSUME NEW l
  PROVE  \A m : m \in Weighs(l) <=>
            /\ ~IsChargeableOnly(l.weight)
            /\ \E n \in NumbersOf(l.weight), k \in CountsOf(l), u \in UnitsOf(l.weight) : m = <<n * k, u>>
BY DEF Weighs, NumbersOf, CountsOf, UnitsOf

\* The number the code converts is the only one the phrase can mean.
LEMMA NumberTaken ==
  ASSUME NEW l, NEW w, IsWeightPhrase(l.weight), WeightAsWritten(l, w), w.unit # Absent,
         ~DotThousandsIn(l.weight, w.value), WeightUnit(w.unit) # Null
  PROVE  /\ FullWeight(l, w) \in Int
         /\ NumbersOf(l.weight) = {FullWeight(l, w)}
         /\ WeightUnit(w.unit) \in DOMAIN KgPer
         /\ UnitsOf(l.weight) = {WeightUnit(w.unit)}
<1> DEFINE said == l.weight
<1>1. /\ said.number \in Int /\ said.kilo \in BOOLEAN /\ said.dots \in BOOLEAN
      /\ said.unit \notin DOMAIN ThousandWeightUnit
      /\ said.kilo => ~said.dots /\ said.unit \in {"kg", "lb", Null}
  BY DEF IsWeightPhrase
<1>2. CASE w.value = said.number /\ w.unit = said.unit
  <2>1. WeightUnit(w.unit) = said.unit /\ said.unit \in DOMAIN KgPer /\ said.unit # Null
    BY <1>1, <1>2, KnownUnit
  <2>2. ~said.dots \/ said.kilo
    BY <1>1, <1>2 DEF DotThousandsIn
  <2> QED BY <1>1, <1>2, <2>1, <2>2 DEF FullWeight, KiloSuffixIn, NumbersOf, UnitsOf
<1>3. CASE /\ said.kilo /\ w.value = said.number
           /\ w.unit \in DOMAIN ThousandWeightUnit /\ ThousandWeightUnit[w.unit] = said.unit
  <2>1. WeightUnit(w.unit) = said.unit /\ said.unit \in DOMAIN KgPer /\ said.unit # Null
    BY <1>3, KnownUnit
  <2> QED BY <1>1, <1>3, <2>1 DEF FullWeight, NumbersOf, UnitsOf
<1>4. CASE said.kilo /\ w.value = 1000 * said.number /\ w.unit = said.unit
  <2>1. WeightUnit(w.unit) = said.unit /\ said.unit \in DOMAIN KgPer /\ said.unit # Null
    BY <1>1, <1>4, KnownUnit
  <2> QED BY <1>1, <1>4, <2>1 DEF FullWeight, KiloSuffixIn, NumbersOf, UnitsOf
<1> QED BY <1>2, <1>3, <1>4 DEF WeightAsWritten

\* The weight v has one reading.
OnlyReading(l, v) ==
    \E m \in Weighs(l) : Weighs(l) = {m} /\ Covers(v, m, KgPer) /\ (v > 0 <=> m[1] > 0)

\* A weight with no problem has one reading, and is converted to it.
LEMMA WeightTaken ==
  ASSUME NEW l, NEW c, IsLetter(l), IsContent(l, c), Read(c.weight), c.weight.unit # Absent,
         WeightProblem(l, c) = "none", NEW kg, kg = WeightInKg(l, c)
  PROVE  kg \in Int /\ OnlyReading(l, kg)
<1> DEFINE w == c.weight
           n == FullWeight(l, w)
           u == WeightUnit(w.unit)
           k == IF IsPerPiece(l.weight) THEN c.pcs.value ELSE 1
<1>1. /\ ~DotThousandsIn(l.weight, w.value) /\ u # Null /\ ~IsChargeableOnly(l.weight)
      /\ IsPerPiece(l.weight) => PiecesStated(c)
  BY DEF WeightProblem, UnitNote
<1>2. n \in Int /\ NumbersOf(l.weight) = {n} /\ u \in DOMAIN KgPer /\ UnitsOf(l.weight) = {u}
  BY <1>1, NumberTaken DEF IsLetter, IsContent
<1>3. k \in Int /\ CountsOf(l) = {k}
  <2>1. CASE IsPerPiece(l.weight)
    <3>1. c.pcs.value = l.pcs /\ l.pcs # Null
      BY <1>1, <2>1 DEF PiecesStated, IsContent, Read, IsNumber
    <3> QED BY <2>1, <3>1 DEF CountsOf, IsLetter
  <2>2. CASE ~IsPerPiece(l.weight)
    BY <2>2 DEF CountsOf
  <2> QED BY <2>1, <2>2
<1>4. WeightInKg(l, c) = ToKg(n * k, u)
  <2>1. CASE IsPerPiece(l.weight)
    BY <2>1 DEF WeightInKg, TimesPieces
  <2>2. CASE ~IsPerPiece(l.weight)
    <3>1. n * 1 = n
      BY <1>2
    <3> QED BY <2>2, <3>1 DEF WeightInKg
  <2> QED BY <2>1, <2>2
<1> HIDE DEF n, u, k
<1>5. Weighs(l) = {<<n * k, u>>}
  <2>1. \A m : m \in Weighs(l) <=> m = <<n * k, u>>
    BY <1>1, <1>2, <1>3, ReadingsOf
  <2> QED BY <2>1
<1>6. n * k \in Int
  BY <1>2, <1>3
<1>7. /\ ToKg(n * k, u) \in Int /\ Covers(ToKg(n * k, u), <<n * k, u>>, KgPer)
      /\ ToKg(n * k, u) > 0 <=> n * k > 0
  BY <1>2, <1>6, RoundedKg
<1> QED BY <1>4, <1>5, <1>7 DEF OnlyReading

\* A weight that is asked about has no reading that is possible, or several.
LEMMA WeightAsked ==
  ASSUME NEW l, NEW c, IsLetter(l), IsContent(l, c), Read(c.weight), c.weight.unit # Absent,
         IsStated(c.pcs) => IsNumber(c.pcs.value),
         WeightProblem(l, c) # "none",
         NEW m \in Weighs(l), Weighs(l) = {m}
  PROVE  ~ (m[1] > 0)
<1> DEFINE said == l.weight
           w == c.weight
<1>1. ~IsChargeableOnly(said)
  BY ReadingsOf
<1>2. ASSUME NEW n \in NumbersOf(said), NEW k \in CountsOf(l), NEW u \in UnitsOf(said)
      PROVE  m = <<n * k, u>>
  <2>1. <<n * k, u>> \in Weighs(l)
    BY <1>1, ReadingsOf
  <2> QED BY <2>1
<1>3. PICK n \in NumbersOf(said), k \in CountsOf(l), u \in UnitsOf(said) : m = <<n * k, u>>
  BY <1>1, ReadingsOf
<1>4. said.number \in Int /\ k \in Nat
  BY <1>3 DEF IsLetter, IsWeightPhrase, CountsOf
<1>5. CASE DotThousandsIn(said, w.value)
  <2>1. said.number \in NumbersOf(said) /\ 1000 * said.number \in NumbersOf(said)
    BY <1>5 DEF DotThousandsIn, NumbersOf, IsLetter, IsWeightPhrase
  <2>2. m = <<said.number * k, u>> /\ m = <<(1000 * said.number) * k, u>>
    BY <1>2, <1>3, <2>1
  <2>3. said.number * k = (1000 * said.number) * k
    BY <2>2
  <2>4. (1000 * said.number) * k = 1000 * (said.number * k) /\ said.number * k \in Int
    BY <1>4
  <2> QED BY <2>2, <2>3, <2>4
<1>6. CASE WeightUnit(w.unit) = Null
  <2>1. w.unit = said.unit
    <3>1. w.unit \notin DOMAIN ThousandWeightUnit
      <4>1. "kg" # Null /\ "lb" # Null
        BY WordsAreThere DEF KgPer
      <4> QED BY <1>6, <4>1, WordsAreThere DEF WeightUnit, ThousandWeightUnit
    <3> QED BY <3>1 DEF IsContent, WeightAsWritten
  <2>2. w.unit \notin DOMAIN KgPer
    BY <1>6, WordsAreThere DEF WeightUnit
  <2>3. UnitsOf(said) = DOMAIN KgPer
    BY <1>3, <2>1, <2>2 DEF UnitsOf
  <2>4. "kg" \in UnitsOf(said) /\ "g" \in UnitsOf(said)
    BY <2>3 DEF KgPer
  <2>5. m = <<n * k, "kg">> /\ m = <<n * k, "g">>
    BY <1>2, <1>3, <2>4
  <2> QED BY <2>5
<1>7. CASE IsPerPiece(said) /\ ~PiecesStated(c)
  <2>1. l.pcs # Null /\ k = l.pcs
    BY <1>3, <1>7 DEF CountsOf
  <2>2. c.pcs.value = l.pcs /\ IsStated(c.pcs) /\ IsNumber(c.pcs.value)
    BY <1>7, <2>1 DEF IsContent, Read
  <2>3. k = 0
    BY <1>4, <1>7, <2>1, <2>2 DEF PiecesStated
  <2>4. n \in Int
    BY <1>3, <1>4 DEF NumbersOf
  <2>5. n * k = 0
    BY <2>3, <2>4
  <2> QED BY <1>3, <2>5
<1> QED BY <1>1, <1>5, <1>6, <1>7 DEF WeightProblem, UnitNote

-----------------------------------------------------------------------------
(* The sides                                                               *)

LEMMA KnownLength ==
  ASSUME NEW raw, LengthUnit(raw) # Null
  PROVE  LengthUnit(raw) = raw /\ raw \in DOMAIN InchesPer /\ raw # Null /\ raw # "ft-in"
BY DEF LengthUnit, InchesPer

\* A side that is converted has one reading, and is converted to it.
LEMMA SideTaken ==
  ASSUME NEW side, IsSide(side), NEW raw, ConvertSide(side, raw) # Null
  PROVE  \E m \in SideMeasures(side, raw) :
            /\ SideMeasures(side, raw) = {m}
            /\ Covers(ConvertSide(side, raw), m, InchesPer)
            /\ ConvertSide(side, raw) \in Int
<1> DEFINE x == ConvertSide(side, raw)
<1>1. CASE IsString(side) /\ LengthUnit(raw) # Null
  <2>1. raw \in DOMAIN InchesPer /\ raw # Null /\ raw # "ft-in"
    BY <1>1, KnownLength
  <2>2. side[1] = "text" /\ side[3] \in {Null, raw} /\ side[2] \in Int /\ x = ToInches(side[2], raw)
    BY <1>1 DEF ConvertSide, ParseSide, IsSide
  <2>3. SideMeasures(side, raw) = {<<side[2], raw>>}
    BY <2>1, <2>2 DEF SideMeasures
  <2> QED BY <2>1, <2>2, <2>3, RoundedInches
<1>2. CASE IsString(side) /\ LengthUnit(raw) = Null
  <2>1. x = ParseFeetInches(side)
    BY <1>2 DEF ConvertSide
  <2>2. CASE side[1] = "text"
    <3>1. side[3] \in {"in", "ft"} /\ side[2] \in Int /\ x = side[2] * InchesPer[side[3]][1]
      BY <2>1, <2>2 DEF ParseFeetInches, IsSide
    <3>2. side[3] # Null /\ side[3] \in DOMAIN InchesPer /\ side[3] # "ft-in"
      BY <3>1, WordsAreThere DEF InchesPer
    <3>3. SideMeasures(side, raw) = {<<side[2], side[3]>>}
      BY <2>2, <3>2 DEF SideMeasures
    <3>4. x \in Int /\ Covers(x, <<side[2], side[3]>>, InchesPer)
      BY <3>1 DEF Covers, InchesPer
    <3> QED BY <3>3, <3>4
  <2>3. CASE side[1] = "compound"
    <3>1. side[2] \in Int /\ side[3] \in Int /\ side[3] < 120 /\ x = 12 * side[2] + side[3]
      BY <2>1, <2>3 DEF ParseFeetInches, IsSide
    <3>2. SideMeasures(side, raw) = {<<x, "in">>}
      BY <2>3, <3>1 DEF SideMeasures
    <3>3. x \in Int /\ Covers(x, <<x, "in">>, InchesPer)
      BY <3>1 DEF Covers, InchesPer
    <3> QED BY <3>2, <3>3
  <2> QED BY <1>2, <2>1, <2>2, <2>3 DEF IsString, ParseFeetInches
<1>3. CASE ~IsString(side)
  <2>1. side[1] = "number" /\ side[2] \in Int
    BY <1>3 DEF ConvertSide, IsNumberSide, IsSide, IsString
  <2>2. CASE LengthUnit(raw) # Null
    <3>1. raw \in DOMAIN InchesPer /\ raw # Null /\ raw # "ft-in"
      BY <2>2, KnownLength
    <3>2. x = ToInches(side[2], raw)
      BY <1>3, <2>2 DEF ConvertSide
    <3>3. SideMeasures(side, raw) = {<<side[2], raw>>}
      BY <2>1, <3>1 DEF SideMeasures
    <3> QED BY <2>1, <3>1, <3>2, <3>3, RoundedInches
  <2>3. CASE LengthUnit(raw) = Null
    <3>1. raw = "ft-in" /\ x = 12 * side[2]
      BY <1>3, <2>3 DEF ConvertSide
    <3>2. SideMeasures(side, raw) = {<<side[2], "ft">>}
      BY <2>1, <3>1, WordsAreThere DEF SideMeasures
    <3>3. x \in Int /\ Covers(x, <<side[2], "ft">>, InchesPer)
      BY <2>1, <3>1 DEF Covers, InchesPer
    <3> QED BY <3>2, <3>3
  <2> QED BY <2>2, <2>3
<1> QED BY <1>1, <1>2, <1>3

\* Figures alone are converted by their common unit.
LEMMA FigureTaken ==
  ASSUME NEW side, IsSide(side), side[1] = "number", NEW raw, LengthUnit(raw) # Null
  PROVE  /\ SideMeasures(side, raw) = {<<side[2], raw>>}
         /\ Covers(ToInches(side[2], raw), <<side[2], raw>>, InchesPer)
         /\ ToInches(side[2], raw) \in Int
<1>1. raw \in DOMAIN InchesPer /\ raw # Null /\ raw # "ft-in" /\ side[2] \in Int
  BY KnownLength DEF IsSide
<1>2. SideMeasures(side, raw) = {<<side[2], raw>>}
  BY <1>1 DEF SideMeasures
<1> QED BY <1>1, <1>2, RoundedInches

\* What becomes of sides that are stated, in a unit or in inches.
LEMMA SidesTaken ==
  ASSUME NEW l, NEW c, IsLetter(l), IsContent(l, c), Read(c.dims),
         \A i \in Sides : IsNumberSide(c.dims.value[i]) \/ IsString(c.dims.value[i])
  PROVE  LET d == NormaliseDimensions(c.dims)
         IN  \/ d \in {Invalid("unit_unsupported"), Invalid("unit_missing")}
             \/ /\ IsStated(d) /\ d.unit = Absent /\ d.value \notin {Null, Garbage}
                /\ \A i \in Sides :
                      /\ IsNumberSide(d.value[i])
                      /\ \E m \in SideMeasures(l.sides[i], l.unit) :
                            /\ SideMeasures(l.sides[i], l.unit) = {m}
                            /\ Covers(d.value[i][2], m, InchesPer)
<1> DEFINE sides == c.dims.value
           raw == c.dims.unit
           d == NormaliseDimensions(c.dims)
<1>1. c.dims = Cell("STATED", sides, raw, c.dims.note) /\ sides \notin {Null, Garbage}
  BY DEF IsContent, IsReport, Fields, Read, IsStated, IsNumber
<1>2. CASE raw = Absent
  <2>1. \A i \in Sides : /\ IsNumberSide(sides[i]) /\ sides[i][2] \in Int
                         /\ SideMeasures(l.sides[i], l.unit) = {<<sides[i][2], "in">>}
    BY <1>2 DEF IsContent, SidesAsWritten, IsLetter
  <2>2. d = [c.dims EXCEPT !.unit = Absent]
    BY <1>2 DEF NormaliseDimensions
  <2>3. IsStated(d) /\ d.unit = Absent /\ d.value = sides
    BY <1>1, <2>2 DEF Cell, IsStated
  <2>4. \A x \in Int : Covers(x, <<x, "in">>, InchesPer)
    BY DEF Covers, InchesPer
  <2> QED BY <1>1, <2>1, <2>3, <2>4
<1>3. CASE raw # Absent
  <2>1. sides = l.sides /\ raw = l.unit /\ \A i \in Sides : IsSide(sides[i])
    BY <1>3 DEF IsContent, SidesAsWritten, IsLetter
  <2>2. CASE raw = "ft-in" \/ \E i \in Sides : IsString(sides[i])
    <3> DEFINE inches == [i \in Sides |-> ConvertSide(sides[i], raw)]
               tenths == [i \in Sides |-> <<"number", inches[i]>>]
    <3>1. d = IF \E i \in Sides : inches[i] = Null THEN Invalid("unit_unsupported") ELSE Converted(tenths)
      BY <1>1, <1>3, <2>2 DEF NormaliseDimensions, ConvertFeetInches, Read
    <3>2. CASE \A i \in Sides : inches[i] # Null
      <4>1. \A i \in Sides : inches[i] = ConvertSide(sides[i], raw)
        OBVIOUS
      <4>2. \A i \in Sides : /\ inches[i] \in Int
                             /\ \E m \in SideMeasures(sides[i], raw) :
                                   SideMeasures(sides[i], raw) = {m} /\ Covers(inches[i], m, InchesPer)
        BY <2>1, <3>2, <4>1, SideTaken
      <4> HIDE DEF inches
      <4>3. tenths \in [Sides -> {"number"} \X Int]
        BY <4>2
      <4>4. tenths \notin {Null, Garbage}
        BY <4>3, ExtractionValues
      <4>5. \A i \in Sides : IsNumberSide(tenths[i]) /\ tenths[i][2] = inches[i]
        BY DEF IsNumberSide
      <4> HIDE DEF tenths
      <4>6. IsStated(d) /\ d.unit = Absent /\ d.value = tenths
        BY <3>1, <3>2 DEF Converted, Cell, IsStated
      <4> QED BY <2>1, <4>2, <4>4, <4>5, <4>6
    <3> QED BY <3>1, <3>2
  <2>3. CASE raw # "ft-in" /\ \A i \in Sides : ~IsString(sides[i])
    <3> DEFINE tenths == [i \in Sides |-> <<"number", ToInches(sides[i][2], raw)>>]
    <3>1. \A i \in Sides : IsNumberSide(sides[i])
      BY <2>3
    <3>2. d = IF LengthUnit(raw) = Null THEN Invalid(UnitNote(raw)) ELSE Converted(tenths)
      BY <1>1, <1>3, <2>3, <3>1 DEF NormaliseDimensions, Read
    <3>3. CASE LengthUnit(raw) # Null
      <4>1. \A i \in Sides : /\ SideMeasures(sides[i], raw) = {<<sides[i][2], raw>>}
                             /\ Covers(ToInches(sides[i][2], raw), <<sides[i][2], raw>>, InchesPer)
                             /\ ToInches(sides[i][2], raw) \in Int
        BY <2>1, <3>1, <3>3, FigureTaken DEF IsNumberSide
      <4>2. tenths \in [Sides -> {"number"} \X Int]
        BY <4>1
      <4>3. tenths \notin {Null, Garbage}
        BY <4>2, ExtractionValues
      <4>4. \A i \in Sides : IsNumberSide(tenths[i]) /\ tenths[i][2] = ToInches(sides[i][2], raw)
        BY DEF IsNumberSide
      <4> HIDE DEF tenths
      <4>5. IsStated(d) /\ d.unit = Absent /\ d.value = tenths
        BY <3>2, <3>3 DEF Converted, Cell, IsStated
      <4> QED BY <2>1, <4>1, <4>3, <4>4, <4>5
    <3> QED BY <3>2, <3>3 DEF UnitNote
  <2> QED BY <2>2, <2>3
<1> QED BY <1>2, <1>3

-----------------------------------------------------------------------------
(* The date                                                                *)

FlaggedDate(d, cell) == FlagWeekdayMismatch(d, FlagAmbiguousDayMonth(d, cell))

\* A date is taken exactly when it has one reading and its weekday agrees.
LEMMA DateTaken ==
  ASSUME NEW l, NEW c, IsLetter(l), IsContent(l, c), Read(c.date)
  PROVE  LET d == FlaggedDate(l.date, c.date)
         IN  /\ d = c.date \/ d \in {Ambiguous("date_order"), Ambiguous("weekday")}
             /\ IsStated(d) <=>
                  /\ ~EitherWay(l.date)
                  /\ l.date.falls \in {Null, l.date.means} \/ ~(l.date.numeric \/ l.date.year)
             /\ IsStated(d) => DateMeans(l.date) = {d.value}
<1> DEFINE e == FlagAmbiguousDayMonth(l.date, c.date)
           d == FlaggedDate(l.date, c.date)
<1>1. c.date.status = "STATED" /\ IsNumber(c.date.value) /\ c.date.value = l.date.means
  BY DEF IsContent, Read, IsStated
<1>2. CASE EitherWay(l.date)
  <2>1. e = Ambiguous("date_order")
    BY <1>1, <1>2 DEF FlagAmbiguousDayMonth, IsStated, IsLetter
  <2>2. d = Ambiguous("date_order") /\ ~IsStated(d)
    BY <2>1 DEF FlaggedDate, FlagWeekdayMismatch, Ambiguous, Cell, IsStated
  <2> QED BY <1>2, <2>2
<1>3. CASE ~EitherWay(l.date)
  <2>1. e = c.date
    BY <1>1, <1>3 DEF FlagAmbiguousDayMonth
  <2>2. d = IF (l.date.numeric \/ l.date.year) /\ l.date.falls \notin {Null, l.date.means}
            THEN Ambiguous("weekday") ELSE c.date
    BY <1>1, <2>1 DEF FlaggedDate, FlagWeekdayMismatch, IsStated
  <2>3. ~IsStated(Ambiguous("weekday")) /\ IsStated(c.date)
    BY <1>1 DEF Ambiguous, Cell, IsStated
  <2> QED BY <1>1, <1>3, <2>2, <2>3 DEF DateMeans
<1> QED BY <1>2, <1>3

-----------------------------------------------------------------------------
(* The contract                                                            *)

\* A note that the rules put on a field is a note.
LEMMA NotesAreThere ==
  \A f \in {"separator", "unit_missing", "unit_unsupported", "chargeable", "per_piece",
            "impossible", "date_order", "weekday"} : f # Null
BY WordsAreThere DEF Notes

LEMMA InvalidObeys ==
  ASSUME NEW f \in Fields, NEW note, note # Null
  PROVE  ObeysContract(f, Invalid(note)) /\ ~IsStated(Invalid(note))
BY ExtractionValues DEF ObeysContract, IsWellTyped, Invalid, Cell, IsStated

LEMMA AmbiguousObeys ==
  ASSUME NEW f \in Fields, NEW note, note # Null
  PROVE  ObeysContract(f, Ambiguous(note)) /\ ~IsStated(Ambiguous(note))
BY ExtractionValues DEF ObeysContract, IsWellTyped, Ambiguous, Cell, IsStated

\* A value that is not read keeps to the contract, its unit dropped.
LEMMA UnreadObeys ==
  ASSUME NEW f \in Fields, NEW g \in Fields, NEW cell,
         cell = Cell(cell.status, cell.value, cell.unit, cell.note),
         IsSound(f, cell), ~IsStated(cell)
  PROVE  /\ ~IsStated([cell EXCEPT !.unit = Absent])
         /\ ObeysContract(g, [cell EXCEPT !.unit = Absent])
         /\ cell.unit = Absent => ObeysContract(g, cell)
BY ExtractionValues DEF ObeysContract, IsWellTyped, Cell, IsStated, IsSound

\* The weight looks at the weight and the pieces of a report only.
LEMMA WeightOfMoved ==
  ASSUME NEW l, NEW c, IsReport(c)
  PROVE  NormaliseWeight(l, MoveCargoType(c)) = NormaliseWeight(l, c)
<1> DEFINE m == MoveCargoType(c)
<1>1. m.weight = c.weight /\ m.pcs = c.pcs
  BY Moved
<1> HIDE DEF m
<1>2. WeightProblem(l, m) = WeightProblem(l, c)
  BY <1>1 DEF WeightProblem, PiecesStated
<1>3. WeightInKg(l, m) = WeightInKg(l, c)
  BY <1>1 DEF WeightInKg
<1>4. NormaliseWeight(l, m) = NormaliseWeight(l, c)
  BY <1>1, <1>2, <1>3 DEF NormaliseWeight
<1> QED BY <1>4 DEF m

\* A weight that is read is converted, taken as it is, or asked about.
LEMMA WeightRead ==
  ASSUME NEW l, NEW c, IsLetter(l), IsContent(l, c), Read(c.weight),
         NEW w, w = NormaliseWeight(l, c)
  PROVE  \/ /\ c.weight.unit # Absent /\ WeightProblem(l, c) # "none"
            /\ \E f \in Notes.INVALID : w = Invalid(f)
         \/ /\ c.weight.unit # Absent => WeightProblem(l, c) = "none"
            /\ IsStated(w) /\ w.unit = Absent /\ w.value \in Int
            /\ OnlyReading(l, w.value)
<1>1. c.weight = Cell("STATED", c.weight.value, c.weight.unit, c.weight.note) /\ IsNumber(c.weight.value)
  BY DEF IsContent, IsReport, Fields, Read, IsStated
<1>2. CASE c.weight.unit = Absent
  <2>1. w = [c.weight EXCEPT !.unit = Absent]
    BY <1>2 DEF NormaliseWeight
  <2>2. IsStated(w) /\ w.unit = Absent /\ w.value = c.weight.value
    BY <1>1, <2>1 DEF Cell, IsStated
  <2>3. w.value \in Int /\ Weighs(l) = {<<w.value, "kg">>}
    <3>1. WeightAsWritten(l, c.weight) /\ l.weight.unit # Absent
      BY DEF IsContent, IsLetter, IsWeightPhrase
    <3>2. Absent \notin DOMAIN ThousandWeightUnit
      BY ExtractionValues DEF Words, ThousandWeightUnit
    <3> QED BY <1>2, <2>2, <3>1, <3>2 DEF WeightAsWritten
  <2>4. OnlyReading(l, w.value)
    BY <2>3 DEF Covers, KgPer, OnlyReading
  <2> QED BY <1>2, <2>2, <2>3, <2>4
<1>3. CASE c.weight.unit # Absent /\ WeightProblem(l, c) = "none"
  <2>1. w = Converted(WeightInKg(l, c))
    BY <1>1, <1>3 DEF NormaliseWeight, Read
  <2>2. IsStated(w) /\ w.unit = Absent /\ w.value = WeightInKg(l, c)
    BY <2>1 DEF Converted, Cell, IsStated
  <2>3. w.value \in Int /\ OnlyReading(l, w.value)
    BY <1>3, <2>2, WeightTaken
  <2> QED BY <1>3, <2>2, <2>3
<1>4. CASE c.weight.unit # Absent /\ WeightProblem(l, c) # "none"
  <2>1. w = Invalid(WeightProblem(l, c))
    BY <1>1, <1>4 DEF NormaliseWeight, Read
  <2>2. WeightProblem(l, c) \in Notes.INVALID
    BY <1>4 DEF WeightProblem, UnitNote, Notes
  <2> QED BY <1>4, <2>1, <2>2
<1> QED BY <1>2, <1>3, <1>4

\* A sound report is never rejected, whatever of it cannot be used.
LEMMA SoundObeys ==
  ASSUME NEW l, NEW c, IsLetter(l), IsContent(l, c), \A f \in Fields : IsSound(f, c[f])
  PROVE  \A f \in Fields : ObeysContract(f, Normalised(l, c)[f])
<1> DEFINE n == Normalised(l, c)
           w == NormaliseWeight(l, c)
           d == NormaliseDimensions(c.dims)
<1>1. /\ n.weight = Checked(w, IsNonpositive(w.value))
      /\ n.pcs = Checked(c.pcs, IsNonpositive(c.pcs.value))
      /\ n.dims = Checked(d, ImpossibleSides(d.value))
      /\ n.date = FlaggedDate(l.date, c.date)
      /\ n.commodity \in {c.commodity, NotStated}
      /\ n.cargo \in {c.cargo, c.commodity}
  BY NormalisedFields, WeightOfMoved DEF IsContent, FlaggedDate
<1>2. \A f \in Fields : c[f] = Cell(c[f].status, c[f].value, c[f].unit, c[f].note)
  BY DEF IsContent, IsReport
<1>3. \A f \in Fields : IsStated(c[f]) => Read(c[f])
  BY DEF IsSound, Read, IsNumber
<1> HIDE DEF n
<1>4. ObeysContract("weight", n.weight)
  <2>1. CASE IsStated(c.weight)
    <3>1. Read(c.weight)
      BY <1>3, <2>1 DEF Fields
    <3>2. CASE \E f \in Notes.INVALID : w = Invalid(f)
      <4>1. PICK f \in Notes.INVALID : w = Invalid(f)
        BY <3>2
      <4>2. f # Null
        BY <4>1, WordsAreThere
      <4>3. n.weight = w
        BY <1>1, <4>1, <4>2, InvalidObeys DEF Checked, Fields
      <4> QED BY <4>1, <4>2, <4>3, InvalidObeys DEF Fields
    <3>3. CASE IsStated(w) /\ w.unit = Absent /\ w.value \in Int
      <4>1. w.value \notin {Null, Garbage}
        BY <3>3, ExtractionValues
      <4>2. CASE IsNonpositive(w.value)
        BY <1>1, <3>3, <4>2, InvalidObeys, NotesAreThere DEF Checked, Fields
      <4>3. CASE ~IsNonpositive(w.value)
        <5>1. n.weight = w
          BY <1>1, <4>3 DEF Checked
        <5> QED BY <3>3, <4>1, <4>3, <5>1 DEF ObeysContract, IsWellTyped, IsPossible, IsStated
      <4> QED BY <4>2, <4>3
    <3> QED BY <3>1, <3>2, <3>3, WeightRead
  <2>2. CASE ~IsStated(c.weight)
    <3>1. w = [c.weight EXCEPT !.unit = Absent]
      BY <2>2 DEF NormaliseWeight
    <3>2. ~IsStated(w) /\ ObeysContract("weight", w)
      BY <1>2, <2>2, <3>1, UnreadObeys DEF Fields
    <3> QED BY <1>1, <3>2 DEF Checked
  <2> QED BY <2>1, <2>2
<1>5. ObeysContract("pcs", n.pcs)
  <2>1. IsSound("pcs", c.pcs)
    BY DEF Fields
  <2>2. CASE IsStated(c.pcs) /\ IsNonpositive(c.pcs.value)
    BY <1>1, <2>2, InvalidObeys, NotesAreThere DEF Checked, Fields
  <2>3. CASE ~ (IsStated(c.pcs) /\ IsNonpositive(c.pcs.value))
    <3>1. n.pcs = c.pcs
      BY <1>1, <2>3 DEF Checked
    <3> QED BY <2>1, <2>3, <3>1 DEF IsSound, ObeysContract, IsWellTyped, IsPossible
  <2> QED BY <2>2, <2>3
<1>6. ObeysContract("dims", n.dims)
  <2>1. CASE IsStated(c.dims)
    <3>1. Read(c.dims)
      BY <1>3, <2>1 DEF Fields
    <3>2. \A i \in Sides : IsNumberSide(c.dims.value[i]) \/ IsString(c.dims.value[i])
      <4>1. \A i \in Sides : c.dims.value[i][1] # "null"
        BY <2>1 DEF IsSound, Fields
      <4> QED BY <3>1, <4>1 DEF IsContent, SidesAsWritten, IsLetter, IsSide, IsNumberSide, IsString
    <3>3. CASE d \in {Invalid("unit_unsupported"), Invalid("unit_missing")}
      <4>1. n.dims = d
        BY <1>1, <3>3, InvalidObeys, NotesAreThere DEF Checked, Fields
      <4> QED BY <3>3, <4>1, InvalidObeys, NotesAreThere DEF Fields
    <3>4. CASE /\ IsStated(d) /\ d.unit = Absent /\ d.value \notin {Null, Garbage}
               /\ \A i \in Sides : IsNumberSide(d.value[i])
      <4>1. CASE ImpossibleSides(d.value)
        BY <1>1, <3>4, <4>1, InvalidObeys, NotesAreThere DEF Checked, Fields
      <4>2. CASE ~ImpossibleSides(d.value)
        <5>1. n.dims = d
          BY <1>1, <4>2 DEF Checked
        <5> QED BY <3>4, <4>2, <5>1 DEF ObeysContract, IsWellTyped, IsPossible, IsStated
      <4> QED BY <4>1, <4>2
    <3> QED BY <3>1, <3>2, <3>3, <3>4, SidesTaken
  <2>2. CASE ~IsStated(c.dims)
    <3>1. d = [c.dims EXCEPT !.unit = Absent]
      BY <2>2 DEF NormaliseDimensions
    <3>2. ~IsStated(d) /\ ObeysContract("dims", d)
      BY <1>2, <2>2, <3>1, UnreadObeys DEF Fields
    <3> QED BY <1>1, <3>2 DEF Checked
  <2> QED BY <2>1, <2>2
<1>7. ObeysContract("date", n.date)
  <2>1. IsSound("date", c.date)
    BY DEF Fields
  <2>2. ObeysContract("date", c.date)
    BY <2>1 DEF IsSound, ObeysContract, IsWellTyped, IsPossible
  <2>3. CASE IsStated(c.date)
    <3>1. Read(c.date)
      BY <1>3, <2>3 DEF Fields
    <3>2. n.date = c.date \/ n.date \in {Ambiguous("date_order"), Ambiguous("weekday")}
      BY <1>1, <3>1, DateTaken
    <3> QED BY <2>2, <3>2, AmbiguousObeys, NotesAreThere DEF Fields
  <2>4. CASE ~IsStated(c.date)
    <3>1. FlagAmbiguousDayMonth(l.date, c.date) \in {c.date, [c.date EXCEPT !.note = "date_order"]}
      BY <2>4 DEF FlagAmbiguousDayMonth
    <3>2. PICK e : e = FlagAmbiguousDayMonth(l.date, c.date)
      OBVIOUS
    <3>3. c.date = Cell(c.date.status, c.date.value, c.date.unit, c.date.note)
      BY <1>2 DEF Fields
    <3>4. ~IsStated(e) /\ ObeysContract("date", e)
      BY <2>2, <2>4, <3>1, <3>2, <3>3, NotesAreThere DEF Cell, IsStated, ObeysContract, IsWellTyped, IsPossible
    <3>5. n.date = e
      BY <1>1, <3>2, <3>4 DEF FlaggedDate, FlagWeekdayMismatch
    <3> QED BY <3>4, <3>5
  <2> QED BY <2>3, <2>4
<1>8. ObeysContract("commodity", n.commodity) /\ ObeysContract("cargo", n.cargo)
  <2>1. IsSound("commodity", c.commodity) /\ IsSound("cargo", c.cargo)
    BY DEF Fields
  <2>2. /\ ObeysContract("commodity", c.commodity) /\ ObeysContract("cargo", c.commodity)
        /\ ObeysContract("cargo", c.cargo)
    BY <2>1 DEF IsSound, ObeysContract, IsWellTyped, IsPossible
  <2>3. ObeysContract("commodity", NotStated)
    BY ExtractionValues DEF NotStated, Cell, ObeysContract, IsWellTyped, IsStated
  <2> QED BY <1>1, <2>2, <2>3
<1> QED BY <1>4, <1>5, <1>6, <1>7, <1>8 DEF n, Fields

-----------------------------------------------------------------------------
(* What enters the record                                                  *)

\* A side that is neither figure nor text ends a conversion.
LEMMA OddSideRefused ==
  ASSUME NEW l, NEW c, IsLetter(l), IsContent(l, c), Read(c.dims),
         NEW j \in Sides, ~IsNumberSide(c.dims.value[j]), ~IsString(c.dims.value[j])
  PROVE  LET d == NormaliseDimensions(c.dims)
         IN  ~IsStated(d) \/ ~ObeysContract("dims", d)
<1> DEFINE sides == c.dims.value
           raw == c.dims.unit
           d == NormaliseDimensions(c.dims)
<1>1. c.dims = Cell("STATED", sides, raw, c.dims.note) /\ sides \notin {Null, Garbage}
  BY DEF IsContent, IsReport, Fields, Read, IsStated, IsNumber
<1>2. raw # Absent
  BY DEF IsContent, SidesAsWritten, IsLetter
<1>3. CASE raw = "ft-in" \/ \E i \in Sides : IsString(sides[i])
  <2> DEFINE inches == [i \in Sides |-> ConvertSide(sides[i], raw)]
  <2>1. ConvertSide(sides[j], raw) = Null
    BY DEF ConvertSide
  <2>2. inches[j] = Null
    BY <2>1
  <2>3. d = Invalid("unit_unsupported")
    BY <1>1, <1>2, <1>3, <2>2 DEF NormaliseDimensions, ConvertFeetInches, Read
  <2> QED BY <2>3, NotesAreThere, InvalidObeys DEF Fields
<1>4. CASE ~ (raw = "ft-in" \/ \E i \in Sides : IsString(sides[i]))
  <2>1. d = [c.dims EXCEPT !.unit = Absent]
    BY <1>1, <1>2, <1>4 DEF NormaliseDimensions, Read
  <2>2. d.value = sides
    BY <1>1, <2>1 DEF Cell
  <2> QED BY <1>1, <2>2 DEF ObeysContract, IsWellTyped
<1> QED BY <1>3, <1>4

LEMMA WeightIsTheClients ==
  ASSUME NEW l, NEW c, IsLetter(l), IsContent(l, c),
         ObeysContract("weight", Normalised(l, c).weight), IsStated(Normalised(l, c).weight)
  PROVE  \E m \in Weighs(l) :
            Weighs(l) = {m} /\ Covers(Normalised(l, c).weight.value, m, KgPer)
<1>0. PICK w : w = NormaliseWeight(l, c)
  OBVIOUS
<1>1. Normalised(l, c).weight = Checked(w, IsNonpositive(w.value))
  BY <1>0, NormalisedFields, WeightOfMoved DEF IsContent
<1>2. Normalised(l, c).weight = w
  BY <1>1, InvalidObeys, NotesAreThere DEF Checked, Fields
<1>3. Read(c.weight)
  <2> SUFFICES ASSUME ~Read(c.weight) PROVE FALSE
    OBVIOUS
  <2>1. w = [c.weight EXCEPT !.unit = Absent]
    BY <1>0 DEF NormaliseWeight, Read
  <2>2. c.weight = Cell(c.weight.status, c.weight.value, c.weight.unit, c.weight.note)
    BY DEF IsContent, IsReport, Fields
  <2>3. w.status = c.weight.status /\ w.value = c.weight.value
    BY <2>1, <2>2 DEF Cell
  <2> QED BY <1>2, <2>3 DEF ObeysContract, IsWellTyped, IsStated, Read, IsNumber
<1>4. \A f \in Notes.INVALID : w # Invalid(f)
  BY <1>2 DEF Invalid, Cell, IsStated
<1>5. OnlyReading(l, w.value)
  BY <1>0, <1>3, <1>4, WeightRead
<1> QED BY <1>2, <1>5 DEF OnlyReading

LEMMA SidesAreTheClients ==
  ASSUME NEW l, NEW c, IsLetter(l), IsContent(l, c),
         ObeysContract("dims", Normalised(l, c).dims), IsStated(Normalised(l, c).dims)
  PROVE  \A i \in Sides :
            \E m \in SideMeasures(l.sides[i], l.unit) :
               /\ SideMeasures(l.sides[i], l.unit) = {m}
               /\ Covers(Normalised(l, c).dims.value[i][2], m, InchesPer)
<1> DEFINE d == NormaliseDimensions(c.dims)
<1>1. Normalised(l, c).dims = Checked(d, ImpossibleSides(d.value))
  BY NormalisedFields DEF IsContent
<1>2. Normalised(l, c).dims = d
  BY <1>1, InvalidObeys, NotesAreThere DEF Checked, Fields
<1>3. Read(c.dims)
  <2> SUFFICES ASSUME ~Read(c.dims) PROVE FALSE
    OBVIOUS
  <2>1. d = [c.dims EXCEPT !.unit = Absent]
    BY DEF NormaliseDimensions, Read
  <2>2. c.dims = Cell(c.dims.status, c.dims.value, c.dims.unit, c.dims.note)
    BY DEF IsContent, IsReport, Fields
  <2>3. d.status = c.dims.status /\ d.value = c.dims.value
    BY <2>1, <2>2 DEF Cell
  <2> QED BY <1>2, <2>3 DEF ObeysContract, IsWellTyped, IsStated, Read, IsNumber
<1>4. \A i \in Sides : IsNumberSide(c.dims.value[i]) \/ IsString(c.dims.value[i])
  BY <1>2, <1>3, OddSideRefused
<1>5. d \notin {Invalid("unit_unsupported"), Invalid("unit_missing")}
  BY <1>2 DEF Invalid, Cell, IsStated
<1> HIDE DEF d
<1>6. \A i \in Sides : \E m \in SideMeasures(l.sides[i], l.unit) :
         SideMeasures(l.sides[i], l.unit) = {m} /\ Covers(d.value[i][2], m, InchesPer)
  BY <1>3, <1>4, <1>5, SidesTaken DEF d
<1> QED BY <1>2, <1>6

LEMMA DateIsTheClients ==
  ASSUME NEW l, NEW c, IsLetter(l), IsContent(l, c),
         ObeysContract("date", Normalised(l, c).date), IsStated(Normalised(l, c).date)
  PROVE  DateMeans(l.date) = {Normalised(l, c).date.value}
<1> DEFINE e == FlagAmbiguousDayMonth(l.date, c.date)
           d == FlaggedDate(l.date, c.date)
<1>1. Normalised(l, c).date = d
  BY NormalisedFields DEF IsContent, FlaggedDate
<1>2. d = e /\ IsStated(e)
  BY <1>1 DEF FlaggedDate, FlagWeekdayMismatch, Ambiguous, Cell, IsStated
<1>3. c.date = Cell(c.date.status, c.date.value, c.date.unit, c.date.note)
  BY DEF IsContent, IsReport, Fields
<1>4. e = c.date
  BY <1>2, <1>3 DEF FlagAmbiguousDayMonth, Ambiguous, Cell, IsStated
<1>5. Read(c.date)
  BY <1>1, <1>2, <1>4 DEF ObeysContract, IsWellTyped, Read, IsNumber
<1> QED BY <1>1, <1>2, <1>5, DateTaken

-----------------------------------------------------------------------------
(* The questions                                                           *)

LEMMA QuestionAbout ==
  /\ \A cell : IsStated(cell) => Question(cell) = "none"
  /\ \A note : Question(Invalid(note)) # "none" /\ Question(Ambiguous(note)) # "none"
<1>1. ASSUME NEW cell, IsStated(cell) PROVE Question(cell) = "none"
  BY <1>1 DEF Question, IsStated, Notes
<1>2. ASSUME NEW note PROVE Question(Invalid(note)) # "none"
  <2>1. Invalid(note).status = "INVALID" /\ Invalid(note).note = note
    BY DEF Invalid, Cell
  <2> QED BY <2>1 DEF Question, Notes
<1>3. ASSUME NEW note PROVE Question(Ambiguous(note)) # "none"
  <2>1. Ambiguous(note).status = "AMBIGUOUS" /\ Ambiguous(note).note = note
    BY DEF Ambiguous, Cell
  <2> QED BY <2>1 DEF Question, Notes
<1> QED BY <1>1, <1>2, <1>3

LEMMA WeightAskedAbout ==
  ASSUME NEW l, NEW c, IsLetter(l), IsContent(l, c), \A f \in Fields : IsSound(f, c[f]),
         IsStated(c.weight), c.weight.unit # Absent
  PROVE  Question(Normalised(l, c).weight) = "none"
            <=> \E m \in Weighs(l) : Weighs(l) = {m} /\ m[1] > 0
<1>0. PICK w : w = NormaliseWeight(l, c)
  OBVIOUS
<1> DEFINE n == Normalised(l, c)
<1>1. n.weight = Checked(w, IsNonpositive(w.value))
  BY <1>0, NormalisedFields, WeightOfMoved DEF IsContent
<1>2. Read(c.weight) /\ (IsStated(c.pcs) => IsNumber(c.pcs.value))
  BY DEF IsSound, Read, IsNumber, Fields
<1> HIDE DEF n
<1>3. CASE WeightProblem(l, c) # "none"
  <2>1. PICK f \in Notes.INVALID : w = Invalid(f)
    BY <1>0, <1>2, <1>3, WeightRead
  <2>2. n.weight = Invalid(f)
    BY <1>1, <2>1, InvalidObeys, WordsAreThere DEF Checked, Fields
  <2>3. Question(n.weight) # "none"
    BY <2>2, QuestionAbout
  <2>4. \A m \in Weighs(l) : Weighs(l) = {m} => ~ (m[1] > 0)
    BY <1>2, <1>3, WeightAsked
  <2> QED BY <2>3, <2>4 DEF n
<1>4. CASE WeightProblem(l, c) = "none"
  <2>1. IsStated(w) /\ w.value \in Int
    BY <1>0, <1>2, <1>4, WeightRead
  <2>2. PICK m \in Weighs(l) : Weighs(l) = {m} /\ (w.value > 0 <=> m[1] > 0)
    <3>1. OnlyReading(l, w.value)
      BY <1>0, <1>2, <1>4, WeightRead
    <3> QED BY <3>1 DEF OnlyReading
  <2>3. IsNonpositive(w.value) <=> ~ (w.value > 0)
    BY <2>1, ExtractionValues DEF IsNonpositive, IsNumber
  <2>4. Question(n.weight) = "none" <=> w.value > 0
    BY <1>1, <2>1, <2>3, QuestionAbout DEF Checked
  <2> QED BY <2>2, <2>4 DEF n
<1> QED BY <1>3, <1>4

LEMMA DateAskedAbout ==
  ASSUME NEW l, NEW c, IsLetter(l), IsContent(l, c), \A f \in Fields : IsSound(f, c[f]),
         IsStated(c.date)
  PROVE  Question(Normalised(l, c).date) = "none"
            <=> /\ ~EitherWay(l.date)
                /\ l.date.falls \in {Null, l.date.means} \/ ~ (l.date.numeric \/ l.date.year)
<1> DEFINE d == FlaggedDate(l.date, c.date)
<1>1. Normalised(l, c).date = d
  BY NormalisedFields DEF IsContent, FlaggedDate
<1>2. Read(c.date)
  BY DEF IsSound, Read, IsNumber, Fields
<1>3. Question(d) = "none" <=> IsStated(d)
  BY <1>2, DateTaken, QuestionAbout DEF Read
<1> QED BY <1>1, <1>2, <1>3, DateTaken

-----------------------------------------------------------------------------
(* The invariant                                                           *)

\* The reply is the letter's, the result is what is made of it, and the questions
\* are the result's.
IInv ==
    /\ letter \in Letters
    /\ body # Null => body \in Replies(letter)
    /\ result # Null => body # Null /\ result = Parsed(letter, body)
    /\ asked # NothingAsked =>
         result \notin {Null, Garbage} /\ asked = [f \in Fields |-> Question(result[f])]

LEMMA InitHolds == Init => IInv
BY DEF Init, IInv

LEMMA StepHolds == IInv /\ [Next]_vars => IInv'
<1> SUFFICES ASSUME IInv, [Next]_vars PROVE IInv'
  OBVIOUS
<1> USE DEF IInv
<1>1. CASE PostChatCompletion
  BY <1>1 DEF PostChatCompletion
<1>2. CASE ExtractShipment
  BY <1>2 DEF ExtractShipment
<1>3. CASE ComposeClarification
  BY <1>3 DEF ComposeClarification
<1>4. CASE UNCHANGED vars
  BY <1>4 DEF vars
<1> QED BY <1>1, <1>2, <1>3, <1>4 DEF Next

LEMMA Invariance == Spec => []IInv
BY InitHolds, StepHolds, PTL DEF Spec

\* What a reply with a report in it is, and what is made of it.
LEMMA ParsedReport ==
  ASSUME LettersAreTyped, ReportsAreTheLetters, NEW l \in Letters, NEW b \in Replies(l),
         ContentOf(b) \notin {Null, Garbage}
  PROVE  LET c == ContentOf(b)
             n == Normalised(l, c)
         IN  /\ IsLetter(l) /\ IsContent(l, c) /\ n \notin {Null, Garbage}
             /\ Parsed(l, b) # Garbage
                   => Parsed(l, b) = n /\ \A f \in Fields : ObeysContract(f, n[f])
             /\ (\A f \in Fields : ObeysContract(f, n[f])) => Parsed(l, b) = n
<1> DEFINE c == ContentOf(b)
<1>1. IsLetter(l)
  BY DEF LettersAreTyped, IsLetter
<1>2. IsContent(l, c)
  BY DEF ReportsAreTheLetters, IsContent
<1>3. Normalised(l, c) \notin {Null, Garbage}
  BY <1>2 DEF IsContent
<1>4. Parsed(l, b) = IF \A f \in Fields : ObeysContract(f, Normalised(l, c)[f])
                     THEN Normalised(l, c) ELSE Garbage
  BY DEF Parsed
<1> QED BY <1>1, <1>2, <1>3, <1>4

(* For any letters and any reports that quote them: a weight, a side or a  *)
(* date that enters the record is what the letter says by its only         *)
(* reading, rounded up by less than a tenth.                               *)
THEOREM OnlyReadingIsTaken ==
  ASSUME LettersAreTyped, ReportsAreTheLetters
  PROVE  Spec => []MeasuresAreTheClients
<1>1. IInv => MeasuresAreTheClients
  <2> SUFFICES ASSUME IInv, Accepted PROVE MeasuresAreTheClients
    BY DEF MeasuresAreTheClients
  <2> DEFINE c == ContentOf(body)
  <2>1. letter \in Letters /\ body \in Replies(letter) /\ result = Parsed(letter, body) /\ result # Garbage
    BY DEF IInv, Accepted
  <2>2. c \notin {Null, Garbage}
    BY <2>1 DEF Parsed
  <2>3. /\ IsLetter(letter) /\ IsContent(letter, c) /\ result = Normalised(letter, c)
        /\ \A f \in Fields : ObeysContract(f, result[f])
    BY <2>1, <2>2, ParsedReport
  <2>4. ObeysContract("weight", result.weight) /\ ObeysContract("dims", result.dims)
        /\ ObeysContract("date", result.date)
    BY <2>3 DEF Fields
  <2> HIDE DEF c
  <2>5. IsStated(result.weight) =>
           \E m \in Weighs(letter) : Weighs(letter) = {m} /\ Covers(result.weight.value, m, KgPer)
    BY <2>3, <2>4, WeightIsTheClients
  <2>6. IsStated(result.dims) => \A i \in Sides :
           \E m \in SideMeasures(letter.sides[i], letter.unit) :
              /\ SideMeasures(letter.sides[i], letter.unit) = {m}
              /\ Covers(result.dims.value[i][2], m, InchesPer)
    BY <2>3, <2>4, SidesAreTheClients
  <2>7. IsStated(result.date) => DateMeans(letter.date) = {result.date.value}
    BY <2>3, <2>4, DateIsTheClients
  <2> QED BY <2>5, <2>6, <2>7 DEF MeasuresAreTheClients
<1> QED BY <1>1, Invariance, PTL

(* Likewise: a sound report is never rejected, and its weight and its date *)
(* are asked about exactly when they are not one possible reading.         *)
THEOREM CorrectableAsked ==
  ASSUME LettersAreTyped, ReportsAreTheLetters
  PROVE  Spec => []CorrectableIsAsked
<1>1. IInv => CorrectableIsAsked
  <2> DEFINE c == ContentOf(body)
             said == asked # NothingAsked
  <2> SUFFICES ASSUME IInv, body # Null, c \notin {Null, Garbage}, \A f \in Fields : IsSound(f, c[f])
               PROVE  /\ result # Garbage
                      /\ said /\ IsStated(c.weight) /\ c.weight.unit # Absent =>
                           (asked["weight"] = "none" <=>
                              \E m \in Weighs(letter) : Weighs(letter) = {m} /\ m[1] > 0)
                      /\ said /\ IsStated(c.date) =>
                           (asked["date"] = "none" <=>
                              /\ ~EitherWay(letter.date)
                              /\ letter.date.falls \in {Null, letter.date.means}
                                   \/ ~(letter.date.numeric \/ letter.date.year))
    BY DEF CorrectableIsAsked
  <2>1. letter \in Letters /\ body \in Replies(letter)
    BY DEF IInv
  <2>2. /\ IsLetter(letter) /\ IsContent(letter, c) /\ Normalised(letter, c) # Garbage
        /\ (\A f \in Fields : ObeysContract(f, Normalised(letter, c)[f]))
              => Parsed(letter, body) = Normalised(letter, c)
    BY <2>1, ParsedReport
  <2> HIDE DEF c
  <2>3. Parsed(letter, body) = Normalised(letter, c)
    BY <2>2, SoundObeys
  <2>4. result # Garbage
    BY <2>2, <2>3, ExtractionValues DEF IInv
  <2>5. said => /\ asked["weight"] = Question(Normalised(letter, c).weight)
                /\ asked["date"] = Question(Normalised(letter, c).date)
    <3>1. SUFFICES ASSUME said PROVE /\ asked["weight"] = Question(Normalised(letter, c).weight)
                                     /\ asked["date"] = Question(Normalised(letter, c).date)
      OBVIOUS
    <3>2. result = Normalised(letter, c) /\ asked = [f \in Fields |-> Question(result[f])]
      BY <2>3, <3>1 DEF IInv
    <3>3. "weight" \in Fields /\ "date" \in Fields
      BY DEF Fields
    <3> QED BY <3>2, <3>3
  <2>6. IsStated(c.weight) /\ c.weight.unit # Absent =>
           (Question(Normalised(letter, c).weight) = "none" <=>
              \E m \in Weighs(letter) : Weighs(letter) = {m} /\ m[1] > 0)
    BY <2>2, WeightAskedAbout
  <2>7. IsStated(c.date) =>
           (Question(Normalised(letter, c).date) = "none" <=>
              /\ ~EitherWay(letter.date)
              /\ letter.date.falls \in {Null, letter.date.means}
                   \/ ~(letter.date.numeric \/ letter.date.year))
    BY <2>2, DateAskedAbout
  <2> HIDE DEF said
  <2> QED BY <2>4, <2>5, <2>6, <2>7
<1> QED BY <1>1, Invariance, PTL

=============================================================================

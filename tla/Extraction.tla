----------------------------- MODULE Extraction -----------------------------
(***************************************************************************)
(* From the words of a client's letter to the measures in a shipment       *)
(* record: what the language model reports, what the adapter converts or   *)
(* refuses, the contract that accepts or rejects the whole report, the     *)
(* question asked about a field that could not be used, and the client's   *)
(* answer to it.                                                           *)
(*                                                                         *)
(* A written number, a weight in kilograms and a length in inches are in   *)
(* tenths.  A letter is what its evidence quotes say, so the patterns the  *)
(* code looks for in them are fields of the letter.                        *)
(***************************************************************************)
EXTENDS Integers

CONSTANTS
    Letters,        \* the letters a client may write first
    Replies(_),     \* what the model's service may answer about a letter
    Null,           \* JSON's null; nothing yet
    Absent,         \* a key that is not there
    Garbage         \* a value of the wrong type; a reply nothing is read from

VARIABLES
    letter,    \* the letter being read
    body,      \* what the model's service answered
    result,    \* the ExtractionResult; Garbage for a ContractViolation
    asked      \* the questions of the clarification, by field

vars == <<letter, body, result, asked>>

Fields == {"weight", "pcs", "dims", "date", "commodity", "cargo"}
Sides == 1 .. 3

(***************************************************************************)
(* Numbers and units                                                       *)
(***************************************************************************)

(* _round_up: up to a tenth.                                               *)
RoundUp(num, den) == (num + den - 1) \div den

(* One written unit in kilograms, or inches, as a fraction.  The pound is  *)
(* 0.45359237 kg in the code; five digits tell the same tenths here.       *)
KgPer == [kg |-> <<1, 1>>, g |-> <<1, 1000>>, lb |-> <<45359, 100000>>, t |-> <<1000, 1>>]
InchesPer == [in |-> <<1, 1>>, cm |-> <<100, 254>>, mm |-> <<10, 254>>,
              m |-> <<10000, 254>>, ft |-> <<12, 1>>]

ToKg(n, unit) == RoundUp(n * KgPer[unit][1], KgPer[unit][2])
ToInches(n, unit) == RoundUp(n * InchesPer[unit][1], InchesPer[unit][2])

(* Each piece is converted, and rounded up, before they are added.         *)
MutTimesPieces(n, unit, count) == ToKg(n, unit) * count

TimesPieces(n, unit, count) == ToKg(n * count, unit)

(* "k kg" and "k lb" name a thousand of a unit; "kg" does not.             *)
ThousandWeightUnit == [kkg |-> "kg", klb |-> "lb"]

WeightUnit(raw) ==
    IF raw \in DOMAIN KgPer THEN raw
    ELSE IF raw \in DOMAIN ThousandWeightUnit THEN ThousandWeightUnit[raw] ELSE Null

LengthUnit(raw) == IF raw \in DOMAIN InchesPer THEN raw ELSE Null

IsNumber(v) == v \notin {Null, Garbage}

(***************************************************************************)
(* What the evidence says                                                  *)
(***************************************************************************)

IsPerPiece(w) == "each" \in w.words /\ "total" \notin w.words
IsChargeableOnly(w) == "chargeable" \in w.words /\ "gross" \notin w.words
DotThousandsIn(w, value) == w.dots /\ w.number = value
KiloSuffixIn(w, value) == w.kilo /\ w.unit \in {"kg", "lb"} /\ w.number = value

(* Both readings of a date whose day and month are two small numbers.      *)
EitherWay(d) == d.numeric /\ d.first <= 12 /\ d.second <= 12 /\ d.first # d.second
DayFirst(d) == <<d.first, d.second>>
MonthFirst(d) == <<d.second, d.first>>

(***************************************************************************)
(* Cells                                                                   *)
(***************************************************************************)

Cell(status, value, unit, note) ==
    [status |-> status, value |-> value, unit |-> unit, note |-> note]

Invalid(note) == Cell("INVALID", Null, Absent, note)
Ambiguous(note) == Cell("AMBIGUOUS", Null, Absent, note)
NotStated == Cell("NOT_STATED", Null, Absent, Null)
IsStated(cell) == cell.status = "STATED"
Converted(value) == Cell("STATED", value, Absent, Null)

UnitNote(raw) == IF raw = Null THEN "unit_missing" ELSE "unit_unsupported"

(***************************************************************************)
(* _normalise_units                                                        *)
(***************************************************************************)

PiecesStated(report) ==
    /\ IsStated(report.pcs)
    /\ IsNumber(report.pcs.value)
    /\ report.pcs.value > 0

(* The first reason why a stated weight cannot be converted.               *)
WeightProblem(l, report) ==
    LET w == report.weight
        known == WeightUnit(w.unit) # Null
    IN  IF DotThousandsIn(l.weight, w.value) THEN "separator"
        ELSE IF ~known THEN UnitNote(w.unit)
        ELSE IF IsChargeableOnly(l.weight) THEN "chargeable"
        ELSE IF IsPerPiece(l.weight) /\ ~PiecesStated(report) THEN "per_piece"
        ELSE "none"

FullWeight(l, w) ==
    IF w.unit \in DOMAIN ThousandWeightUnit \/ KiloSuffixIn(l.weight, w.value)
    THEN 1000 * w.value ELSE w.value

WeightInKg(l, report) ==
    LET n == FullWeight(l, report.weight)
        unit == WeightUnit(report.weight.unit)
    IN  IF IsPerPiece(l.weight) THEN TimesPieces(n, unit, report.pcs.value) ELSE ToKg(n, unit)

NormaliseWeight(l, report) ==
    LET w == report.weight
    IN  IF ~IsStated(w) \/ w.unit = Absent \/ ~IsNumber(w.value)
        THEN [w EXCEPT !.unit = Absent]
        ELSE IF WeightProblem(l, report) = "none" THEN Converted(WeightInKg(l, report))
        ELSE Invalid(WeightProblem(l, report))

(* A side is <<"number", n>>, <<"text", n, its own unit or Null>>,         *)
(* <<"compound", feet, inches>> or <<"junk">>; the last three are strings. *)
IsNumberSide(side) == side[1] = "number"
IsString(side) == side[1] \in {"text", "compound", "junk"}

ParseFeetInches(side) ==
    IF side[1] = "text" /\ side[3] \in {"in", "ft"} /\ side[2] > 0
    THEN side[2] * InchesPer[side[3]][1]
    ELSE IF side[1] = "compound" /\ side[3] < 120 /\ 12 * side[2] + side[3] > 0
    THEN 12 * side[2] + side[3] ELSE Null

ParseSide(side, unit) ==
    IF side[1] = "text" /\ side[3] \in {Null, unit} /\ side[2] > 0
    THEN ToInches(side[2], unit) ELSE Null

(* One side when some side is text, or the unit is feet and inches.        *)
ConvertSide(side, raw) ==
    IF IsString(side)
    THEN IF LengthUnit(raw) # Null THEN ParseSide(side, raw) ELSE ParseFeetInches(side)
    ELSE IF ~IsNumberSide(side) \/ side[2] <= 0 THEN Null
    ELSE IF LengthUnit(raw) # Null THEN ToInches(side[2], raw)
    ELSE IF raw = "ft-in" THEN 12 * side[2] ELSE Null

ConvertFeetInches(sides, raw) ==
    LET inches == [i \in Sides |-> ConvertSide(sides[i], raw)]
    IN  IF \E i \in Sides : inches[i] = Null THEN Invalid("unit_unsupported")
        ELSE Converted([i \in Sides |-> <<"number", inches[i]>>])

NormaliseDimensions(cell) ==
    LET sides == cell.value
        raw == cell.unit
    IN  IF ~IsStated(cell) \/ raw = Absent \/ ~IsNumber(sides)
        THEN [cell EXCEPT !.unit = Absent]
        ELSE IF raw = "ft-in" \/ \E i \in Sides : IsString(sides[i])
        THEN ConvertFeetInches(sides, raw)
        ELSE IF \E i \in Sides : ~IsNumberSide(sides[i]) THEN [cell EXCEPT !.unit = Absent]
        ELSE IF LengthUnit(raw) = Null THEN Invalid(UnitNote(raw))
        ELSE Converted([i \in Sides |-> <<"number", ToInches(sides[i][2], raw)>>])

(***************************************************************************)
(* Dates, cargo types, impossible values                                   *)
(***************************************************************************)

FlagAmbiguousDayMonth(d, cell) ==
    IF cell.status = "AMBIGUOUS" /\ EitherWay(d) THEN [cell EXCEPT !.note = "date_order"]
    ELSE IF /\ IsStated(cell)
            /\ IsNumber(cell.value)
            /\ EitherWay(d)
            /\ cell.value \in {DayFirst(d), MonthFirst(d)}
    THEN Ambiguous("date_order") ELSE cell

(* A weekday says something about the date only when the letter also wrote *)
(* its year; d.falls is the date the weekday it names falls on.            *)
FlagWeekdayMismatch(d, cell) ==
    IF /\ IsStated(cell)
       /\ IsNumber(cell.value)
       /\ d.numeric \/ d.year
       /\ d.falls \notin {Null, cell.value}
    THEN Ambiguous("weekday") ELSE cell

(* "general cargo" is a cargo type wherever the model put it.              *)
IsMisplaced(report) ==
    IsStated(report.commodity) /\ report.commodity.value = "cargo phrase"

MoveCargoType(report) ==
    IF ~IsMisplaced(report) THEN report
    ELSE [report EXCEPT !.commodity = NotStated,
                        !.cargo = IF IsStated(@) THEN @ ELSE report.commodity]

IsNonpositive(v) == IsNumber(v) /\ v <= 0

ImpossibleSides(v) ==
    IsNumber(v) /\ \E i \in Sides : IsNumberSide(v[i]) /\ v[i][2] <= 0

(* Mutant: a weight of nought is left for the contract to reject.          *)
MutMarkImpossible(report) ==
    [report EXCEPT !.weight = IF IsStated(@) /\ IsNumber(@.value) /\ @.value < 0
                              THEN Invalid("impossible") ELSE @,
                   !.pcs = IF IsStated(@) /\ IsNonpositive(@.value) THEN Invalid("impossible") ELSE @,
                   !.dims = IF IsStated(@) /\ ImpossibleSides(@.value) THEN Invalid("impossible") ELSE @]

MarkImpossible(report) ==
    [report EXCEPT !.weight = IF IsStated(@) /\ IsNonpositive(@.value) THEN Invalid("impossible") ELSE @,
                   !.pcs = IF IsStated(@) /\ IsNonpositive(@.value) THEN Invalid("impossible") ELSE @,
                   !.dims = IF IsStated(@) /\ ImpossibleSides(@.value) THEN Invalid("impossible") ELSE @]

Normalised(l, report) ==
    LET moved == MoveCargoType(report)
    IN  MarkImpossible([moved EXCEPT
            !.weight = NormaliseWeight(l, moved),
            !.dims = NormaliseDimensions(@),
            !.date = FlagWeekdayMismatch(l.date, FlagAmbiguousDayMonth(l.date, @))])

(***************************************************************************)
(* The contract                                                            *)
(***************************************************************************)

IsWellTyped(f, v) ==
    /\ v # Garbage
    /\ f = "dims" /\ v # Null => \A i \in Sides : IsNumberSide(v[i])

(* What a model may still get wrong when nothing has marked it impossible. *)
IsPossible(f, v) ==
    /\ f \in {"weight", "pcs"} => ~IsNonpositive(v)
    /\ f = "dims" => ~ImpossibleSides(v)

ObeysContract(f, cell) ==
    /\ IsWellTyped(f, cell.value)
    /\ IsStated(cell) => IsPossible(f, cell.value)
    /\ IsStated(cell) <=> cell.value # Null
    /\ cell.status \in {"AMBIGUOUS", "INVALID"} => cell.note # Null
    /\ cell.unit = Absent

(* _content_of: an error, no choice and a truncated reply carry no report.  *)
ContentOf(reply) ==
    IF reply.error \/ ~reply.choices \/ reply.finish = "length" THEN Garbage
    ELSE reply.content

Parsed(l, reply) ==
    IF ContentOf(reply) \in {Null, Garbage} THEN Garbage
    ELSE LET report == Normalised(l, ContentOf(reply))
         IN  IF \A f \in Fields : ObeysContract(f, report[f]) THEN report ELSE Garbage

(***************************************************************************)
(* The clarification                                                       *)
(***************************************************************************)

Notes == [AMBIGUOUS |-> {"date_order", "weekday"},
          INVALID |-> {"separator", "per_piece", "chargeable", "unit_missing", "unit_unsupported"}]

(* identify_unresolved: the reason, and the question its note calls for.   *)
Question(cell) ==
    CASE cell.status \in {"STATED", "DENIED"} -> "none"
      [] cell.status = "NOT_STATED" -> "missing"
      [] cell.status \in DOMAIN Notes ->
           IF cell.note \in Notes[cell.status] THEN cell.note ELSE cell.status

-----------------------------------------------------------------------------

NothingAsked == [f \in Fields |-> "none"]

Init ==
    /\ letter \in Letters
    /\ body = Null
    /\ result = Null
    /\ asked = NothingAsked

(* The service's reply reaches the adapter.                                *)
PostChatCompletion ==
    /\ body = Null
    /\ body' \in Replies(letter)
    /\ UNCHANGED <<letter, result, asked>>

ExtractShipment ==
    /\ body # Null
    /\ result = Null
    /\ result' = Parsed(letter, body)
    /\ UNCHANGED <<letter, body, asked>>

(* A rejected report is handed over; any other is asked about wherever it   *)
(* cannot be used.                                                         *)
ComposeClarification ==
    /\ result \notin {Null, Garbage}
    /\ asked = NothingAsked
    /\ asked' = [f \in Fields |-> Question(result[f])]
    /\ asked' # NothingAsked
    /\ UNCHANGED <<letter, body, result>>

Next == PostChatCompletion \/ ExtractShipment \/ ComposeClarification

Spec == Init /\ [][Next]_vars

(***************************************************************************)
(* Properties                                                              *)
(***************************************************************************)

(* What the letter can mean: <<number, unit>> of the whole shipment.       *)
Weighs(l) ==
    LET w == l.weight
        numbers == (IF w.kilo THEN {} ELSE {w.number})
                       \union (IF w.kilo \/ w.dots THEN {1000 * w.number} ELSE {})
        units == IF w.unit = Null THEN DOMAIN KgPer ELSE {w.unit} \intersect DOMAIN KgPer
        counts == IF ~IsPerPiece(w) THEN {1} ELSE IF l.pcs = Null THEN {} ELSE {l.pcs}
    IN  IF IsChargeableOnly(w) THEN {}
        ELSE {<<n * c, u>> : n \in numbers, c \in counts, u \in units}

SideMeasures(side, raw) ==
    LET own == IF side[1] = "text" /\ side[3] # Null THEN side[3] ELSE raw
        units == IF own = Null THEN DOMAIN InchesPer
                 ELSE IF own = "ft-in" /\ side[1] = "number" THEN {"ft"}
                 ELSE {own} \intersect DOMAIN InchesPer
    IN  CASE side[1] \in {"number", "text"} -> {<<side[2], u>> : u \in units}
          [] side[1] = "compound" -> IF side[3] < 120 THEN {<<12 * side[2] + side[3], "in">>} ELSE {}
          [] OTHER -> {}

DateMeans(d) == IF EitherWay(d) THEN {DayFirst(d), MonthFirst(d)} ELSE {d.means}

(* Not less than n units, and less than a tenth more.                      *)
Covers(value, measure, per) ==
    LET num == measure[1] * per[measure[2]][1]
        den == per[measure[2]][2]
    IN  value * den >= num /\ value * den < num + den

Accepted == result \notin {Null, Garbage}

(* A weight, a side or a date that enters the record is what the letter     *)
(* says, by its only reading: whatever the order of thousands, pieces,     *)
(* units and rounding, a shipment is never under-declared, nor declared a   *)
(* tenth too heavy or too long, and a doubtful figure never gets through.  *)
MeasuresAreTheClients ==
    Accepted =>
        /\ IsStated(result.weight) =>
             \E m \in Weighs(letter) :
                 Weighs(letter) = {m} /\ Covers(result.weight.value, m, KgPer)
        /\ IsStated(result.dims) => \A i \in Sides :
             \E m \in SideMeasures(letter.sides[i], letter.unit) :
                 /\ SideMeasures(letter.sides[i], letter.unit) = {m}
                 /\ Covers(result.dims.value[i][2], m, InchesPer)
        /\ IsStated(result.date) => DateMeans(letter.date) = {result.date.value}

(* What the model may not report, whatever the letter.                     *)
IsSound(f, cell) ==
    /\ cell.value # Garbage
    /\ IsStated(cell) <=> cell.value # Null
    /\ cell.status \in {"AMBIGUOUS", "INVALID"} => cell.note # Null
    /\ cell.unit # Absent => f \in {"weight", "dims"}
    /\ f = "dims" /\ IsStated(cell) => \A i \in Sides : cell.value[i][1] # "null"

(* A mistake the client can correct never rejects the letter, which would   *)
(* hand it to a person: the letter is asked about, with the question its    *)
(* problem calls for.  And a weight or a date with one reading that is     *)
(* possible is taken, not asked about.                                     *)
CorrectableIsAsked ==
    LET content == ContentOf(body)
        said == asked # NothingAsked
    IN  body # Null /\ content \notin {Null, Garbage} /\ (\A f \in Fields : IsSound(f, content[f])) =>
            /\ result # Garbage
            /\ said /\ IsStated(content.weight) /\ content.weight.unit # Absent =>
                 (asked["weight"] = "none" <=>
                    \E m \in Weighs(letter) : Weighs(letter) = {m} /\ m[1] > 0)
            /\ said /\ IsStated(content.date) =>
                 (asked["date"] = "none" <=>
                    /\ ~EitherWay(letter.date)
                    /\ letter.date.falls \in {Null, letter.date.means}
                         \/ ~(letter.date.numeric \/ letter.date.year))

(***************************************************************************)
(* What the theorems rest on                                               *)
(***************************************************************************)

(* Null, Absent and Garbage are no numbers, units, notes or sides, nor each  *)
(* other.                                                                  *)
Words == DOMAIN KgPer \union DOMAIN InchesPer \union {"kkg", "klb", "ft-in", "impossible"}
             \union Notes.AMBIGUOUS \union Notes.INVALID

ASSUME ExtractionValues ==
    /\ Null # Absent /\ Null # Garbage /\ Absent # Garbage
    /\ \A v \in {Null, Absent, Garbage} : v \notin Int \union Words \union [Sides -> {"number"} \X Int]

IsWeightPhrase(w) ==
    /\ w.number \in Int /\ w.kilo \in BOOLEAN /\ w.dots \in BOOLEAN
    /\ w.unit # Absent /\ w.unit \notin DOMAIN ThousandWeightUnit
    /\ w.kilo => ~w.dots /\ w.unit \in {"kg", "lb", Null}

IsSide(side) ==
    \/ side[1] \in {"number", "text"} /\ side[2] \in Int
    \/ side[1] = "compound" /\ side[2] \in Int /\ side[3] \in Int
    \/ side[1] \in {"junk", "null"}

(* Letters are of the shapes the code's patterns look for.                 *)
LettersAreTyped ==
    \A l \in Letters :
        /\ IsWeightPhrase(l.weight)
        /\ l.pcs \in Nat \union {Null}
        /\ \A i \in Sides : IsSide(l.sides[i])
        /\ l.unit # Absent
        /\ EitherWay(l.date) => l.date.means \in {DayFirst(l.date), MonthFirst(l.date)}

(* A figure is reported as written, the unit with it; "1.5k kg" perhaps as  *)
(* 1500 kg.  The code takes a figure without a unit key as it is, so that   *)
(* one has to be in kilograms, or inches, when it is reported.             *)
WeightAsWritten(l, w) ==
    \/ w.value = l.weight.number /\ w.unit = l.weight.unit
    \/ /\ l.weight.kilo
       /\ w.value = l.weight.number
       /\ w.unit \in DOMAIN ThousandWeightUnit /\ ThousandWeightUnit[w.unit] = l.weight.unit
    \/ l.weight.kilo /\ w.value = 1000 * l.weight.number /\ w.unit = l.weight.unit
    \/ w.unit = Absent /\ w.value \in Int /\ Weighs(l) = {<<w.value, "kg">>}

SidesAsWritten(l, d) ==
    \/ d.value = l.sides /\ d.unit = l.unit
    \/ /\ d.unit = Absent
       /\ \A i \in Sides : /\ IsNumberSide(d.value[i])
                           /\ d.value[i][2] \in Int
                           /\ SideMeasures(l.sides[i], l.unit) = {<<d.value[i][2], "in">>}

IsReport(c) ==
    /\ c = [weight |-> c.weight, pcs |-> c.pcs, dims |-> c.dims,
            date |-> c.date, commodity |-> c.commodity, cargo |-> c.cargo]
    /\ \A f \in Fields : c[f] = Cell(c[f].status, c[f].value, c[f].unit, c[f].note)

Read(cell) == IsStated(cell) /\ IsNumber(cell.value)

(* The model quotes the letter, and counts the pieces of a weight per piece. *)
ReportsAreTheLetters ==
    \A l \in Letters : \A b \in Replies(l) :
        LET c == ContentOf(b)
        IN  c \notin {Null, Garbage} =>
              /\ IsReport(c) /\ Normalised(l, c) \notin {Null, Garbage}
              /\ Read(c.weight) => WeightAsWritten(l, c.weight)
              /\ Read(c.pcs) => c.pcs.value = l.pcs
              /\ IsPerPiece(l.weight) /\ l.pcs # Null => IsStated(c.pcs)
              /\ Read(c.dims) => SidesAsWritten(l, c.dims)
              /\ Read(c.date) => c.date.value = l.date.means

=============================================================================

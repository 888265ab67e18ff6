---------------------------- MODULE MCExtraction ----------------------------
(* The instance of Extraction that TLC checks: letters that differ from a  *)
(* complete one in the weight and the pieces, the sides, the date, or the  *)
(* words about the goods.                                                  *)
EXTENDS Extraction

Weight(number, unit, kilo, dots, words) ==
    [number |-> number, unit |-> unit, kilo |-> kilo, dots |-> dots, words |-> words]

Date(numeric, first, second, year, means, falls) ==
    [numeric |-> numeric, first |-> first, second |-> second, year |-> year,
     means |-> means, falls |-> falls]

NoDate == Date(FALSE, 15, 9, TRUE, <<15, 9>>, Null)

Complete ==
    [weight |-> Weight(15, "kg", FALSE, FALSE, {}), pcs |-> 2,
     sides |-> [i \in Sides |-> <<"number", 40>>], unit |-> "in",
     date |-> NoDate, commodity |-> "goods", cargo |-> "general"]

Wordings == {{}, {"each"}, {"each", "total"}, {"chargeable"}, {"chargeable", "gross"},
             {"each", "chargeable"}, {"each", "total", "chargeable", "gross"}}

Weights ==
    {Weight(n, u, k, d, words) : n \in {-5, 0, 12, 556}, u \in {"kg", "g", "lb", "t", "stone", Null},
                                 k \in BOOLEAN, d \in BOOLEAN, words \in Wordings}

(* "1.5k" goes with kg, lb or no unit, and a number is not both "1.5k" and  *)
(* "1.500".                                                                *)
WeightLetters ==
    {[Complete EXCEPT !.weight = w, !.pcs = p] :
        w \in {x \in Weights : /\ x.kilo => x.unit \in {"kg", "lb", Null} /\ ~x.dots
                               /\ x.number = 556 => ~x.dots /\ ~x.kilo},
        p \in {Null, 0, 3}}

SideForms ==
    {<<"number", 0>>, <<"number", 33>>, <<"text", 15, Null>>, <<"text", 15, "ft">>, <<"text", 15, "cm">>,
     <<"compound", 20, 60>>, <<"compound", 20, 120>>, <<"junk">>, <<"null">>}

SideLetters ==
    {[Complete EXCEPT !.sides = <<a, b, <<"number", 33>>>>, !.unit = u] :
        a \in SideForms, b \in SideForms, u \in {"in", "cm", "mm", "m", "ft", "ft-in", "span", Null}}

DateLetters ==
    {[Complete EXCEPT !.date = d] : d \in
        {Date(TRUE, 5, 11, TRUE, m, f) : m \in {<<5, 11>>, <<11, 5>>}, f \in {Null, <<5, 11>>}}
            \union {Date(n, 15, 9, y, <<15, 9>>, f) :
                      n \in BOOLEAN, y \in BOOLEAN, f \in {Null, <<15, 9>>, <<0, 0>>}}
            \union {Date(TRUE, 5, 5, TRUE, <<5, 5>>, Null)}}

GoodsLetters ==
    {[Complete EXCEPT !.commodity = c, !.cargo = g] :
        c \in {"goods", "cargo phrase", Null}, g \in {"general", Null}}

MCLetters == WeightLetters \union SideLetters \union DateLetters \union GoodsLetters

-----------------------------------------------------------------------------

Said(value) == IF value = Null THEN NotStated ELSE Converted(value)

(* "1.5k kg" is reported as 1.5 kg, 1.5 "k kg", or 1500 kg.                *)
WeightCells(w) ==
    {Cell("STATED", w.number, w.unit, Null)}
        \union (IF w.kilo /\ w.unit # Null
                THEN {Cell("STATED", w.number, IF w.unit = "kg" THEN "kkg" ELSE "klb", Null),
                      Cell("STATED", 1000 * w.number, w.unit, Null)}
                ELSE {})

Report(l, w) ==
    [weight |-> w, pcs |-> Said(l.pcs), dims |-> Cell("STATED", l.sides, l.unit, Null),
     date |-> Converted(l.date.means), commodity |-> Said(l.commodity), cargo |-> Said(l.cargo)]

Reply(content) == [error |-> FALSE, choices |-> TRUE, finish |-> "stop", content |-> content]

(* What a model makes of the complete letter when it does not keep to the  *)
(* schema, and what comes instead of a report.                             *)
OddReports ==
    LET r == Report(Complete, Cell("STATED", 15, "kg", Null))
    IN  {[r EXCEPT ![f] = c] :
            f \in Fields,
            c \in {Cell("STATED", Garbage, Absent, Null), Cell("STATED", Null, Absent, Null),
                   Cell("NOT_STATED", Null, Null, Null), Cell("DENIED", Null, Absent, Null),
                   Cell("AMBIGUOUS", Null, Absent, Null), Cell("AMBIGUOUS", Null, Absent, "vague")}}
        \union {[r EXCEPT !.weight = Cell("STATED", 15, Absent, Null)],
                [r EXCEPT !.weight = Cell("NOT_STATED", 15, Absent, Null)],
                [r EXCEPT !.dims = Cell("STATED", Complete.sides, Absent, Null)]}

OddReplies ==
    LET r == Reply(Report(Complete, Cell("STATED", 15, "kg", Null)))
    IN  {[r EXCEPT !.error = TRUE], [r EXCEPT !.choices = FALSE], [r EXCEPT !.finish = "length"],
         [r EXCEPT !.content = Null], [r EXCEPT !.content = Garbage]}

MCReplies(l) ==
    {Reply(Report(l, w)) : w \in WeightCells(l.weight)}
        \union {Reply([Report(l, w) EXCEPT !.date = Cell("AMBIGUOUS", Null, Absent, Null)]) :
                   w \in {Cell("STATED", 15, "kg", Null)} \intersect WeightCells(l.weight)}
        \union (IF l = Complete THEN OddReplies \union {Reply(r) : r \in OddReports} ELSE {})

(* The letters and replies of the instance are as the theorems have them.   *)
ASSUME MCReports == LettersAreTyped /\ ReportsAreTheLetters

=============================================================================

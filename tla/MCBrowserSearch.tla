--------------------------- MODULE MCBrowserSearch ---------------------------
(* The instance of BrowserSearch that TLC checks.                          *)
EXTENDS BrowserSearch

Place(name, code) == [name |-> name, code |-> code]
Option(code, words) == [code |-> code, words |-> words \union {code}]

(* "DEL" is also in the name of another airport, a city's code is in the   *)
(* names of two, and "MAA" is listed under another code only.              *)
MCSuggest(token) ==
    CASE token = "DEL" -> {Option("DEL", {"Delhi"}), Option("DEC", {"DEL"})}
      [] token = "BOM" -> {Option("BOM", {"Mumbai"})}
      [] token = "LON" -> {Option("LHR", {"LON"}), Option("LGW", {"LON"})}
      [] token = "MAA" -> {Option("AJJ", {"MAA"}), Option("BOM", {"Mumbai"})}
      [] OTHER -> {}

Shipment(origin, destination, weight, pieces, chemical) ==
    [origin |-> origin, destination |-> destination, date |-> "asked", weight |-> weight,
     pieces |-> pieces, side |-> 152, chemical |-> chemical, general |-> TRUE, special |-> FALSE]

(* Places named, coded, both, in disagreement, and with a country.         *)
MCShipments ==
    {Shipment(Place("delhi", Null), Place("bombay", "BOM"), 300, 3, FALSE),
     Shipment(Place("delhi", "UAE"), Place(Null, "BOM"), 300, 1, TRUE),
     Shipment(Place("mumbai", "DEL"), Place("delhi", Null), 300, 1, FALSE),
     Shipment(Place(Null, "USA"), Place("delhi", Null), 300, 1, FALSE),
     Shipment(Place("bombay", Null), Place("london", "LON"), 300, 1, FALSE),
     Shipment(Place("chennai", Null), Place("delhi", "DEL"), 300, 1, FALSE)}

(* The words of one label are within those of another.                     *)
MCGoodsMenu ==
    {[label |-> "GEN", name |-> "general", words |-> {"GEN"}],
     [label |-> "GENX", name |-> "express", words |-> {"GEN", "X"}],
     [label |-> "DGR", name |-> "dangerous", words |-> {"DGR"}]}

MCCatalog == {"DGR"}

ASSUME MCPage == SuggestionsArePlain /\ MenuIsPlain

MCHarvests == {<<>>, <<1>>, <<0, 2>>, <<1, 2>>, <<2, 1>>, <<1, 1, 1>>}

(* The shortest wait that outlasts three rates, of the run that passes.     *)
ASSUME MCWaits == WaitsAreLongEnough <=> SettleMax >= 12
=============================================================================

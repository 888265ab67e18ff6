--------------------------- MODULE MCRateOffers ---------------------------
(* The instance of RateOffers that TLC checks.                             *)
EXTENDS RateOffers

Row(carrier, product, price, duration, departs, liquids, serves) ==
    [carrier |-> carrier, product |-> product, price |-> price, duration |-> duration,
     departs |-> departs, liquids |-> liquids, door |-> serves]

(* Rows that tie and dominate one another on price, time and carrier, two  *)
(* departures of one offer, a second currency, and rows the filters drop.  *)
MCRows ==
    {Row(1, 1, <<2, "INR">>, <<1, 0>>, 1, Unstated, Unstated),
     Row(1, 1, <<2, "INR">>, <<1, 0>>, Unstated, TRUE, TRUE),
     Row(2, 1, <<1, "INR">>, <<2, 0>>, 1, FALSE, TRUE),
     Row(2, 1, <<1, "INR">>, <<2, 0>>, 2, TRUE, TRUE),
     Row(1, 2, <<2, "INR">>, <<1, 30>>, 1, Unstated, TRUE),
     Row(2, 2, <<3, "INR">>, <<0, 30>>, 2, Unstated, FALSE),
     Row(2, 1, <<1, "USD">>, <<1, 0>>, 1, Unstated, TRUE),
     Row(1, 1, <<>>, <<1, 0>>, 1, Unstated, TRUE),
     Row(1, 1, <<1, "INR">>, <<0, 0>>, 1, Unstated, TRUE)}

(* Four offers of which one is beaten by none of the two options, and is   *)
(* beaten by the fourth.                                                   *)
MCFourOffers ==
    {Row(2, 2, <<3, "INR">>, <<0, 30>>, 2, Unstated, TRUE),
     Row(2, 1, <<1, "INR">>, <<2, 0>>, 1, FALSE, TRUE),
     Row(1, 1, <<2, "INR">>, <<1, 0>>, 1, Unstated, TRUE),
     Row(1, 2, <<2, "INR">>, <<1, 30>>, 1, Unstated, TRUE)}

MCResults ==
    {<<>>} \union {<<r>> : r \in MCRows} \union MCRows \X MCRows
        \union MCRows \X MCRows \X MCRows
        \union {f \in [1 .. 4 -> MCFourOffers] : \A i, j \in 1 .. 4 : f[i] = f[j] => i = j}
=============================================================================

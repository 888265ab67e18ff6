------------------------------- MODULE Shipment -------------------------------
(***************************************************************************)
(* The pure core of the quotation desk: the canonical shipment record, what *)
(* one extracted email says about it, the merge of the two (BR-8), the      *)
(* validation rules VR-1 .. VR-13 and the analysis of what is left to ask.  *)
(* Free text is folded by the code before it is compared (case and white    *)
(* space), so a member of Text stands for a folded text; a positive number  *)
(* or a set of dimensions is a member of Text too, because the code only    *)
(* ever compares them for equality.                                         *)
(***************************************************************************)
EXTENDS Integers

CONSTANTS Text,        \* folded texts, weights, piece counts and dimensions
          NoValue,     \* Python's None
          DaysPerYear  \* length of the calendar year, in days

ASSUME ShipmentAssumption ==
    /\ DaysPerYear \in Nat \ {0}
    /\ NoValue \notin Text
    /\ NoValue \notin BOOLEAN
    /\ NoValue \notin {"door", "airport"}
    /\ NoValue \notin Nat

FieldName ==
    {"origin", "destination", "weight_kg", "dimensions_in", "commodity",
     "cargo_type", "is_chemical", "msds_attached", "pcs", "delivery_type",
     "delivery_address", "ship_date"}

FieldStatus == {"NOT_STATED", "STATED", "DENIED", "AMBIGUOUS", "INVALID"}

\* The values the canonical record can hold in field f, None aside.
Domain(f) ==
    CASE f \in {"is_chemical", "msds_attached"} -> BOOLEAN
      [] f = "delivery_type" -> {"door", "airport"}
      [] f = "ship_date" -> Nat
      [] OTHER -> Text

IsShipmentRecord(rec) ==
    /\ DOMAIN rec = FieldName
    /\ \A f \in FieldName : rec[f] \in Domain(f) \cup {NoValue}

\* One extracted email: a status per field, and a value exactly when STATED.
IsExtraction(x) ==
    /\ DOMAIN x = FieldName
    /\ \A f \in FieldName :
        /\ DOMAIN x[f] = {"status", "value"}
        /\ x[f].status \in FieldStatus
        /\ IF x[f].status = "STATED" THEN x[f].value \in Domain(f)
                                     ELSE x[f].value = NoValue

BlankRecord == [f \in FieldName |-> NoValue]

FieldsByStatus(x, status) == {f \in FieldName : x[f].status = status}

-----------------------------------------------------------------------------
(* The shipment date: a stated date in the past moves to its next            *)
(* occurrence on or after today.                                             *)

\* Mutant: the year is moved the wrong way.
MutRollForward(stated, today) ==
    IF stated >= today THEN stated ELSE stated - DaysPerYear

RollForward(stated, today) ==
    IF stated >= today THEN stated ELSE today + ((stated - today) % DaysPerYear)

ResolveShipDate(x, today) ==
    IF x["ship_date"].status = "STATED"
    THEN [x EXCEPT !["ship_date"].value = RollForward(@, today)]
    ELSE x

-----------------------------------------------------------------------------
(* Merging an extraction into the record (BR-8).                             *)

\* Only a STATED value is carried across; a DENIED MSDS is the answer "no".
Incoming(x, f) ==
    IF x[f].status = "STATED" THEN x[f].value
    ELSE IF f = "msds_attached" /\ x[f].status = "DENIED" THEN FALSE
    ELSE NoValue

\* Rule 1: a missing value is filled.
Changed(rec, x) ==
    {f \in FieldName : rec[f] = NoValue /\ Incoming(x, f) # NoValue}

\* Rule 3: of two values that differ neither is chosen.
Conflicts(rec, x) ==
    {f \in FieldName : rec[f] # NoValue /\ Incoming(x, f) \notin {NoValue, rec[f]}}

\* Mutant: the latest email wins.
MutMerged(rec, x) ==
    [f \in FieldName |-> IF Incoming(x, f) = NoValue THEN rec[f] ELSE Incoming(x, f)]

\* The existing value stays, known or not, unless rule 1 fills it.
Merged(rec, x) ==
    [f \in FieldName |-> IF rec[f] = NoValue THEN Incoming(x, f) ELSE rec[f]]

Cleared(rec, fields) ==
    [f \in FieldName |-> IF f \in fields THEN NoValue ELSE rec[f]]

-----------------------------------------------------------------------------
(* Validation.                                                               *)

AlwaysRequired == FieldName \ {"msds_attached", "delivery_address"}

\* VR-8 and VR-11 make two more fields required, on exact answers only.
RequiredFields(rec) ==
    AlwaysRequired
        \cup {f \in {"msds_attached"} : rec["is_chemical"] = TRUE}
        \cup {f \in {"delivery_address"} : rec["delivery_type"] = "door"}

MissingFields(rec) == {f \in RequiredFields(rec) : rec[f] = NoValue}

\* Mutant: VR-13 is skipped, as when the caller passes no date.
MutInvalidFields(rec, today) == {}

\* VR-13. The other INVALID findings (a weight or a piece count that is not
\* positive) cannot reach a record: the extraction contract refuses them.
InvalidFields(rec, today) ==
    {f \in {"ship_date"} : rec[f] # NoValue /\ rec[f] < today}

Issues(rec, today) == MissingFields(rec) \cup InvalidFields(rec, today)

-----------------------------------------------------------------------------
(* What is left to ask, given the merged record, the extraction that was     *)
(* just merged and the fields the two disagree about.                        *)

BlockedByDenial(rec, x, conflicts, today) ==
    {f \in Issues(rec, today) \ conflicts : x[f].status = "DENIED"}

\* Mutant: a disputed field is skipped as an issue and never added back.
MutUnresolved(rec, x, conflicts, today) ==
    Issues(rec, today) \ (BlockedByDenial(rec, x, conflicts, today) \cup conflicts)

Unresolved(rec, x, conflicts, today) ==
    (Issues(rec, today) \ BlockedByDenial(rec, x, conflicts, today)) \cup conflicts

\* Mutant: a denial is not looked at.
MutIsStuck(rec, x, conflicts, today) == FALSE

IsStuck(rec, x, conflicts, today) ==
    /\ Unresolved(rec, x, conflicts, today) = {}
    /\ BlockedByDenial(rec, x, conflicts, today) # {}
=============================================================================

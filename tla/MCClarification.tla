--------------------------- MODULE MCClarification ---------------------------
(***************************************************************************)
(* Small instances of ClarificationWorkflow: what one email may say.        *)
(***************************************************************************)
EXTENDS ClarificationWorkflow

Stated(v) == [status |-> "STATED", value |-> v]
Mark(status) == [status |-> status, value |-> NoValue]

\* An extraction that says `given` (a function from some fields) and no more.
Email(given) ==
    [f \in FieldName |-> IF f \in DOMAIN given THEN given[f] ELSE Mark("NOT_STATED")]

\* Everything a plain airport shipment needs, for the day `day`.
FullEnquiry(day) ==
    [f \in AlwaysRequired |->
        CASE f = "is_chemical" -> Stated(FALSE)
          [] f = "delivery_type" -> Stated("airport")
          [] f = "ship_date" -> Stated(day)
          [] OTHER -> Stated("a")]

Without(enquiry, fields) == [f \in DOMAIN enquiry \ fields |-> enquiry[f]]
But(enquiry, f, value) ==
    [g \in DOMAIN enquiry \cup {f} |-> IF g = f THEN value ELSE enquiry[g]]
Just(f, value) == [g \in {f} |-> value]

Enquiries ==
    {FullEnquiry(0),
     Without(FullEnquiry(0), {"weight_kg"}),
     But(Without(FullEnquiry(1), {"origin"}), "weight_kg", Mark("DENIED")),
     But(FullEnquiry(1), "weight_kg", Mark("DENIED")),
     But(FullEnquiry(0), "is_chemical", Stated(TRUE)),
     But(FullEnquiry(1), "delivery_type", Stated("door"))}

Replies ==
    {[g \in {} |-> Mark("NOT_STATED")],
     Just("weight_kg", Stated("b")),
     Just("weight_kg", Mark("AMBIGUOUS")),
     Just("weight_kg", Mark("INVALID")),
     Just("origin", Stated("a")),
     Just("is_chemical", Stated(FALSE)),
     Just("msds_attached", Mark("DENIED")),
     Just("delivery_address", Mark("DENIED")),
     Just("ship_date", Mark("AMBIGUOUS")),
     Just("ship_date", Stated(0))}

MCExtractions == {Email(e) : e \in Enquiries \cup Replies}
MCText == {"a", "b"}
=============================================================================

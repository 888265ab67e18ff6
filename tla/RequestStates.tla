---------------------------- MODULE RequestStates ----------------------------
(***************************************************************************)
(* The thirteen states of a quotation request and the transition table that *)
(* the code calls the authority on what may happen.                         *)
(***************************************************************************)

TerminalStates ==
    {"ACCEPTED", "DECLINED", "CLOSED_NO_RATES", "MAKER_REJECTED", "FAILED",
     "MANUAL_REVIEW", "RESOLVED"}

RequestState ==
    {"RECEIVED", "EXTRACTED", "NEEDS_INFO", "CLARIFICATION_SENT", "VALIDATED",
     "RATE_SELECTED", "PENDING_APPROVAL", "QUOTATION_SENT", "NO_ELIGIBLE_RATE"}
        \cup TerminalStates

Transitions ==
    [RECEIVED |-> {"EXTRACTED", "FAILED", "MANUAL_REVIEW"},
     EXTRACTED |-> {"VALIDATED", "NEEDS_INFO", "FAILED", "MANUAL_REVIEW"},
     NEEDS_INFO |-> {"CLARIFICATION_SENT"},
     CLARIFICATION_SENT |-> {"EXTRACTED", "MANUAL_REVIEW"},
     VALIDATED |-> {"RATE_SELECTED", "NO_ELIGIBLE_RATE", "FAILED", "NEEDS_INFO",
                    "MANUAL_REVIEW"},
     RATE_SELECTED |-> {"PENDING_APPROVAL"},
     PENDING_APPROVAL |-> {"QUOTATION_SENT", "MAKER_REJECTED"},
     QUOTATION_SENT |-> {"ACCEPTED", "DECLINED", "MANUAL_REVIEW"},
     NO_ELIGIBLE_RATE |-> {"CLOSED_NO_RATES"},
     ACCEPTED |-> {}, DECLINED |-> {}, CLOSED_NO_RATES |-> {},
     MAKER_REJECTED |-> {}, FAILED |-> {},
     MANUAL_REVIEW |-> {"RESOLVED"}, RESOLVED |-> {}]

\* ClarificationWorkflow._advance: staying put is allowed, any other move only
\* when the table has it (assert_transition raises otherwise).
MayAdvance(state, target) == target = state \/ target \in Transitions[state]

\* Mutant: no gate in front of the extraction.
MutAcceptsClientReply(state) == state \in RequestState

\* A client message can be merged only where the request may be EXTRACTED.
AcceptsClientReply(state) == MayAdvance(state, "EXTRACTED")
=============================================================================

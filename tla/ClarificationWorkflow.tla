------------------------ MODULE ClarificationWorkflow ------------------------
(***************************************************************************)
(* pipeline/clarification_loop.py: one client message at a time is          *)
(* extracted, merged into the request's record and validated; gaps become a *)
(* question that a person must release; a reply that answers nothing earns  *)
(* one reminder and a deadline.                                             *)
(*                                                                          *)
(* The store is the working store of one process; pending drafts and round  *)
(* counts live in the ClarificationWorkflow object itself.  Handlers that   *)
(* change nothing (a refused reply, unrelated mail, an unreachable model, a *)
(* refused send, a further non-answer inside the window) are stuttering     *)
(* steps of this module: what is remembered about their message is the      *)
(* session's business, not the workflow's.                                  *)
(***************************************************************************)
EXTENDS Shipment, RequestStates, FiniteSets

CONSTANTS Requests,       \* request ids
          Extractions,    \* what the model may read out of one email
          NoTime,         \* a timestamp that was never set
          MaxRounds,      \* drafts a request may have (max_rounds)
          FollowupWindow, \* the reminder's deadline, in clock ticks
          DayLength,      \* clock ticks in a day
          Horizon         \* bound: the last instant of a behaviour

ASSUME WorkflowAssumption ==
    /\ \A x \in Extractions : IsExtraction(x)
    /\ MaxRounds \in Nat \ {0}
    /\ FollowupWindow \in Nat \ {0}
    /\ DayLength \in Nat \ {0}
    /\ Horizon \in Nat
    /\ NoTime \notin Nat

VARIABLES store,    \* the stored requests, by id
          pending,  \* request id -> the fields its unsent draft asks about
          rounds,   \* request id -> drafts made so far
          now,      \* the clock
          outbox,   \* request id -> client mails the sink accepted, by kind
          denied    \* history: fields the client declined and has not given since

vars == <<store, pending, rounds, now, outbox, denied>>

Today == now \div DayLength

Known(r) == r \in DOMAIN store
StateOf(r) == IF Known(r) THEN store[r].state ELSE "RECEIVED"
RecordOf(r) == IF Known(r) THEN store[r].record ELSE BlankRecord

\* A QuotationRequest with every optional field at its default: what every turn
\* saves, so that whatever the stored request carried beside it is dropped.
Fresh(state, record) ==
    [state |-> state, record |-> record, asked_about |-> {},
     followup_at |-> NoTime, notice_sent |-> FALSE]

Save(r, request) ==
    store' = [q \in DOMAIN store \cup {r} |-> IF q = r THEN request ELSE store[q]]
Send(r, kind) == outbox' = [outbox EXCEPT ![r][kind] = @ + 1]

\* The history variable: what this email declines, less what it or an earlier
\* email has given.
NoteDenials(r, x, record) ==
    denied' = [denied EXCEPT ![r] =
        {f \in @ \cup FieldsByStatus(x, "DENIED") : record[f] = NoValue}]

Init ==
    /\ store = [r \in {} |-> Fresh("RECEIVED", BlankRecord)]
    /\ pending = [r \in Requests |-> {}]
    /\ rounds = [r \in Requests |-> 0]
    /\ now = 0
    /\ outbox = [r \in Requests |-> [clarification |-> 0, reminder |-> 0, notice |-> 0]]
    /\ denied = [r \in Requests |-> {}]

-----------------------------------------------------------------------------
(* The turn: what the handler computes from a message before it moves.       *)

MutOverBudget(r) == StateOf(r) = "CLARIFICATION_SENT" /\ rounds[r] > MaxRounds

OverBudget(r) == StateOf(r) = "CLARIFICATION_SENT" /\ rounds[r] >= MaxRounds

\* First contact must state something a shipment can hold.
IsEnquiry(r, x) ==
    Known(r) \/ FieldsByStatus(x, "STATED") \cup FieldsByStatus(x, "INVALID") # {}

\* The extraction as it is merged: its date rolled forward against our clock.
Readings == {ResolveShipDate(x, Today) : x \in Extractions}

StillMissing(r, x) == MissingFields(Merged(RecordOf(r), x))

\* The client engaged with the question and the answer could not be used.
Unusable(r, x) ==
    IF StateOf(r) = "CLARIFICATION_SENT"
    THEN {f \in StillMissing(r, x) \ {"ship_date"} : x[f].status = "AMBIGUOUS"}
    ELSE {}

\* A reply to our clarification that answers nothing at all.
NonAnswer(r, x) ==
    /\ StateOf(r) = "CLARIFICATION_SENT"
    /\ Unusable(r, x) = {}
    /\ StillMissing(r, x) # {}
    /\ Changed(RecordOf(r), x) = {}
    /\ FieldsByStatus(x, "STATED") \cup FieldsByStatus(x, "INVALID") = {}
    /\ x["ship_date"].status # "AMBIGUOUS"

MutWindowLapsed(sent_at) == sent_at # NoTime /\ sent_at - now >= FollowupWindow

WindowLapsed(sent_at) == sent_at # NoTime /\ now - sent_at >= FollowupWindow

\* A turn that hands over without looking further at the record.
Futile(r, x) ==
    \/ Unusable(r, x) # {}
    \/ NonAnswer(r, x) /\ WindowLapsed(store[r].followup_at)

\* Everything else a reply can be is judged on the merged record.
Judged(r, x) == AcceptsClientReply(StateOf(r)) /\ IsEnquiry(r, x)
                  /\ Unusable(r, x) = {} /\ ~NonAnswer(r, x)

Clashes(r, x) == Conflicts(RecordOf(r), x)
Questions(r, x) == Unresolved(Merged(RecordOf(r), x), x, Clashes(r, x), Today)
Stuck(r, x) == IsStuck(Merged(RecordOf(r), x), x, Clashes(r, x), Today)

-----------------------------------------------------------------------------
(* handle: one action for each way a turn ends that changes something.       *)

\* Mutant: the deadline is not written down.
MutSendFollowup(r, x) ==
    /\ NonAnswer(r, x)
    /\ store[r].followup_at = NoTime
    /\ Save(r, Fresh("CLARIFICATION_SENT", Merged(RecordOf(r), x)))
    /\ Send(r, "reminder")
    /\ NoteDenials(r, x, Merged(RecordOf(r), x))
    /\ UNCHANGED <<pending, rounds, now>>

\* The one reminder a non-answer earns. It is sent before it is written down.
SendFollowup(r, x) ==
    /\ NonAnswer(r, x)
    /\ store[r].followup_at = NoTime
    /\ Save(r, [Fresh("CLARIFICATION_SENT", Merged(RecordOf(r), x))
                  EXCEPT !.followup_at = now])
    /\ Send(r, "reminder")
    /\ NoteDenials(r, x, Merged(RecordOf(r), x))
    /\ UNCHANGED <<pending, rounds, now>>

\* Unusable answers, a lapsed window, a stuck denial or a spent budget: a
\* person takes the request over.
HandOver(r, x) ==
    /\ \/ Futile(r, x)
       \/ Judged(r, x) /\ Stuck(r, x)
       \/ Judged(r, x) /\ OverBudget(r) /\ Questions(r, x) # {}
    /\ Save(r, Fresh("MANUAL_REVIEW", Merged(RecordOf(r), x)))
    /\ NoteDenials(r, x, Merged(RecordOf(r), x))
    /\ UNCHANGED <<pending, rounds, now, outbox>>

\* Something is left to ask: one draft for all of it. A field two emails
\* disagree about is left open in the stored record, so the answer can fill it.
DraftQuestion(r, x) ==
    /\ Judged(r, x)
    /\ Questions(r, x) # {}
    /\ ~OverBudget(r)
    /\ Save(r, Fresh("NEEDS_INFO",
                     Cleared(Merged(RecordOf(r), x), Clashes(r, x))))
    /\ pending' = [pending EXCEPT ![r] = Questions(r, x)]
    /\ rounds' = [rounds EXCEPT ![r] = @ + 1]
    /\ NoteDenials(r, x, Merged(RecordOf(r), x))
    /\ UNCHANGED <<now, outbox>>

\* Nothing is left to ask.
Complete(r, x) ==
    /\ Judged(r, x)
    /\ Questions(r, x) = {}
    /\ ~Stuck(r, x)
    /\ Save(r, Fresh("VALIDATED", Merged(RecordOf(r), x)))
    /\ NoteDenials(r, x, Merged(RecordOf(r), x))
    /\ UNCHANGED <<pending, rounds, now, outbox>>

\* The model's output broke the extraction contract: the client is told once,
\* and a person takes the message over.
ExtractionFailed(r) ==
    /\ AcceptsClientReply(StateOf(r))
    /\ IF Known(r) /\ store[r].notice_sent THEN UNCHANGED outbox ELSE Send(r, "notice")
    /\ Save(r, [Fresh("MANUAL_REVIEW", RecordOf(r)) EXCEPT !.notice_sent = TRUE])
    /\ UNCHANGED <<pending, rounds, now, denied>>

-----------------------------------------------------------------------------
(* The entry points other than a message.                                    *)

\* The poll's sweep over every stored request; requests are independent, so
\* one step hands over one of them.
SweepFollowupDeadline(r) ==
    /\ StateOf(r) = "CLARIFICATION_SENT"
    /\ WindowLapsed(store[r].followup_at)
    /\ Save(r, [store[r] EXCEPT !.state = "MANUAL_REVIEW"])
    /\ UNCHANGED <<pending, rounds, now, outbox, denied>>

\* A question found only after validation: the fields asked about are cleared,
\* or, with the budget spent, a person takes over. The caller asks only for a
\* VALIDATED request; a second call returns the draft already pending.
AskAgain(r, fields) ==
    /\ StateOf(r) = "VALIDATED"
    /\ pending[r] = {}
    /\ IF rounds[r] >= MaxRounds
       THEN /\ Save(r, [store[r] EXCEPT !.state = "MANUAL_REVIEW"])
            /\ UNCHANGED <<pending, rounds>>
       ELSE /\ Save(r, [store[r] EXCEPT !.state = "NEEDS_INFO",
                                        !.record = Cleared(@, fields)])
            /\ pending' = [pending EXCEPT ![r] = fields]
            /\ rounds' = [rounds EXCEPT ![r] = @ + 1]
    /\ UNCHANGED <<now, outbox, denied>>

\* Stated places that do not resolve to an airport (or resolve to the same one).
RequestLocationClarification(r, places) ==
    /\ places # {}
    /\ AskAgain(r, places)

\* A shipment date that passed while the request waited.
RequestShipDateClarification(r) ==
    /\ InvalidFields(RecordOf(r), Today) # {}
    /\ AskAgain(r, {"ship_date"})

\* A person releases the draft. Only a send the provider accepted spends it; a
\* refused send leaves everything as it was.
ApproveClarification(r) ==
    /\ pending[r] # {}
    /\ Send(r, "clarification")
    /\ pending' = [pending EXCEPT ![r] = {}]
    /\ Save(r, [store[r] EXCEPT !.state = "CLARIFICATION_SENT",
                                !.asked_about = pending[r]])
    /\ UNCHANGED <<rounds, now, denied>>

Tick ==
    /\ now < Horizon
    /\ now' = now + 1
    /\ UNCHANGED <<store, pending, rounds, outbox, denied>>

\* Bound: mail arrives early enough for its deadline to fall within Horizon.
MailArrives == now + FollowupWindow <= Horizon

Handle(r) ==
    /\ MailArrives
    /\ \/ ExtractionFailed(r)
       \/ \E x \in Readings :
            \/ SendFollowup(r, x)
            \/ HandOver(r, x)
            \/ DraftQuestion(r, x)
            \/ Complete(r, x)

Next ==
    \/ Tick
    \/ \E r \in Requests :
        \/ Handle(r)
        \/ SweepFollowupDeadline(r)
        \/ RequestShipDateClarification(r)
        \/ \E places \in SUBSET {"origin", "destination"} :
              RequestLocationClarification(r, places)
        \/ ApproveClarification(r)

Spec == Init /\ [][Next]_vars

\* The clock runs, and the poll (every cycle, for ever) runs the sweep.
Fairness == WF_vars(Tick) /\ \A r \in Requests : WF_vars(SweepFollowupDeadline(r))

FairSpec == Spec /\ Fairness
-----------------------------------------------------------------------------
(* Properties.                                                               *)

QuotationRequestOK(q) ==
    /\ DOMAIN q = {"state", "record", "asked_about", "followup_at", "notice_sent"}
    /\ q.state \in {"NEEDS_INFO", "CLARIFICATION_SENT", "VALIDATED", "MANUAL_REVIEW"}
    /\ IsShipmentRecord(q.record)
    /\ q.asked_about \subseteq FieldName
    /\ q.followup_at \in Nat \cup {NoTime}
    /\ q.notice_sent \in BOOLEAN

\* Types. It also says that a turn never leaves a request parked at RECEIVED or
\* EXTRACTED, the states a turn only passes through.
TypeOK ==
    /\ DOMAIN store \subseteq Requests
    /\ \A r \in DOMAIN store : QuotationRequestOK(store[r])
    /\ pending \in [Requests -> SUBSET FieldName]
    /\ rounds \in [Requests -> Nat]
    /\ now \in Nat
    /\ outbox \in [Requests -> [clarification : Nat, reminder : Nat, notice : Nat]]
    /\ denied \in [Requests -> SUBSET FieldName]

\* A request waits at NEEDS_INFO exactly while an unsent draft is held for it:
\* no draft is lost, and none is left to be released for a request that moved on.
DraftHeldForNeedsInfo ==
    \A r \in Requests : pending[r] # {} <=> StateOf(r) = "NEEDS_INFO"

\* What the client has been, or is about to be, asked: the draft, or the question
\* that was sent (as long as no reminder has followed it).
Asked(r) == IF pending[r] # {} THEN pending[r] ELSE store[r].asked_about

AwaitsAnswer(r) ==
    \/ StateOf(r) = "NEEDS_INFO"
    \/ StateOf(r) = "CLARIFICATION_SENT" /\ store[r].followup_at = NoTime

\* BR-9: one message asks for everything outstanding. Whatever the record still
\* lacks is in the question, or was declined by the client.
EverythingOutstandingIsAsked ==
    \A r \in Requests :
        AwaitsAnswer(r) => MissingFields(store[r].record) \subseteq Asked(r) \cup denied[r]

\* What the client said is never overwritten, and is forgotten only for a field
\* the client is being asked about.
FactKept(r, f) ==
    \/ store'[r].record[f] = store[r].record[f]
    \/ store[r].record[f] = NoValue
    \/ store'[r].record[f] = NoValue /\ f \in pending'[r]

KnownFactsAreKept ==
    [][\A r \in DOMAIN store : \A f \in FieldName : FactKept(r, f)]_vars

\* A validated request lacks nothing a quotation needs, however many emails it
\* was put together from.
ValidatedIsComplete ==
    \A r \in Requests :
        StateOf(r) = "VALIDATED" => MissingFields(store[r].record) = {}

\* No turn validates a request whose shipment date has already passed.
ValidatedWithLiveDate ==
    [][\A r \in Requests :
          StateOf(r) # "VALIDATED" /\ StateOf(r)' = "VALIDATED"
             => store'[r].record["ship_date"] >= Today]_vars

\* At most one reminder for every question released by a person: never a loop.
OneReminderPerClarification ==
    \A r \in Requests : outbox[r].reminder <= outbox[r].clarification

\* The client is never asked more often than the round budget allows.
RoundBudgetKept ==
    \A r \in Requests : outbox[r].clarification <= MaxRounds

\* "Exactly one failure notice ever leaves for a given request", although every
\* turn saves a request without the marker that says one was sent.
AtMostOneFailureNotice ==
    \A r \in Requests : outbox[r].notice <= 1

\* A reminded client does not keep the request waiting for ever: it advances on
\* an answer, or the sweep hands it over.
ReminderIsSettled ==
    \A r \in Requests :
        (StateOf(r) = "CLARIFICATION_SENT" /\ store[r].followup_at # NoTime)
            ~> (StateOf(r) # "CLARIFICATION_SENT" \/ store[r].followup_at = NoTime)

-----------------------------------------------------------------------------
(* The inductive invariant behind the theorems: what holds of one request.   *)

\* The draft is held exactly at NEEDS_INFO and was counted; every question sent
\* was a draft; every reminder answers a question that was not yet followed by
\* one; a request that was sent a failure notice is with a person for good.
RequestInv(r) ==
    /\ pending[r] # {} <=> StateOf(r) = "NEEDS_INFO"
    /\ ~Known(r) => rounds[r] = 0
    /\ rounds[r] <= MaxRounds
    /\ outbox[r].clarification + (IF pending[r] # {} THEN 1 ELSE 0) <= rounds[r]
    /\ outbox[r].reminder + (IF StateOf(r) = "CLARIFICATION_SENT" /\ store[r].followup_at = NoTime
                               THEN 1 ELSE 0)
          <= outbox[r].clarification
    /\ \/ outbox[r].notice = 0
       \/ outbox[r].notice = 1 /\ StateOf(r) = "MANUAL_REVIEW"
    /\ StateOf(r) = "VALIDATED" => MissingFields(store[r].record) = {}
    /\ AwaitsAnswer(r) => MissingFields(store[r].record) \subseteq Asked(r) \cup denied[r]

IInv == TypeOK /\ \A r \in Requests : RequestInv(r)
=============================================================================

--------------------- MODULE ClarificationWorkflow_proofs ---------------------
(***************************************************************************)
(* Theorems about ClarificationWorkflow, for every set of requests, every   *)
(* set of extractions, every round budget and every clock.                  *)
(***************************************************************************)
EXTENDS ClarificationWorkflow, TLAPS

-----------------------------------------------------------------------------
(* The record.                                                               *)

\* Rolling a date forward gives a date (roll_forward_to_today).
LEMMA RollForwardType ==
  ASSUME NEW stated \in Nat, NEW today \in Nat
  PROVE  RollForward(stated, today) \in Nat
<1>1. CASE stated >= today
  BY <1>1 DEF RollForward
<1>2. CASE ~(stated >= today)
  <2>1. (stated - today) % DaysPerYear \in Nat
    BY ShipmentAssumption
  <2>2. QED
    BY <1>2, <2>1 DEF RollForward
<1>3. QED
  BY <1>1, <1>2

\* An extraction whose date was rolled forward is still an extraction.
LEMMA ResolvedExtraction ==
  ASSUME NEW x, IsExtraction(x), NEW today \in Nat
  PROVE  IsExtraction(ResolveShipDate(x, today))
<1>1. CASE x["ship_date"].status # "STATED"
  BY <1>1 DEF ResolveShipDate
<1>2. CASE x["ship_date"].status = "STATED"
  <2>1. x["ship_date"].value \in Nat
    BY <1>2 DEF IsExtraction, Domain, FieldName
  <2>2. RollForward(x["ship_date"].value, today) \in Nat
    BY <2>1, RollForwardType
  <2> DEFINE d == RollForward(x["ship_date"].value, today)
  <2> DEFINE y == [x EXCEPT !["ship_date"].value = d]
  <2>3. ResolveShipDate(x, today) = y
    BY <1>2 DEF ResolveShipDate
  <2>4. y["ship_date"] = [x["ship_date"] EXCEPT !.value = d]
    BY DEF IsExtraction, FieldName
  <2>5. \A f \in FieldName \ {"ship_date"} : y[f] = x[f]
    BY DEF IsExtraction
  <2>6. /\ DOMAIN y = FieldName
        /\ DOMAIN y["ship_date"] = {"status", "value"}
        /\ y["ship_date"].status = "STATED"
        /\ y["ship_date"].value = d
    BY <1>2, <2>4 DEF IsExtraction, FieldName
  <2>7. d \in Domain("ship_date")
    BY <2>2 DEF Domain
  <2> HIDE DEF y, d
  <2>8. IsExtraction(y)
    BY <2>5, <2>6, <2>7 DEF IsExtraction, FieldStatus
  <2>9. QED
    BY <2>3, <2>8
<1>3. QED
  BY <1>1, <1>2

\* The record of a fresh request is a record.
LEMMA BlankIsRecord == IsShipmentRecord(BlankRecord)
BY DEF IsShipmentRecord, BlankRecord

\* Merging keeps the shape of the record.
LEMMA MergedIsRecord ==
  ASSUME NEW rec, IsShipmentRecord(rec), NEW x, IsExtraction(x)
  PROVE  IsShipmentRecord(Merged(rec, x))
<1>1. \A f \in FieldName : Incoming(x, f) \in Domain(f) \cup {NoValue}
  BY DEF IsExtraction, Incoming, Domain
<1>2. QED
  BY <1>1 DEF IsShipmentRecord, Merged

\* Clearing fields keeps the shape of the record ...
LEMMA ClearedIsRecord ==
  ASSUME NEW rec, IsShipmentRecord(rec), NEW fields
  PROVE  IsShipmentRecord(Cleared(rec, fields))
BY DEF IsShipmentRecord, Cleared

\* ... and leaves nothing missing but the fields cleared and what was missing.
LEMMA MissingAfterClearing ==
  ASSUME NEW rec, NEW fields
  PROVE  MissingFields(Cleared(rec, fields)) \subseteq MissingFields(rec) \cup fields
<1> SUFFICES ASSUME NEW f \in MissingFields(Cleared(rec, fields)), f \notin fields
             PROVE  f \in MissingFields(rec)
  OBVIOUS
<1>1. f \in FieldName /\ rec[f] = NoValue
  BY DEF MissingFields, RequiredFields, AlwaysRequired, Cleared, FieldName
<1>2. NoValue # TRUE /\ NoValue # "door"
  BY ShipmentAssumption
<1>3. f \in RequiredFields(rec)
  BY <1>2 DEF MissingFields, RequiredFields, Cleared, FieldName
<1>4. QED
  BY <1>1, <1>3 DEF MissingFields

\* What is missing is a set of fields.
LEMMA MissingAreFields ==
  ASSUME NEW rec PROVE MissingFields(rec) \subseteq {f \in FieldName : rec[f] = NoValue}
BY DEF MissingFields, RequiredFields, AlwaysRequired, FieldName
-----------------------------------------------------------------------------
(* What one step touches.                                                    *)

\* The day of any time is a number.
LEMMA TodayType == ASSUME now \in Nat PROVE Today \in Nat
BY WorkflowAssumption DEF Today

\* Save writes one request and leaves every other as it was.
LEMMA SaveEffect ==
  ASSUME NEW r, NEW request, Save(r, request)
  PROVE  /\ DOMAIN store' = DOMAIN store \cup {r}
         /\ store'[r] = request
         /\ \A q \in DOMAIN store : q # r => store'[q] = store[q]
BY DEF Save

\* What is stored, and what an email is merged into, is a record.
LEMMA TurnTypes ==
  ASSUME IInv, NEW r \in Requests, NEW x \in Readings
  PROVE  /\ IsExtraction(x)
         /\ IsShipmentRecord(RecordOf(r))
         /\ IsShipmentRecord(Merged(RecordOf(r), x))
<1>1. IsExtraction(x)
  <2>1. Today \in Nat
    BY TodayType DEF IInv, TypeOK
  <2>2. PICK y \in Extractions : x = ResolveShipDate(y, Today)
    BY DEF Readings
  <2>3. QED
    BY <2>1, <2>2, ResolvedExtraction, WorkflowAssumption
<1>2. IsShipmentRecord(RecordOf(r))
  BY BlankIsRecord DEF IInv, TypeOK, QuotationRequestOK, RecordOf, Known
<1>3. QED
  BY <1>1, <1>2, MergedIsRecord

\* A request no step touched keeps its part of the invariant.
LEMMA Untouched ==
  ASSUME NEW q, RequestInv(q),
         q \in DOMAIN store' <=> q \in DOMAIN store,
         q \in DOMAIN store => store'[q] = store[q],
         pending'[q] = pending[q], rounds'[q] = rounds[q],
         outbox'[q] = outbox[q], denied'[q] = denied[q]
  PROVE  RequestInv(q)'
<1>1. StateOf(q)' = StateOf(q) /\ Known(q)' = Known(q)
  BY DEF StateOf, Known
<1>2. ~Known(q) => StateOf(q) = "RECEIVED"
  BY DEF StateOf
<1>3. Known(q) => store'[q] = store[q]
  BY DEF Known
<1>4. Asked(q)' = Asked(q) \/ ~Known(q)
  BY <1>3 DEF Asked
<1>5. AwaitsAnswer(q)' = AwaitsAnswer(q)
  BY <1>1, <1>2, <1>3 DEF AwaitsAnswer
<1>6. AwaitsAnswer(q) => Known(q)
  BY <1>2 DEF AwaitsAnswer
<1>7. QED
  <2>1. pending'[q] # {} <=> StateOf(q)' = "NEEDS_INFO"
    BY <1>1 DEF RequestInv
  <2>2. /\ ~Known(q)' => rounds'[q] = 0
        /\ rounds'[q] <= MaxRounds
        /\ outbox'[q].clarification + (IF pending'[q] # {} THEN 1 ELSE 0) <= rounds'[q]
    BY <1>1 DEF RequestInv
  <2>3. outbox'[q].reminder
          + (IF StateOf(q)' = "CLARIFICATION_SENT" /\ store'[q].followup_at = NoTime
             THEN 1 ELSE 0)
          <= outbox'[q].clarification
    BY <1>1, <1>2, <1>3 DEF RequestInv
  <2>4. \/ outbox'[q].notice = 0
        \/ outbox'[q].notice = 1 /\ StateOf(q)' = "MANUAL_REVIEW"
    BY <1>1 DEF RequestInv
  <2>5. StateOf(q)' = "VALIDATED" => MissingFields(store'[q].record) = {}
    BY <1>1, <1>2, <1>3 DEF RequestInv
  <2>6. AwaitsAnswer(q)' => MissingFields(store'[q].record) \subseteq Asked(q)' \cup denied'[q]
    BY <1>3, <1>4, <1>5, <1>6 DEF RequestInv
  <2>7. QED
    BY <2>1, <2>2, <2>3, <2>4, <2>5, <2>6 DEF RequestInv
\* A step that touches one request keeps the invariant if it keeps the types and
\* that request's part of it.
LEMMA OneRequestStep ==
  ASSUME IInv, TypeOK', NEW r \in Requests, RequestInv(r)',
         \A q \in Requests \ {r} :
            /\ q \in DOMAIN store' <=> q \in DOMAIN store
            /\ q \in DOMAIN store => store'[q] = store[q]
            /\ pending'[q] = pending[q] /\ rounds'[q] = rounds[q]
            /\ outbox'[q] = outbox[q] /\ denied'[q] = denied[q]
  PROVE  IInv'
<1>1. ASSUME NEW q \in Requests, q # r PROVE RequestInv(q)'
  BY <1>1, Untouched DEF IInv
<1>2. QED
  BY <1>1 DEF IInv

\* The gate in front of the extraction lets three states through.
LEMMA GateStates ==
  ASSUME NEW state \in RequestState, AcceptsClientReply(state)
  PROVE  state \in {"RECEIVED", "EXTRACTED", "CLARIFICATION_SENT"}
BY DEF AcceptsClientReply, MayAdvance, Transitions, RequestState, TerminalStates

\* So a turn starts from no request at all, or from one awaiting a reply.
LEMMA GateOnStored ==
  ASSUME IInv, NEW r \in Requests, AcceptsClientReply(StateOf(r))
  PROVE  ~Known(r) \/ StateOf(r) = "CLARIFICATION_SENT"
<1>1. StateOf(r) \in RequestState
  BY DEF IInv, TypeOK, QuotationRequestOK, StateOf, Known, RequestState,
      TerminalStates
<1>2. StateOf(r) \in {"RECEIVED", "EXTRACTED", "CLARIFICATION_SENT"}
  BY <1>1, GateStates
<1>3. QED
  BY <1>2 DEF IInv, TypeOK, QuotationRequestOK, StateOf, Known

\* A request just created is well typed.
LEMMA FreshType ==
  ASSUME NEW state \in {"NEEDS_INFO", "CLARIFICATION_SENT", "VALIDATED", "MANUAL_REVIEW"},
         NEW record, IsShipmentRecord(record)
  PROVE  QuotationRequestOK(Fresh(state, record))
BY DEF Fresh, QuotationRequestOK

\* A turn that saves a well-formed request keeps the types of what it touches.
LEMMA SaveType ==
  ASSUME IInv, NEW r \in Requests, NEW request, QuotationRequestOK(request),
         Save(r, request)
  PROVE  /\ DOMAIN store' \subseteq Requests
         /\ \A q \in DOMAIN store' : QuotationRequestOK(store'[q])
         /\ StateOf(r)' = request.state
         /\ Known(r)'
         /\ store'[r] = request
<1>1. /\ DOMAIN store' = DOMAIN store \cup {r}
      /\ store'[r] = request
      /\ \A q \in DOMAIN store : q # r => store'[q] = store[q]
  BY SaveEffect
<1>2. \A q \in DOMAIN store' : QuotationRequestOK(store'[q])
  BY <1>1 DEF IInv, TypeOK
<1>3. StateOf(r)' = request.state /\ Known(r)'
  BY <1>1 DEF StateOf, Known
<1>4. DOMAIN store' \subseteq Requests
  BY <1>1 DEF IInv, TypeOK
<1>5. QED
  BY <1>1, <1>2, <1>3, <1>4

\* What a client declines is noted while the record lacks it, for this client only.
LEMMA NoteDenialsType ==
  ASSUME IInv, NEW r \in Requests, NEW x, NEW record, NoteDenials(r, x, record)
  PROVE  /\ denied' \in [Requests -> SUBSET FieldName]
         /\ \A q \in Requests \ {r} : denied'[q] = denied[q]
         /\ denied'[r] = {f \in denied[r] \cup FieldsByStatus(x, "DENIED") :
                             record[f] = NoValue}
BY DEF IInv, TypeOK, NoteDenials, FieldsByStatus

\* A mail is counted for its request and no other.
LEMMA SendType ==
  ASSUME IInv, NEW r \in Requests, NEW kind \in {"clarification", "reminder", "notice"},
         Send(r, kind)
  PROVE  /\ outbox' \in [Requests -> [clarification : Nat, reminder : Nat, notice : Nat]]
         /\ \A q \in Requests \ {r} : outbox'[q] = outbox[q]
         /\ outbox'[r] = [outbox[r] EXCEPT ![kind] = @ + 1]
BY DEF IInv, TypeOK, Send
-----------------------------------------------------------------------------
(* One lemma per action.                                                     *)

\* The reminder: it needs an awaited question that had none yet.
LEMMA SendFollowupStep ==
  ASSUME IInv, NEW r \in Requests, NEW x \in Readings, SendFollowup(r, x)
  PROVE  IInv'
<1> DEFINE rec == Merged(RecordOf(r), x)
<1> DEFINE request == [Fresh("CLARIFICATION_SENT", rec) EXCEPT !.followup_at = now]
<1>1. StateOf(r) = "CLARIFICATION_SENT" /\ Known(r) /\ store[r].followup_at = NoTime
  BY DEF SendFollowup, NonAnswer, StateOf
<1>2. /\ request.state = "CLARIFICATION_SENT"
      /\ request.followup_at = now
      /\ QuotationRequestOK(request)
  BY TurnTypes DEF IInv, TypeOK, Fresh, QuotationRequestOK
<1>3. Save(r, request) /\ Send(r, "reminder") /\ NoteDenials(r, x, rec)
  BY DEF SendFollowup
<1>4. UNCHANGED <<pending, rounds, now>>
  BY DEF SendFollowup
<1> HIDE DEF request, rec
<1>5. TypeOK'
  BY <1>2, <1>3, <1>4, SaveType, SendType, NoteDenialsType DEF IInv, TypeOK
<1>6. RequestInv(r)'
  <2>1. StateOf(r)' = "CLARIFICATION_SENT" /\ Known(r)' /\ store'[r].followup_at # NoTime
    BY <1>2, <1>3, SaveType, WorkflowAssumption DEF IInv, TypeOK
  <2>2. outbox'[r] = [outbox[r] EXCEPT !["reminder"] = @ + 1]
    BY <1>3, SendType
  <2>3. /\ outbox[r] \in [clarification : Nat, reminder : Nat, notice : Nat]
        /\ outbox[r].reminder + 1 <= outbox[r].clarification
        /\ outbox[r].notice = 0
    BY <1>1 DEF IInv, TypeOK, RequestInv
  <2>4. /\ outbox'[r].reminder = outbox[r].reminder + 1
        /\ outbox'[r].clarification = outbox[r].clarification
        /\ outbox'[r].notice = 0
    BY <2>2, <2>3
  <2>5. pending'[r] = {} /\ rounds'[r] = rounds[r] /\ pending[r] = {}
    BY <1>1, <1>4 DEF IInv, RequestInv
  <2>6. ~AwaitsAnswer(r)'
    BY <2>1 DEF AwaitsAnswer
  <2>7. /\ rounds[r] <= MaxRounds
        /\ outbox[r].clarification + 0 <= rounds[r]
    BY <2>5 DEF IInv, RequestInv
  <2>8. QED
    BY <2>1, <2>3, <2>4, <2>5, <2>6, <2>7 DEF RequestInv
<1>7. \A q \in Requests \ {r} :
         /\ q \in DOMAIN store' <=> q \in DOMAIN store
         /\ q \in DOMAIN store => store'[q] = store[q]
         /\ pending'[q] = pending[q] /\ rounds'[q] = rounds[q]
         /\ outbox'[q] = outbox[q] /\ denied'[q] = denied[q]
  <2>1. \A q \in Requests \ {r} : outbox'[q] = outbox[q] /\ denied'[q] = denied[q]
    BY <1>3, SendType, NoteDenialsType
  <2>2. QED
    BY <1>3, <1>4, <2>1, SaveEffect
<1>8. QED
  BY <1>5, <1>6, <1>7, OneRequestStep

\* A turn that ends with a person changes nothing but the stored request.
LEMMA HandOverStep ==
  ASSUME IInv, NEW r \in Requests, NEW x \in Readings, HandOver(r, x)
  PROVE  IInv'
<1> DEFINE rec == Merged(RecordOf(r), x)
<1> DEFINE request == Fresh("MANUAL_REVIEW", rec)
<1>1. ~Known(r) \/ StateOf(r) = "CLARIFICATION_SENT"
  BY GateOnStored DEF HandOver, Futile, Unusable, NonAnswer, Judged
<1>2. request.state = "MANUAL_REVIEW" /\ QuotationRequestOK(request)
  BY TurnTypes, FreshType DEF Fresh
<1>3. Save(r, request) /\ NoteDenials(r, x, rec)
  BY DEF HandOver
<1>4. UNCHANGED <<pending, rounds, now, outbox>>
  BY DEF HandOver
<1> HIDE DEF request, rec
<1>5. TypeOK'
  BY <1>2, <1>3, <1>4, SaveType, NoteDenialsType DEF IInv, TypeOK
<1>6. RequestInv(r)'
  <2>1. StateOf(r)' = "MANUAL_REVIEW" /\ Known(r)'
    BY <1>2, <1>3, SaveType
  <2>2. pending[r] = {} /\ StateOf(r) # "MANUAL_REVIEW"
    BY <1>1 DEF IInv, RequestInv, StateOf
  <2>3. outbox[r] \in [clarification : Nat, reminder : Nat, notice : Nat]
    BY DEF IInv, TypeOK
  <2>4. /\ rounds[r] <= MaxRounds
        /\ outbox[r].clarification + 0 <= rounds[r]
        /\ outbox[r].reminder <= outbox[r].clarification
        /\ outbox[r].notice = 0
    BY <2>2, <2>3 DEF IInv, RequestInv
  <2>5. ~AwaitsAnswer(r)'
    BY <2>1 DEF AwaitsAnswer
  <2>6. QED
    BY <1>4, <2>1, <2>2, <2>3, <2>4, <2>5 DEF RequestInv
<1>7. QED
  BY <1>3, <1>4, <1>5, <1>6, SaveEffect, NoteDenialsType, OneRequestStep

\* Nothing is left to ask: nothing is missing, because what is missing and was
\* not declined is a question, and a declined field makes the turn stuck.
LEMMA CompleteStep ==
  ASSUME IInv, NEW r \in Requests, NEW x \in Readings, Complete(r, x)
  PROVE  IInv'
<1> DEFINE rec == Merged(RecordOf(r), x)
<1> DEFINE request == Fresh("VALIDATED", rec)
<1>1. ~Known(r) \/ StateOf(r) = "CLARIFICATION_SENT"
  BY GateOnStored DEF Complete, Judged
<1>2. /\ request.state = "VALIDATED"
      /\ request.record = rec
      /\ QuotationRequestOK(request)
  BY TurnTypes, FreshType DEF Fresh
<1>3. Save(r, request) /\ NoteDenials(r, x, rec)
  BY DEF Complete
<1>4. UNCHANGED <<pending, rounds, now, outbox>>
  BY DEF Complete
<1>5. MissingFields(rec) = {}
  BY DEF Complete, Questions, Stuck, IsStuck, Unresolved, Issues
<1> HIDE DEF request, rec
<1>6. TypeOK'
  BY <1>2, <1>3, <1>4, SaveType, NoteDenialsType DEF IInv, TypeOK
<1>7. RequestInv(r)'
  <2>1. StateOf(r)' = "VALIDATED" /\ Known(r)' /\ store'[r].record = rec
    BY <1>2, <1>3, SaveType
  <2>2. pending[r] = {} /\ StateOf(r) # "MANUAL_REVIEW"
    BY <1>1 DEF IInv, RequestInv, StateOf
  <2>3. outbox[r] \in [clarification : Nat, reminder : Nat, notice : Nat]
    BY DEF IInv, TypeOK
  <2>4. /\ rounds[r] <= MaxRounds
        /\ outbox[r].clarification + 0 <= rounds[r]
        /\ outbox[r].reminder <= outbox[r].clarification
        /\ outbox[r].notice = 0
    BY <2>2, <2>3 DEF IInv, RequestInv
  <2>5. ~AwaitsAnswer(r)'
    BY <2>1 DEF AwaitsAnswer
  <2>6. QED
    BY <1>4, <1>5, <2>1, <2>2, <2>3, <2>4, <2>5 DEF RequestInv
<1>8. QED
  BY <1>3, <1>4, <1>6, <1>7, SaveEffect, NoteDenialsType, OneRequestStep

\* One draft asks for everything that is missing and was not declined.
LEMMA DraftQuestionStep ==
  ASSUME IInv, NEW r \in Requests, NEW x \in Readings, DraftQuestion(r, x)
  PROVE  IInv'
<1> DEFINE merged == Merged(RecordOf(r), x)
<1> DEFINE rec == Cleared(merged, Clashes(r, x))
<1> DEFINE request == Fresh("NEEDS_INFO", rec)
<1>1. ~Known(r) \/ StateOf(r) = "CLARIFICATION_SENT"
  BY GateOnStored DEF DraftQuestion, Judged
<1>2. /\ request.state = "NEEDS_INFO"
      /\ request.record = rec
      /\ QuotationRequestOK(request)
  BY TurnTypes, ClearedIsRecord, FreshType DEF Fresh
<1>3. Save(r, request) /\ NoteDenials(r, x, merged)
  BY DEF DraftQuestion
<1>4. /\ pending' = [pending EXCEPT ![r] = Questions(r, x)]
      /\ rounds' = [rounds EXCEPT ![r] = @ + 1]
      /\ UNCHANGED <<now, outbox>>
      /\ Questions(r, x) # {}
      /\ ~OverBudget(r)
  BY DEF DraftQuestion
<1>5. Questions(r, x) \subseteq FieldName
  BY MissingAreFields DEF Questions, Unresolved, Issues, InvalidFields, Clashes,
                          Conflicts, FieldName
<1>6. MissingFields(rec) \subseteq
        Questions(r, x) \cup {f \in denied[r] \cup FieldsByStatus(x, "DENIED") : merged[f] = NoValue}
  <2> SUFFICES ASSUME NEW f \in MissingFields(rec), f \notin Questions(r, x)
               PROVE  f \in FieldsByStatus(x, "DENIED") /\ merged[f] = NoValue
    OBVIOUS
  <2>1. f \notin Clashes(r, x)
    BY DEF Questions, Unresolved
  <2>2. f \in MissingFields(merged)
    BY <2>1, MissingAfterClearing
  <2>3. f \in FieldName /\ merged[f] = NoValue
    BY <2>2, MissingAreFields
  <2>4. f \in BlockedByDenial(merged, x, Clashes(r, x), Today)
    BY <2>1, <2>2 DEF Questions, Unresolved, Issues
  <2>5. QED
    BY <2>3, <2>4 DEF BlockedByDenial, FieldsByStatus
<1> HIDE DEF request, rec, merged
<1>7. TypeOK'
  BY <1>2, <1>3, <1>4, <1>5, SaveType, NoteDenialsType DEF IInv, TypeOK
<1>8. RequestInv(r)'
  <2>1. StateOf(r)' = "NEEDS_INFO" /\ Known(r)' /\ store'[r].record = rec
    BY <1>2, <1>3, SaveType
  <2>2. pending[r] = {} /\ StateOf(r) # "MANUAL_REVIEW"
    BY <1>1 DEF IInv, RequestInv, StateOf
  <2>3. outbox[r] \in [clarification : Nat, reminder : Nat, notice : Nat]
    BY DEF IInv, TypeOK
  <2>4. /\ rounds[r] <= MaxRounds
        /\ outbox[r].clarification + 0 <= rounds[r]
        /\ outbox[r].reminder <= outbox[r].clarification
        /\ outbox[r].notice = 0
        /\ rounds[r] \in Nat
    BY <2>2, <2>3 DEF IInv, RequestInv, TypeOK
  <2>5. rounds[r] < MaxRounds
    BY <1>1, <1>4, <2>4, WorkflowAssumption DEF OverBudget, IInv, RequestInv
  <2>6. /\ pending'[r] = Questions(r, x)
        /\ rounds'[r] = rounds[r] + 1
        /\ outbox'[r] = outbox[r]
    BY <1>4 DEF IInv, TypeOK
  <2>7. /\ rounds'[r] <= MaxRounds
        /\ outbox'[r].clarification + 1 <= rounds'[r]
    BY <2>3, <2>4, <2>5, <2>6, WorkflowAssumption
  <2>8. denied'[r] = {f \in denied[r] \cup FieldsByStatus(x, "DENIED") : merged[f] = NoValue}
    BY <1>3, NoteDenialsType
  <2>9. Asked(r)' = Questions(r, x)
    BY <1>4, <2>6 DEF Asked
  <2>10. MissingFields(store'[r].record) \subseteq Asked(r)' \cup denied'[r]
    BY <1>6, <2>1, <2>8, <2>9
  <2>11. QED
    BY <1>4, <2>1, <2>3, <2>4, <2>6, <2>7, <2>10 DEF RequestInv
<1>9. \A q \in Requests \ {r} :
         /\ q \in DOMAIN store' <=> q \in DOMAIN store
         /\ q \in DOMAIN store => store'[q] = store[q]
         /\ pending'[q] = pending[q] /\ rounds'[q] = rounds[q]
         /\ outbox'[q] = outbox[q] /\ denied'[q] = denied[q]
  <2>1. \A q \in Requests \ {r} : denied'[q] = denied[q]
    BY <1>3, NoteDenialsType
  <2>2. \A q \in Requests \ {r} : pending'[q] = pending[q] /\ rounds'[q] = rounds[q]
    BY <1>4 DEF IInv, TypeOK
  <2>3. QED
    BY <1>3, <1>4, <2>1, <2>2, SaveEffect
<1>10. QED
  BY <1>7, <1>8, <1>9, OneRequestStep

\* A reply nothing could be read from goes to a person and gets the one notice.
LEMMA ExtractionFailedStep ==
  ASSUME IInv, NEW r \in Requests, ExtractionFailed(r)
  PROVE  IInv'
<1> DEFINE request == [Fresh("MANUAL_REVIEW", RecordOf(r)) EXCEPT !.notice_sent = TRUE]
<1>1. ~Known(r) \/ StateOf(r) = "CLARIFICATION_SENT"
  BY GateOnStored DEF ExtractionFailed
<1>2. IsShipmentRecord(RecordOf(r))
  BY BlankIsRecord DEF IInv, TypeOK, QuotationRequestOK, RecordOf, Known
<1>3. request.state = "MANUAL_REVIEW" /\ QuotationRequestOK(request)
  BY <1>2 DEF Fresh, QuotationRequestOK
<1>4. Save(r, request)
  BY DEF ExtractionFailed
<1>5. UNCHANGED <<pending, rounds, now, denied>>
  BY DEF ExtractionFailed
<1>6. \/ outbox' = outbox
      \/ Send(r, "notice")
  BY DEF ExtractionFailed
<1> HIDE DEF request
<1>7. /\ outbox' \in [Requests -> [clarification : Nat, reminder : Nat, notice : Nat]]
      /\ \A q \in Requests \ {r} : outbox'[q] = outbox[q]
      /\ \/ outbox'[r] = outbox[r]
         \/ outbox'[r] = [outbox[r] EXCEPT !["notice"] = @ + 1]
  BY <1>6, SendType DEF IInv, TypeOK
<1>8. TypeOK'
  BY <1>3, <1>4, <1>5, <1>7, SaveType DEF IInv, TypeOK
<1>9. RequestInv(r)'
  <2>1. StateOf(r)' = "MANUAL_REVIEW" /\ Known(r)'
    BY <1>3, <1>4, SaveType
  <2>2. pending[r] = {} /\ StateOf(r) # "MANUAL_REVIEW"
    BY <1>1 DEF IInv, RequestInv, StateOf
  <2>3. outbox[r] \in [clarification : Nat, reminder : Nat, notice : Nat]
    BY DEF IInv, TypeOK
  <2>4. /\ rounds[r] <= MaxRounds
        /\ outbox[r].clarification + 0 <= rounds[r]
        /\ outbox[r].reminder <= outbox[r].clarification
        /\ outbox[r].notice = 0
    BY <2>2, <2>3 DEF IInv, RequestInv
  <2>5. /\ outbox'[r].clarification = outbox[r].clarification
        /\ outbox'[r].reminder = outbox[r].reminder
        /\ outbox'[r].notice \in {0, 1}
    BY <1>7, <2>3, <2>4
  <2>6. ~AwaitsAnswer(r)'
    BY <2>1 DEF AwaitsAnswer
  <2>7. QED
    BY <1>5, <2>1, <2>2, <2>3, <2>4, <2>5, <2>6 DEF RequestInv
<1>10. QED
  BY <1>4, <1>5, <1>7, <1>8, <1>9, SaveEffect, OneRequestStep

\* A silence that lasts too long goes to a person.
LEMMA SweepFollowupDeadlineStep ==
  ASSUME IInv, NEW r \in Requests, SweepFollowupDeadline(r)
  PROVE  IInv'
<1> DEFINE request == [store[r] EXCEPT !.state = "MANUAL_REVIEW"]
<1>1. Known(r) /\ StateOf(r) = "CLARIFICATION_SENT"
  BY DEF SweepFollowupDeadline, StateOf
<1>2. request.state = "MANUAL_REVIEW" /\ QuotationRequestOK(request)
  BY <1>1 DEF Known, IInv, TypeOK, QuotationRequestOK
<1>3. Save(r, request) /\ UNCHANGED <<pending, rounds, now, outbox, denied>>
  BY DEF SweepFollowupDeadline
<1> HIDE DEF request
<1>4. TypeOK'
  BY <1>2, <1>3, SaveType DEF IInv, TypeOK
<1>5. RequestInv(r)'
  <2>1. StateOf(r)' = "MANUAL_REVIEW" /\ Known(r)'
    BY <1>2, <1>3, SaveType
  <2>2. outbox[r] \in [clarification : Nat, reminder : Nat, notice : Nat]
    BY DEF IInv, TypeOK
  <2>3. /\ pending[r] = {}
        /\ rounds[r] <= MaxRounds
        /\ outbox[r].clarification + 0 <= rounds[r]
        /\ outbox[r].reminder <= outbox[r].clarification
        /\ outbox[r].notice = 0
    BY <1>1, <2>2 DEF IInv, RequestInv
  <2>4. ~AwaitsAnswer(r)'
    BY <2>1 DEF AwaitsAnswer
  <2>5. QED
    BY <1>3, <2>1, <2>2, <2>3, <2>4 DEF RequestInv
<1>6. QED
  BY <1>3, <1>4, <1>5, SaveEffect, OneRequestStep

\* A question found after validation: what is missing afterwards is what was
\* cleared, because a validated record lacked nothing.
LEMMA AskAgainStep ==
  ASSUME IInv, NEW r \in Requests, NEW fields \in SUBSET FieldName, fields # {},
         AskAgain(r, fields)
  PROVE  IInv'
<1>1. /\ Known(r) /\ StateOf(r) = "VALIDATED"
      /\ pending[r] = {}
      /\ UNCHANGED <<now, outbox, denied>>
  BY DEF AskAgain, StateOf
<1>2. QuotationRequestOK(store[r])
  BY <1>1 DEF Known, IInv, TypeOK
<1>3. /\ outbox[r] \in [clarification : Nat, reminder : Nat, notice : Nat]
      /\ rounds[r] \in Nat
  BY DEF IInv, TypeOK
<1>4. /\ rounds[r] <= MaxRounds
      /\ outbox[r].clarification <= rounds[r]
      /\ outbox[r].reminder <= outbox[r].clarification
      /\ outbox[r].notice = 0
      /\ MissingFields(store[r].record) = {}
  BY <1>1, <1>3 DEF IInv, RequestInv
<1>5. CASE rounds[r] >= MaxRounds
  <2> DEFINE request == [store[r] EXCEPT !.state = "MANUAL_REVIEW"]
  <2>1. request.state = "MANUAL_REVIEW" /\ QuotationRequestOK(request)
    BY <1>2 DEF QuotationRequestOK
  <2>2. Save(r, request) /\ UNCHANGED <<pending, rounds>>
    BY <1>5 DEF AskAgain
  <2> HIDE DEF request
  <2>3. TypeOK'
    BY <1>1, <2>1, <2>2, SaveType DEF IInv, TypeOK
  <2>4. RequestInv(r)'
    <3>1. StateOf(r)' = "MANUAL_REVIEW" /\ Known(r)'
      BY <2>1, <2>2, SaveType
    <3>2. ~AwaitsAnswer(r)'
      BY <3>1 DEF AwaitsAnswer
    <3>3. QED
      BY <1>1, <1>3, <1>4, <2>2, <3>1, <3>2 DEF RequestInv
  <2>5. QED
    BY <1>1, <2>2, <2>3, <2>4, SaveEffect, OneRequestStep
<1>6. CASE ~(rounds[r] >= MaxRounds)
  <2> DEFINE rec == Cleared(store[r].record, fields)
  <2> DEFINE request == [store[r] EXCEPT !.state = "NEEDS_INFO",
                                         !.record = Cleared(@, fields)]
  <2>1. IsShipmentRecord(rec)
    BY <1>2, ClearedIsRecord DEF QuotationRequestOK
  <2>2. /\ request.state = "NEEDS_INFO"
        /\ request.record = rec
        /\ QuotationRequestOK(request)
    BY <1>2, <2>1 DEF QuotationRequestOK
  <2>3. /\ Save(r, request)
        /\ pending' = [pending EXCEPT ![r] = fields]
        /\ rounds' = [rounds EXCEPT ![r] = @ + 1]
    BY <1>6 DEF AskAgain
  <2>4. MissingFields(rec) \subseteq fields
    BY <1>4, MissingAfterClearing
  <2> HIDE DEF request, rec
  <2>5. /\ pending'[r] = fields
        /\ rounds'[r] = rounds[r] + 1
        /\ \A q \in Requests \ {r} : pending'[q] = pending[q] /\ rounds'[q] = rounds[q]
    BY <2>3 DEF IInv, TypeOK
  <2>6. TypeOK'
    BY <1>1, <2>2, <2>3, SaveType DEF IInv, TypeOK
  <2>7. RequestInv(r)'
    <3>1. StateOf(r)' = "NEEDS_INFO" /\ Known(r)' /\ store'[r].record = rec
      BY <2>2, <2>3, SaveType
    <3>2. Asked(r)' = fields
      BY <2>5 DEF Asked
    <3>3. /\ rounds'[r] <= MaxRounds
          /\ outbox'[r].clarification + 1 <= rounds'[r]
      BY <1>1, <1>3, <1>4, <1>6, <2>5, WorkflowAssumption
    <3>4. QED
      BY <1>1, <1>3, <1>4, <2>4, <2>5, <3>1, <3>2, <3>3 DEF RequestInv
  <2>8. \A q \in Requests \ {r} :
           /\ q \in DOMAIN store' <=> q \in DOMAIN store
           /\ q \in DOMAIN store => store'[q] = store[q]
           /\ pending'[q] = pending[q] /\ rounds'[q] = rounds[q]
           /\ outbox'[q] = outbox[q] /\ denied'[q] = denied[q]
    <3>1. /\ DOMAIN store' = DOMAIN store \cup {r}
          /\ \A q \in DOMAIN store : q # r => store'[q] = store[q]
      BY <2>3, SaveEffect
    <3>2. outbox' = outbox /\ denied' = denied
      BY <1>1
    <3>3. QED
      BY <2>5, <3>1, <3>2
  <2>9. QED
    BY <2>6, <2>7, <2>8, OneRequestStep
<1>7. QED
  BY <1>5, <1>6

\* Releasing the draft makes it the question that was sent.
LEMMA ApproveClarificationStep ==
  ASSUME IInv, NEW r \in Requests, ApproveClarification(r)
  PROVE  IInv'
<1> DEFINE request == [store[r] EXCEPT !.state = "CLARIFICATION_SENT",
                                       !.asked_about = pending[r]]
<1>1. /\ StateOf(r) = "NEEDS_INFO" /\ Known(r)
      /\ pending[r] # {} /\ pending[r] \subseteq FieldName
  BY DEF ApproveClarification, IInv, TypeOK, RequestInv, StateOf
<1>2. QuotationRequestOK(store[r])
  BY <1>1 DEF Known, IInv, TypeOK
<1>3. /\ request.state = "CLARIFICATION_SENT"
      /\ request.asked_about = pending[r]
      /\ request.record = store[r].record
      /\ QuotationRequestOK(request)
  BY <1>1, <1>2 DEF QuotationRequestOK
<1>4. /\ Save(r, request)
      /\ Send(r, "clarification")
      /\ pending' = [pending EXCEPT ![r] = {}]
      /\ UNCHANGED <<rounds, now, denied>>
  BY DEF ApproveClarification
<1> HIDE DEF request
<1>5. /\ outbox' \in [Requests -> [clarification : Nat, reminder : Nat, notice : Nat]]
      /\ \A q \in Requests \ {r} : outbox'[q] = outbox[q]
      /\ outbox'[r] = [outbox[r] EXCEPT !["clarification"] = @ + 1]
  BY <1>4, SendType
<1>6. /\ pending'[r] = {}
      /\ \A q \in Requests \ {r} : pending'[q] = pending[q]
  BY <1>4 DEF IInv, TypeOK
<1>7. TypeOK'
  BY <1>3, <1>4, <1>5, SaveType DEF IInv, TypeOK
<1>8. RequestInv(r)'
  <2>1. StateOf(r)' = "CLARIFICATION_SENT" /\ Known(r)' /\ store'[r] = request
    BY <1>3, <1>4, SaveType
  <2>2. outbox[r] \in [clarification : Nat, reminder : Nat, notice : Nat]
    BY DEF IInv, TypeOK
  <2>3. /\ rounds[r] <= MaxRounds
        /\ outbox[r].clarification + 1 <= rounds[r]
        /\ outbox[r].reminder <= outbox[r].clarification
        /\ outbox[r].notice = 0
        /\ MissingFields(store[r].record) \subseteq pending[r] \cup denied[r]
    BY <1>1, <2>2 DEF IInv, RequestInv, AwaitsAnswer, Asked
  <2>4. /\ outbox'[r].clarification = outbox[r].clarification + 1
        /\ outbox'[r].reminder = outbox[r].reminder
        /\ outbox'[r].notice = 0
    BY <1>5, <2>2, <2>3
  <2>5. Asked(r)' = pending[r]
    BY <1>3, <1>6, <2>1 DEF Asked
  <2>6. /\ outbox'[r].clarification + 0 <= rounds'[r]
        /\ outbox'[r].reminder + 1 <= outbox'[r].clarification
        /\ outbox'[r].reminder + 0 <= outbox'[r].clarification
        /\ rounds'[r] <= MaxRounds
    BY <1>4, <2>2, <2>3, <2>4
  <2>7. MissingFields(store'[r].record) \subseteq Asked(r)' \cup denied'[r]
    BY <1>3, <1>4, <2>1, <2>3, <2>5
  <2>8. QED
    BY <1>6, <2>1, <2>4, <2>6, <2>7 DEF RequestInv
<1>9. \A q \in Requests \ {r} :
         /\ q \in DOMAIN store' <=> q \in DOMAIN store
         /\ q \in DOMAIN store => store'[q] = store[q]
         /\ pending'[q] = pending[q] /\ rounds'[q] = rounds[q]
         /\ outbox'[q] = outbox[q] /\ denied'[q] = denied[q]
  <2>1. /\ DOMAIN store' = DOMAIN store \cup {r}
        /\ \A q \in DOMAIN store : q # r => store'[q] = store[q]
    BY <1>4, SaveEffect
  <2>2. rounds' = rounds /\ denied' = denied
    BY <1>4
  <2>3. QED
    BY <1>5, <1>6, <2>1, <2>2
<1>10. QED
  BY <1>7, <1>8, <1>9, OneRequestStep
-----------------------------------------------------------------------------
(* The theorems.                                                             *)

\* No request exists yet.
LEMMA InitIInv == Init => IInv
<1> SUFFICES ASSUME Init PROVE IInv
  OBVIOUS
<1>1. TypeOK
  BY DEF Init, TypeOK
<1>2. ASSUME NEW r \in Requests PROVE RequestInv(r)
  <2>1. ~Known(r) /\ StateOf(r) = "RECEIVED"
    BY DEF Init, Known, StateOf
  <2>2. ~AwaitsAnswer(r)
    BY <2>1 DEF AwaitsAnswer
  <2>3. outbox[r] = [clarification |-> 0, reminder |-> 0, notice |-> 0]
    BY DEF Init
  <2>4. pending[r] = {} /\ rounds[r] = 0
    BY DEF Init
  <2>5. QED
    BY <2>1, <2>2, <2>3, <2>4, WorkflowAssumption DEF RequestInv
<1>3. QED
  BY <1>1, <1>2 DEF IInv

\* A step that changes nothing.
LEMMA StutterIInv == ASSUME IInv, UNCHANGED vars PROVE IInv'
<1>1. TypeOK'
  BY DEF IInv, TypeOK, vars
<1>2. ASSUME NEW r \in Requests PROVE RequestInv(r)'
  BY Untouched DEF IInv, vars
<1>3. QED
  BY <1>1, <1>2 DEF IInv

\* The clock moves on.
LEMMA TickStep == ASSUME IInv, Tick PROVE IInv'
<1>1. TypeOK'
  BY DEF IInv, TypeOK, Tick
<1>2. ASSUME NEW r \in Requests PROVE RequestInv(r)'
  BY Untouched DEF IInv, Tick
<1>3. QED
  BY <1>1, <1>2 DEF IInv

\* Every step.
LEMMA NextStep == ASSUME IInv, [Next]_vars PROVE IInv'
<1>1. CASE UNCHANGED vars
  BY <1>1, StutterIInv
<1>2. CASE Tick
  BY <1>2, TickStep
<1>3. ASSUME NEW r \in Requests, Handle(r) PROVE IInv'
  <2>1. CASE ExtractionFailed(r)
    BY <2>1, ExtractionFailedStep
  <2>2. ASSUME NEW x \in Readings,
               SendFollowup(r, x) \/ HandOver(r, x) \/ DraftQuestion(r, x) \/ Complete(r, x)
        PROVE  IInv'
    BY <2>2, SendFollowupStep, HandOverStep, DraftQuestionStep, CompleteStep
  <2>3. QED
    BY <1>3, <2>1, <2>2 DEF Handle
<1>4. ASSUME NEW r \in Requests, SweepFollowupDeadline(r) PROVE IInv'
  BY <1>4, SweepFollowupDeadlineStep
<1>5. ASSUME NEW r \in Requests, RequestShipDateClarification(r) PROVE IInv'
  BY <1>5, AskAgainStep DEF RequestShipDateClarification, FieldName
<1>6. ASSUME NEW r \in Requests, NEW places \in SUBSET {"origin", "destination"},
             RequestLocationClarification(r, places)
      PROVE  IInv'
  <2>1. places \in SUBSET FieldName
    BY DEF FieldName
  <2>2. QED
    BY <1>6, <2>1, AskAgainStep DEF RequestLocationClarification
<1>7. ASSUME NEW r \in Requests, ApproveClarification(r) PROVE IInv'
  BY <1>7, ApproveClarificationStep
<1>8. QED
  BY <1>1, <1>2, <1>3, <1>4, <1>5, <1>6, <1>7 DEF Next

\* Every handler of the workflow keeps the inductive invariant.
THEOREM Invariance == Spec => []IInv
<1>1. Init => IInv
  BY InitIInv
<1>2. IInv /\ [Next]_vars => IInv'
  BY NextStep
<1>3. QED
  BY <1>1, <1>2, PTL DEF Spec

\* The stored requests, the drafts and the counters keep their types, and no
\* turn leaves a request at a state it should only pass through.
THEOREM TypeCorrect == Spec => []TypeOK
<1>1. IInv => TypeOK
  BY DEF IInv
<1>2. QED
  BY <1>1, Invariance, PTL

\* A draft is held for a request exactly while it waits at NEEDS_INFO.
THEOREM DraftHeld == Spec => []DraftHeldForNeedsInfo
<1>1. IInv => DraftHeldForNeedsInfo
  BY DEF IInv, RequestInv, DraftHeldForNeedsInfo
<1>2. QED
  BY <1>1, Invariance, PTL

\* BR-9: what the record lacks is in the one question, or was declined.
THEOREM OneQuestionForAll == Spec => []EverythingOutstandingIsAsked
<1>1. IInv => EverythingOutstandingIsAsked
  BY DEF IInv, RequestInv, EverythingOutstandingIsAsked
<1>2. QED
  BY <1>1, Invariance, PTL

\* A request at VALIDATED lacks no field that pricing needs.
THEOREM ValidatedComplete == Spec => []ValidatedIsComplete
<1>1. IInv => ValidatedIsComplete
  BY DEF IInv, RequestInv, ValidatedIsComplete
<1>2. QED
  BY <1>1, Invariance, PTL

\* The client gets no more reminders than questions a person released.
THEOREM NoReminderLoop == Spec => []OneReminderPerClarification
<1>1. IInv => OneReminderPerClarification
  <2> SUFFICES ASSUME IInv, NEW r \in Requests
               PROVE  outbox[r].reminder <= outbox[r].clarification
    BY DEF OneReminderPerClarification
  <2>1. outbox[r] \in [clarification : Nat, reminder : Nat, notice : Nat]
    BY DEF IInv, TypeOK
  <2>2. QED
    BY <2>1 DEF IInv, RequestInv
<1>2. QED
  BY <1>1, Invariance, PTL

\* The client is asked at most MaxRounds times, whatever the order of replies,
\* approvals and questions found after validation.
THEOREM BudgetKept == Spec => []RoundBudgetKept
<1>1. IInv => RoundBudgetKept
  <2> SUFFICES ASSUME IInv, NEW r \in Requests
               PROVE  outbox[r].clarification <= MaxRounds
    BY DEF RoundBudgetKept
  <2>1. /\ outbox[r] \in [clarification : Nat, reminder : Nat, notice : Nat]
        /\ rounds[r] \in Nat
    BY DEF IInv, TypeOK
  <2>2. QED
    BY <2>1, WorkflowAssumption DEF IInv, RequestInv
<1>2. QED
  BY <1>1, Invariance, PTL

\* A request is told at most once that its email could not be read.
THEOREM OneFailureNotice == Spec => []AtMostOneFailureNotice
<1>1. IInv => AtMostOneFailureNotice
  BY DEF IInv, RequestInv, AtMostOneFailureNotice
<1>2. QED
  BY <1>1, Invariance, PTL
-----------------------------------------------------------------------------
(* Facts are kept.                                                           *)

\* A step that does not write a request keeps what it knows.
LEMMA OthersKept ==
  ASSUME NEW r \in Requests, NEW request, Save(r, request),
         NEW q \in DOMAIN store, q # r, NEW f \in FieldName
  PROVE  FactKept(q, f)
BY SaveEffect DEF FactKept

\* A step that stores the merged record keeps every known value.
LEMMA MergeKeeps ==
  ASSUME NEW r \in Requests, NEW x, NEW request, Save(r, request),
         request.record = Merged(RecordOf(r), x),
         NEW q \in DOMAIN store, NEW f \in FieldName
  PROVE  FactKept(q, f)
<1>1. CASE q # r
  BY <1>1, OthersKept
<1>2. CASE q = r
  <2>1. store'[q].record = Merged(store[q].record, x)
    BY <1>2, SaveEffect DEF RecordOf, Known
  <2>2. QED
    BY <2>1 DEF FactKept, Merged
<1>3. QED
  BY <1>1, <1>2

\* A step that clears fields it asks about keeps the rest.
LEMMA ClearKeeps ==
  ASSUME NEW r \in Requests, NEW rec, NEW fields, NEW request, Save(r, request),
         request.record = Cleared(rec, fields),
         \A f \in FieldName :
            Known(r) => rec[f] = store[r].record[f] \/ store[r].record[f] = NoValue,
         \A f \in fields : f \in pending'[r],
         NEW q \in DOMAIN store, NEW f \in FieldName
  PROVE  FactKept(q, f)
<1>1. CASE q # r
  BY <1>1, OthersKept
<1>2. CASE q = r
  <2>1. store'[q].record = Cleared(rec, fields) /\ Known(r)
    BY <1>2, SaveEffect DEF Known
  <2>2. QED
    BY <1>2, <2>1 DEF FactKept, Cleared
<1>3. QED
  BY <1>1, <1>2

\* A turn keeps what is known.
LEMMA HandleKeeps ==
  ASSUME IInv, NEW r \in Requests, Handle(r), NEW q \in DOMAIN store, NEW f \in FieldName
  PROVE  FactKept(q, f)
<1>1. ASSUME NEW x \in Readings, SendFollowup(r, x) PROVE FactKept(q, f)
  <2> DEFINE request == [Fresh("CLARIFICATION_SENT", Merged(RecordOf(r), x))
                           EXCEPT !.followup_at = now]
  <2>1. Save(r, request) /\ request.record = Merged(RecordOf(r), x)
    BY <1>1 DEF SendFollowup, Fresh
  <2>2. QED
    BY <2>1, MergeKeeps
<1>2. ASSUME NEW x \in Readings, HandOver(r, x) PROVE FactKept(q, f)
  <2> DEFINE request == Fresh("MANUAL_REVIEW", Merged(RecordOf(r), x))
  <2>1. Save(r, request) /\ request.record = Merged(RecordOf(r), x)
    BY <1>2 DEF HandOver, Fresh
  <2>2. QED
    BY <2>1, MergeKeeps
<1>3. ASSUME NEW x \in Readings, Complete(r, x) PROVE FactKept(q, f)
  <2> DEFINE request == Fresh("VALIDATED", Merged(RecordOf(r), x))
  <2>1. Save(r, request) /\ request.record = Merged(RecordOf(r), x)
    BY <1>3 DEF Complete, Fresh
  <2>2. QED
    BY <2>1, MergeKeeps
<1>4. ASSUME NEW x \in Readings, DraftQuestion(r, x) PROVE FactKept(q, f)
  <2> DEFINE merged == Merged(RecordOf(r), x)
  <2> DEFINE request == Fresh("NEEDS_INFO", Cleared(merged, Clashes(r, x)))
  <2>1. Save(r, request) /\ request.record = Cleared(merged, Clashes(r, x))
    BY <1>4 DEF DraftQuestion, Fresh
  <2>2. \A g \in FieldName :
           Known(r) => merged[g] = store[r].record[g] \/ store[r].record[g] = NoValue
    BY DEF Merged, RecordOf
  <2>3. pending'[r] = Questions(r, x)
    BY <1>4 DEF DraftQuestion, IInv, TypeOK
  <2>4. \A g \in Clashes(r, x) : g \in pending'[r]
    BY <2>3 DEF Questions, Unresolved
  <2> HIDE DEF request, merged
  <2>5. QED
    BY <2>1, <2>2, <2>4, ClearKeeps
<1>5. CASE ExtractionFailed(r)
  <2> DEFINE request == [Fresh("MANUAL_REVIEW", RecordOf(r)) EXCEPT !.notice_sent = TRUE]
  <2>1. Save(r, request) /\ request.record = RecordOf(r)
    BY <1>5 DEF ExtractionFailed, Fresh
  <2> HIDE DEF request
  <2>2. CASE q # r
    BY <2>1, <2>2, OthersKept
  <2>3. CASE q = r
    <3>1. store'[q].record = store[q].record
      BY <2>1, <2>3, SaveEffect DEF RecordOf, Known
    <3>2. QED
      BY <3>1 DEF FactKept
  <2>4. QED
    BY <2>2, <2>3
<1>6. QED
  BY <1>1, <1>2, <1>3, <1>4, <1>5 DEF Handle

\* A person asking again drops only values of the fields asked for.
LEMMA AskAgainKeeps ==
  ASSUME IInv, NEW r \in Requests, NEW fields, AskAgain(r, fields),
         NEW q \in DOMAIN store, NEW f \in FieldName
  PROVE  FactKept(q, f)
<1>1. r \in DOMAIN store
  BY DEF AskAgain, StateOf, Known
<1>2. QuotationRequestOK(store[r])
  BY <1>1 DEF IInv, TypeOK
<1>3. CASE rounds[r] >= MaxRounds
  <2> DEFINE request == [store[r] EXCEPT !.state = "MANUAL_REVIEW"]
  <2>1. Save(r, request) /\ request.record = store[r].record
    BY <1>2, <1>3 DEF AskAgain, QuotationRequestOK
  <2> HIDE DEF request
  <2>2. QED
    BY <2>1, SaveEffect DEF FactKept
<1>4. CASE ~(rounds[r] >= MaxRounds)
  <2> DEFINE request == [store[r] EXCEPT !.state = "NEEDS_INFO",
                                         !.record = Cleared(@, fields)]
  <2>1. Save(r, request) /\ request.record = Cleared(store[r].record, fields)
    BY <1>2, <1>4 DEF AskAgain, QuotationRequestOK
  <2>2. pending'[r] = fields
    BY <1>4 DEF AskAgain, IInv, TypeOK
  <2> HIDE DEF request
  <2>3. QED
    BY <2>1, <2>2, ClearKeeps
<1>5. QED
  BY <1>3, <1>4

\* The other steps store the record they found.
LEMMA RecordUntouched ==
  ASSUME IInv, NEW r \in Requests, SweepFollowupDeadline(r) \/ ApproveClarification(r),
         NEW q \in DOMAIN store, NEW f \in FieldName
  PROVE  FactKept(q, f)
<1>1. r \in DOMAIN store
  BY DEF SweepFollowupDeadline, ApproveClarification, StateOf, Known, IInv, RequestInv
<1>2. QuotationRequestOK(store[r])
  BY <1>1 DEF IInv, TypeOK
<1>3. PICK request : Save(r, request) /\ request.record = store[r].record
  <2>1. CASE SweepFollowupDeadline(r)
    <3> WITNESS [store[r] EXCEPT !.state = "MANUAL_REVIEW"]
    <3>1. QED
      BY <1>2, <2>1 DEF SweepFollowupDeadline, QuotationRequestOK
  <2>2. CASE ApproveClarification(r)
    <3> WITNESS [store[r] EXCEPT !.state = "CLARIFICATION_SENT",
                                 !.asked_about = pending[r]]
    <3>1. QED
      BY <1>2, <2>2 DEF ApproveClarification, QuotationRequestOK
  <2>3. QED
    BY <2>1, <2>2
<1>4. QED
  BY <1>3, SaveEffect DEF FactKept

\* BR-8, rule 3, at the level of the whole workflow: no turn, no question found
\* after validation and no hand-over changes what the client said; a value is
\* dropped only for a field the client is about to be asked for.
THEOREM FactsKept == Spec => KnownFactsAreKept
<1>1. ASSUME IInv, [Next]_vars, NEW q \in DOMAIN store, NEW f \in FieldName
      PROVE  FactKept(q, f)
  <2>1. CASE UNCHANGED vars \/ Tick
    BY <1>1, <2>1 DEF vars, Tick, FactKept
  <2>2. ASSUME NEW r \in Requests, Handle(r) PROVE FactKept(q, f)
    BY <1>1, <2>2, HandleKeeps
  <2>3. ASSUME NEW r \in Requests, SweepFollowupDeadline(r) \/ ApproveClarification(r)
        PROVE  FactKept(q, f)
    BY <1>1, <2>3, RecordUntouched
  <2>4. ASSUME NEW r \in Requests, NEW fields, AskAgain(r, fields) PROVE FactKept(q, f)
    BY <1>1, <2>4, AskAgainKeeps
  <2>5. QED
    BY <1>1, <2>1, <2>2, <2>3, <2>4
       DEF Next, RequestShipDateClarification, RequestLocationClarification
<1>2. IInv /\ [Next]_vars => [\A r \in DOMAIN store : \A f \in FieldName : FactKept(r, f)]_vars
  BY <1>1
<1>3. QED
  BY <1>2, Invariance, PTL DEF Spec, KnownFactsAreKept

-----------------------------------------------------------------------------
(* A validated request has a live date.                                      *)

\* A step that saves a request in another state validates none.
LEMMA OtherStatesValidateNothing ==
  ASSUME NEW r \in Requests, NEW request, Save(r, request), request.state # "VALIDATED",
         NEW q \in Requests, StateOf(q) # "VALIDATED"
  PROVE  StateOf(q)' # "VALIDATED"
<1>1. CASE q = r
  BY <1>1, SaveEffect DEF StateOf, Known
<1>2. CASE q # r
  BY <1>2, SaveEffect DEF StateOf, Known
<1>3. QED
  BY <1>1, <1>2

\* The turn that validates found nothing to ask about, the date included.
LEMMA CompleteHasLiveDate ==
  ASSUME IInv, NEW r \in Requests, NEW x \in Readings, Complete(r, x),
         NEW q \in Requests, StateOf(q) # "VALIDATED", StateOf(q)' = "VALIDATED"
  PROVE  store'[q].record["ship_date"] >= Today
<1> DEFINE rec == Merged(RecordOf(r), x)
<1>1. Save(r, Fresh("VALIDATED", rec))
  BY DEF Complete
<1>2. q = r
  <2>1. ASSUME q # r PROVE StateOf(q)' = StateOf(q)
    BY <1>1, <2>1, SaveEffect DEF StateOf, Known
  <2>2. QED
    BY <2>1
<1>3. store'[q].record = rec
  <2> DEFINE request == Fresh("VALIDATED", rec)
  <2>1. Save(r, request) /\ request.record = rec
    BY <1>1 DEF Fresh
  <2> HIDE DEF request
  <2>2. QED
    BY <1>2, <2>1, SaveEffect
<1>4. MissingFields(rec) = {} /\ InvalidFields(rec, Today) = {}
  BY DEF Complete, Questions, Stuck, IsStuck, Unresolved, Issues
<1>5. IsShipmentRecord(rec)
  BY TurnTypes
<1> HIDE DEF rec
<1>6. rec["ship_date"] # NoValue
  BY <1>4 DEF MissingFields, RequiredFields, AlwaysRequired, FieldName
<1>7. rec["ship_date"] \in Nat
  BY <1>5, <1>6 DEF IsShipmentRecord, Domain, FieldName
<1>8. ~(rec["ship_date"] < Today)
  BY <1>4, <1>6 DEF InvalidFields
<1>9. Today \in Nat
  BY TodayType DEF IInv, TypeOK
<1>10. QED
  BY <1>3, <1>7, <1>8, <1>9

\* VR-13 on the whole workflow: whichever emails a request was put together from and
\* however long it waited for them, the turn that validates it does so with a shipment
\* date that has not passed.
THEOREM LiveDate == Spec => ValidatedWithLiveDate
<1> DEFINE Live(q) == StateOf(q) # "VALIDATED" /\ StateOf(q)' = "VALIDATED"
                         => store'[q].record["ship_date"] >= Today
<1>1. ASSUME IInv, [Next]_vars, NEW q \in Requests PROVE Live(q)
  <2>1. CASE UNCHANGED vars \/ Tick
    BY <2>1 DEF vars, Tick, StateOf, Known
  <2>2. ASSUME NEW r \in Requests, Handle(r) PROVE Live(q)
    <3>1. ASSUME NEW x \in Readings, Complete(r, x) PROVE Live(q)
      BY <1>1, <3>1, CompleteHasLiveDate
    <3>2. ASSUME NEW x \in Readings,
                 SendFollowup(r, x) \/ HandOver(r, x) \/ DraftQuestion(r, x)
          PROVE  \E request : Save(r, request) /\ request.state # "VALIDATED"
      BY <3>2 DEF SendFollowup, HandOver, DraftQuestion, Fresh
    <3>3. ASSUME ExtractionFailed(r)
          PROVE  \E request : Save(r, request) /\ request.state # "VALIDATED"
      BY <3>3 DEF ExtractionFailed, Fresh
    <3>4. QED
      BY <1>1, <2>2, <3>1, <3>2, <3>3, OtherStatesValidateNothing DEF Handle
  <2>3. ASSUME NEW r \in Requests, SweepFollowupDeadline(r) \/ ApproveClarification(r)
        PROVE  Live(q)
    <3>1. PICK request : Save(r, request) /\ request.state # "VALIDATED"
      <4>1. r \in DOMAIN store
        BY <1>1, <2>3 DEF SweepFollowupDeadline, ApproveClarification, StateOf, Known, IInv, RequestInv
      <4>2. QuotationRequestOK(store[r])
        BY <1>1, <4>1 DEF IInv, TypeOK
      <4>3. /\ [store[r] EXCEPT !.state = "MANUAL_REVIEW"].state = "MANUAL_REVIEW"
            /\ [store[r] EXCEPT !.state = "CLARIFICATION_SENT",
                                !.asked_about = pending[r]].state = "CLARIFICATION_SENT"
        BY <4>2 DEF QuotationRequestOK
      <4>4. QED
        BY <2>3, <4>3 DEF SweepFollowupDeadline, ApproveClarification
    <3>2. QED
      BY <1>1, <3>1, OtherStatesValidateNothing
  <2>4. ASSUME NEW r \in Requests, NEW fields, AskAgain(r, fields) PROVE Live(q)
    <3>1. PICK request : Save(r, request) /\ request.state # "VALIDATED"
      <4>1. r \in DOMAIN store
        BY <2>4 DEF AskAgain, StateOf, Known
      <4>2. QuotationRequestOK(store[r])
        BY <1>1, <4>1 DEF IInv, TypeOK
      <4>3. /\ [store[r] EXCEPT !.state = "MANUAL_REVIEW"].state = "MANUAL_REVIEW"
            /\ [store[r] EXCEPT !.state = "NEEDS_INFO",
                                !.record = Cleared(@, fields)].state = "NEEDS_INFO"
        BY <4>2 DEF QuotationRequestOK
      <4>4. QED
        BY <2>4, <4>3 DEF AskAgain
    <3>2. QED
      BY <1>1, <3>1, OtherStatesValidateNothing
  <2>5. QED
    BY <1>1, <2>1, <2>2, <2>3, <2>4
       DEF Next, RequestShipDateClarification, RequestLocationClarification
<1>2. IInv /\ [Next]_vars
        => [\A r \in Requests :
              StateOf(r) # "VALIDATED" /\ StateOf(r)' = "VALIDATED"
                => store'[r].record["ship_date"] >= Today]_vars
  BY <1>1
<1> HIDE DEF Live
<1>3. QED
  BY <1>2, Invariance, PTL DEF Spec, ValidatedWithLiveDate
=============================================================================

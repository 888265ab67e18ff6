---------------------------- MODULE QuotationDesk ----------------------------
(***************************************************************************)
(* interface/web/live_session.py with pipeline/quotation.py and the recorded *)
(* decision gate: what one server process keeps of every request, what it   *)
(* commits, and what a restart makes of it.                                  *)
(*                                                                          *)
(* A request lives three times: in the durable store, in the working store  *)
(* the pipeline writes to, and in the view the operator acts on. Handlers   *)
(* run one at a time under the server's lock, but an exception or a crash   *)
(* can end one between two of its effects. A refused send and a crash after *)
(* a final mail are actions of their own; a commit the store refuses while  *)
(* the process lives is an outcome of Commit, in whichever handler makes    *)
(* it. A handler that raises before its first effect (a clarification the   *)
(* provider refused to send, a poll that meets a transition the table       *)
(* forbids) is a stuttering step.                                           *)
(***************************************************************************)
EXTENDS RequestStates, Naturals

CONSTANTS Requests,    \* request ids
          MaxRounds,   \* questions a request may be asked (max_rounds)
          MaxCrashes,  \* bound: restarts in a behaviour
          MaxFailures  \* bound: sends and commits refused, job results lost

ASSUME DeskAssumption ==
    /\ MaxRounds \in Nat \ {0}
    /\ MaxCrashes \in Nat
    /\ MaxFailures \in Nat

VARIABLES durable,  \* request id -> the state last committed
          working,  \* request id -> the state in the process's own store
          desk,     \* request id -> the operator's view (LiveRequest)
          rounds,   \* request id -> questions drafted by this process
          trouble,  \* request id -> why its record cannot be searched, if it cannot
          slot,     \* the decision waiting at the gate: {} or {<<request, choice>>}
          decided,  \* the requests this process's quotation stage has decided
          tally,    \* history: request id -> approvals, mails, mails not recorded
          crashes, failures

vars == <<durable, working, desk, rounds, trouble, slot, decided, tally, crashes, failures>>

Choice == {"approve", "decline"}
Trouble == {"none", "date", "place"}

\* Restored views are rewound to VALIDATED: a packet is never persisted.
Rederived == {"RATE_SELECTED", "PENDING_APPROVAL"}
Settled == {"QUOTATION_SENT", "MAKER_REJECTED"}

View(state) ==
    [state |-> state, draft |-> FALSE, picker |-> FALSE, job |-> FALSE,
     failed |-> FALSE, searched |-> FALSE, card |-> FALSE, decision |-> "none"]

\* Mutant: a finished request without rates is taken up again.
MutRestored(state) ==
    View(IF state \in Rederived \cup {"CLOSED_NO_RATES"} THEN "VALIDATED" ELSE state)

Restored(state) == View(IF state \in Rederived THEN "VALIDATED" ELSE state)

Work(r, state) == working' = [working EXCEPT ![r] = state]
Show(r, view) == desk' = [desk EXCEPT ![r] = view]
Refused == failures < MaxFailures /\ failures' = failures + 1

\* A commit can raise while the process goes on; the store may have the write
\* all the same (a timeout, or the thread's file refused after the request's).
Commit(r, state) ==
    LET stored == [durable EXCEPT ![r] = state] IN
    \/ durable' = stored /\ UNCHANGED failures
    \/ durable' \in {durable, stored} /\ Refused

Add(counts, r, what, n) == [counts EXCEPT ![r][what] = @ + n]

\* A final mail goes out: `lost` is 1 if no later process will know of it.
Mailed(counts, r, what, lost) == Add(Add(counts, r, what, 1), r, "lost", lost)

Unrecorded(r, state) == IF durable'[r] = state THEN 0 ELSE 1

Init ==
    /\ durable = [r \in Requests |-> "ABSENT"]
    /\ working = durable
    /\ desk = [r \in Requests |-> View("ABSENT")]
    /\ rounds = [r \in Requests |-> 0]
    /\ trouble = [r \in Requests |-> "none"]
    /\ slot = {}
    /\ decided = {}
    /\ tally = [r \in Requests |-> [approval |-> 0, quotation |-> 0, notice |-> 0, lost |-> 0]]
    /\ crashes = 0 /\ failures = 0

gate == <<slot, decided>>
bounds == <<crashes, failures>>
-----------------------------------------------------------------------------
(* The conversation with the client, as ClarificationWorkflow conducts it.   *)

\* A client message, or the deadline sweep: a draft nobody approved is not
\* committed, everything else is.
ClientTurn(r, state) ==
    /\ \/ working[r] = "CLARIFICATION_SENT"
       \/ working[r] = "ABSENT" /\ state # "CLARIFICATION_SENT"
    /\ Work(r, state)
    /\ Show(r, [desk[r] EXCEPT !.state = state, !.draft = (state = "NEEDS_INFO")])
    /\ IF state = "NEEDS_INFO"
       THEN /\ rounds[r] < MaxRounds
            /\ rounds' = [rounds EXCEPT ![r] = @ + 1]
            /\ UNCHANGED <<durable, failures>>
       ELSE /\ Commit(r, state)
            /\ UNCHANGED rounds
    /\ \E t \in {"none", "place"} :
          trouble' = IF state = "VALIDATED" THEN [trouble EXCEPT ![r] = t] ELSE trouble
    /\ UNCHANGED <<gate, tally, crashes>>

\* A person releases the draft; the question is out before it is committed.
ApproveClarification(r) ==
    /\ desk[r].draft /\ desk[r].state = "NEEDS_INFO"
    /\ Work(r, "CLARIFICATION_SENT") /\ Commit(r, "CLARIFICATION_SENT")
    /\ Show(r, [desk[r] EXCEPT !.state = "CLARIFICATION_SENT", !.draft = FALSE])
    /\ UNCHANGED <<rounds, trouble, gate, tally, crashes>>

\* A message for a request that takes no more answers: a speed-or-price wish in
\* it is written to the working store, and whatever that holds is committed.
LateMessage(r) ==
    /\ working[r] \notin {"ABSENT", "CLARIFICATION_SENT", "NEEDS_INFO"}
    /\ desk[r].decision = "none"
    /\ Commit(r, working[r])
    /\ UNCHANGED <<working, desk, rounds, trouble, gate, tally, crashes>>

-----------------------------------------------------------------------------
(* The poll's rate search, one request at a time.                            *)

\* Mutant: a request whose card is up is searched again.
MutToBeSearched(r) ==
    desk[r].card \/ (desk[r].state = "VALIDATED" /\ ~desk[r].searched)

ToBeSearched(r) == desk[r].state = "VALIDATED" /\ ~desk[r].searched

\* Mutant: an unresolved place is neither asked about nor searched.
MutCannotSearch(r) == ToBeSearched(r) /\ ~desk[r].job /\ trouble[r] = "date"

\* A date that passed, or a place that names no airport. A job already on its
\* way is left to finish.
CannotSearch(r) == ToBeSearched(r) /\ ~desk[r].job /\ trouble[r] # "none"

\* Mutant: one question too many.
MutBudgetSpent(r) == rounds[r] > MaxRounds

BudgetSpent(r) == rounds[r] >= MaxRounds

\* Ask the client, or with the budget spent hand over. Only the hand-over for a
\* date is committed. What the table forbids raises and aborts the poll.
AskQuestion(r) ==
    /\ CannotSearch(r)
    /\ IF BudgetSpent(r)
       THEN /\ MayAdvance(working[r], "MANUAL_REVIEW")
            /\ Work(r, "MANUAL_REVIEW")
            /\ Show(r, [desk[r] EXCEPT !.state = "MANUAL_REVIEW", !.failed = FALSE])
            /\ IF trouble[r] = "date"
               THEN Commit(r, "MANUAL_REVIEW")
               ELSE UNCHANGED <<durable, failures>>
            /\ UNCHANGED rounds
       ELSE /\ MayAdvance(working[r], "NEEDS_INFO")
            /\ Work(r, "NEEDS_INFO")
            /\ Show(r, [desk[r] EXCEPT !.state = "NEEDS_INFO", !.draft = TRUE, !.failed = FALSE])
            /\ rounds' = [rounds EXCEPT ![r] = @ + 1]
            /\ UNCHANGED <<durable, failures>>
    /\ UNCHANGED <<trouble, gate, tally, crashes>>

\* The goods type is decided, or the search is held for an operator to pick it.
Enqueue(r) ==
    /\ ToBeSearched(r)
    /\ ~desk[r].job
    /\ trouble[r] = "none"
    /\ \/ Show(r, [desk[r] EXCEPT !.job = TRUE, !.picker = FALSE, !.failed = FALSE])
       \/ Show(r, [desk[r] EXCEPT !.picker = TRUE])
    /\ UNCHANGED <<durable, working, rounds, trouble, gate, tally, bounds>>

\* The pick is stored on the working request, and that request is committed.
PickGoodsType(r) ==
    /\ desk[r].picker
    /\ Show(r, [desk[r] EXCEPT !.picker = FALSE])
    /\ Commit(r, working[r])
    /\ UNCHANGED <<working, rounds, trouble, gate, tally, crashes>>

JobReady(r) == ToBeSearched(r) /\ desk[r].job

\* The job cannot be built or queued, its status cannot be read, or it failed
\* and is kept as failed: the view says so. A place that names no airport kept
\* the job from being queued, so a failed job is never dropped for it here.
SearchFails(r) ==
    /\ ToBeSearched(r) /\ (desk[r].job \/ trouble[r] = "none")
    /\ Show(r, [desk[r] EXCEPT !.failed = TRUE])
    /\ UNCHANGED <<durable, working, rounds, trouble, gate, tally, bounds>>

\* The worker put the job back on the queue: it reads as pending again.
JobPending(r) ==
    /\ JobReady(r)
    /\ Show(r, [desk[r] EXCEPT !.failed = FALSE])
    /\ UNCHANGED <<durable, working, rounds, trouble, gate, tally, bounds>>

\* What the view shows of a search that ended.
Outcome(r, state, card) ==
    Show(r, [desk[r] EXCEPT !.state = state, !.searched = TRUE, !.card = card, !.failed = FALSE])

\* A rate is selected: the approval card goes up.
RatesFound(r) ==
    /\ JobReady(r)
    /\ Outcome(r, "RATE_SELECTED", TRUE)
    /\ UNCHANGED <<durable, working, rounds, trouble, gate, tally, bounds>>

\* Rates came back but none is eligible: a person takes over, nobody is mailed.
RatesExcluded(r) ==
    /\ JobReady(r)
    /\ Work(r, "MANUAL_REVIEW") /\ Commit(r, "MANUAL_REVIEW")
    /\ Outcome(r, "MANUAL_REVIEW", FALSE)
    /\ UNCHANGED <<rounds, trouble, gate, tally, crashes>>

\* Mutant: the request is closed before the notice is sent.
MutNoticeRefused(r) ==
    /\ JobReady(r)
    /\ Refused
    /\ Work(r, "CLOSED_NO_RATES") /\ durable' = [durable EXCEPT ![r] = "CLOSED_NO_RATES"]
    /\ Outcome(r, "CLOSED_NO_RATES", FALSE)
    /\ UNCHANGED <<rounds, trouble, gate, tally, crashes>>

\* No rates at all, and the send of the notice fails: the exception ends the
\* poll with the outcome already on the view. Gmail may have taken the mail.
NoticeRefused(r) ==
    /\ JobReady(r)
    /\ Refused
    /\ Outcome(r, "NO_ELIGIBLE_RATE", FALSE)
    /\ tally' \in {tally, Mailed(tally, r, "notice", 1)}
    /\ UNCHANGED <<durable, working, rounds, trouble, gate, crashes>>

\* No rates at all: the client is told, then the request is closed.
NoRates(r) ==
    /\ JobReady(r)
    /\ Outcome(r, "CLOSED_NO_RATES", FALSE)
    /\ Work(r, "CLOSED_NO_RATES") /\ Commit(r, "CLOSED_NO_RATES")
    /\ tally' = Mailed(tally, r, "notice", Unrecorded(r, "CLOSED_NO_RATES"))
    /\ UNCHANGED <<rounds, trouble, gate, crashes>>

\* The queue no longer knows the job: the next poll enqueues afresh.
JobLost(r) ==
    /\ JobReady(r)
    /\ Refused
    /\ Show(r, [desk[r] EXCEPT !.job = FALSE])
    /\ UNCHANGED <<durable, working, rounds, trouble, gate, tally, crashes>>

-----------------------------------------------------------------------------
(* The quotation gate (LiveSession.decide, QuotationStage.run): an operator  *)
(* clicks `click` on the card of request r.                                  *)

OpenCard(r) == desk[r].card /\ desk[r].decision = "none"

\* Mutant: a decision still waiting is kept, and the new one dropped.
MutRecorded(r, click) == IF slot = {} THEN {<<r, click>>} ELSE slot

\* RecordedDecisionGate.record: what waits at the gate after the click. An
\* unconsumed decision is never replaced: then the click is refused.
Recorded(r, click) == IF slot = {} THEN {<<r, click>>} ELSE {}

Clicked(r, click) ==
    [tally EXCEPT ![r].approval = IF click = "approve" THEN @ + 1 ELSE @]

\* The stage asks again for nothing it has decided, in this process or before.
AlreadyDecided(r) == r \in decided \/ working[r] \in Settled

\* The decision was recorded, then the stage refuses to run: it stays there.
DecisionRefused(r, click) ==
    /\ OpenCard(r) /\ Recorded(r, click) # {}
    /\ AlreadyDecided(r)
    /\ slot' = Recorded(r, click)
    /\ tally' = Clicked(r, click)
    /\ UNCHANGED <<durable, working, desk, rounds, trouble, decided, bounds>>

\* The stage runs, and the gate gives it `answer`.
Answered(r, click, answer) ==
    /\ OpenCard(r)
    /\ ~AlreadyDecided(r)
    /\ \E d \in Recorded(r, click) : d[2] = answer

\* The approver's copy cannot be sent: the gate is never asked.
ReviewRefused(r, click) ==
    /\ OpenCard(r) /\ Recorded(r, click) # {}
    /\ ~AlreadyDecided(r)
    /\ Refused
    /\ Work(r, "PENDING_APPROVAL")
    /\ slot' = Recorded(r, click)
    /\ tally' = Clicked(r, click)
    /\ UNCHANGED <<durable, desk, rounds, trouble, decided, crashes>>

\* RecordedDecisionGate.request, and the stage's own ledger.
Consume(r, click) == slot' = {} /\ decided' = decided \cup {r}

Decline(r, click) ==
    /\ Answered(r, click, "decline")
    /\ Consume(r, click)
    /\ tally' = Clicked(r, click)
    /\ Work(r, "MAKER_REJECTED") /\ Commit(r, "MAKER_REJECTED")
    /\ Show(r, [desk[r] EXCEPT !.state = "MAKER_REJECTED", !.decision = "decline"])
    /\ UNCHANGED <<rounds, trouble, crashes>>

\* Approved, but the send of the quotation fails; Gmail may have taken it.
QuotationRefused(r, click) ==
    /\ Answered(r, click, "approve")
    /\ Refused
    /\ Consume(r, click)
    /\ tally' \in {Clicked(r, click), Mailed(Clicked(r, click), r, "quotation", 1)}
    /\ Work(r, "PENDING_APPROVAL")
    /\ UNCHANGED <<durable, desk, rounds, trouble, crashes>>

\* Mutant: the commit is left to a later step.
MutQuote(r, click) ==
    /\ Answered(r, click, "approve")
    /\ Consume(r, click)
    /\ Work(r, "QUOTATION_SENT")
    /\ Show(r, [desk[r] EXCEPT !.state = "QUOTATION_SENT", !.decision = "approve"])
    /\ tally' = Mailed(Clicked(r, click), r, "quotation", 0)
    /\ UNCHANGED <<durable, rounds, trouble, bounds>>

\* Approved, sent, recorded, committed.
Quote(r, click) ==
    /\ Answered(r, click, "approve")
    /\ Consume(r, click)
    /\ Work(r, "QUOTATION_SENT") /\ Commit(r, "QUOTATION_SENT")
    /\ Show(r, [desk[r] EXCEPT !.state = "QUOTATION_SENT", !.decision = "approve"])
    /\ tally' = Mailed(Clicked(r, click), r, "quotation", Unrecorded(r, "QUOTATION_SENT"))
    /\ UNCHANGED <<rounds, trouble, crashes>>

\* The one exit from MANUAL_REVIEW: a person settled it. The view follows only
\* a commit that went through.
ResolveManualReview(r) ==
    /\ desk[r].state = "MANUAL_REVIEW"
    /\ Work(r, "RESOLVED") /\ Commit(r, "RESOLVED")
    /\ IF failures' = failures
       THEN Show(r, [desk[r] EXCEPT !.state = "RESOLVED"])
       ELSE UNCHANGED desk
    /\ UNCHANGED <<rounds, trouble, gate, tally, crashes>>

-----------------------------------------------------------------------------
(* Time, crashes and restarts.                                               *)

\* The shipment date of a request passes while it waits.
DatePasses(r) ==
    /\ working[r] # "ABSENT"
    /\ trouble[r] # "date"
    /\ trouble' = [trouble EXCEPT ![r] = "date"]
    /\ UNCHANGED <<durable, working, desk, rounds, gate, tally, bounds>>

\* A new process: a working store seeded from the durable one, views restored,
\* an empty gate and ledger, no rounds counted.
Reboot ==
    /\ crashes < MaxCrashes
    /\ crashes' = crashes + 1
    /\ working' = durable
    /\ desk' = [r \in Requests |-> Restored(durable[r])]
    /\ rounds' = [r \in Requests |-> 0]
    /\ slot' = {} /\ decided' = {}
    /\ UNCHANGED <<durable, trouble, failures>>

Restart == Reboot /\ UNCHANGED tally

\* The process dies after a final mail went out and before its commit.
QuoteThenCrash(r, click) ==
    /\ Answered(r, click, "approve")
    /\ tally' = Mailed(Clicked(r, click), r, "quotation", 1)
    /\ Reboot

NoticeThenCrash(r) ==
    /\ JobReady(r)
    /\ tally' = Mailed(tally, r, "notice", 1)
    /\ Reboot

-----------------------------------------------------------------------------
Conversation(r) ==
    \/ \E state \in {"NEEDS_INFO", "CLARIFICATION_SENT", "VALIDATED", "MANUAL_REVIEW"} :
          ClientTurn(r, state)
    \/ ApproveClarification(r)
    \/ LateMessage(r)

JobDone(r) == RatesFound(r) \/ RatesExcluded(r) \/ NoRates(r) \/ NoticeRefused(r)

\* What the poll does with a request that can be searched.
Attempt(r) == Enqueue(r) \/ JobDone(r) \/ SearchFails(r)

RateSearch(r) ==
    \/ AskQuestion(r)
    \/ Attempt(r)
    \/ PickGoodsType(r)
    \/ JobPending(r)
    \/ JobLost(r)
    \/ NoticeThenCrash(r)

Decision(r, click) ==
    \/ DecisionRefused(r, click)
    \/ ReviewRefused(r, click)
    \/ Decline(r, click)
    \/ QuotationRefused(r, click)
    \/ Quote(r, click)
    \/ QuoteThenCrash(r, click)

Next ==
    \/ Restart
    \/ \E r \in Requests :
        \/ Conversation(r)
        \/ RateSearch(r)
        \/ \E click \in Choice : Decision(r, click)
        \/ ResolveManualReview(r)
        \/ DatePasses(r)

Spec == Init /\ [][Next]_vars

\* The poll runs for ever and visits every request; a worker runs, and ends a
\* job that stays queued, with an outcome or with a failure. Nothing is assumed
\* of a search that has failed, nor of clients, operators or restarts.
Fairness ==
    \A r \in Requests :
        WF_vars(AskQuestion(r)) /\ WF_vars(~desk[r].failed /\ Attempt(r))

FairSpec == Spec /\ Fairness
-----------------------------------------------------------------------------
(* Properties.                                                               *)

Committed == {"ABSENT"} \cup RequestState

LiveRequest ==
    [state : Committed, draft : BOOLEAN, picker : BOOLEAN, job : BOOLEAN,
     failed : BOOLEAN, searched : BOOLEAN, card : BOOLEAN, decision : {"none"} \cup Choice]

Tally == [approval : Nat, quotation : Nat, notice : Nat, lost : Nat]

RequestsOK ==
    /\ durable \in [Requests -> Committed]
    /\ working \in [Requests -> Committed]
    /\ desk \in [Requests -> LiveRequest]
    /\ rounds \in [Requests -> 0 .. MaxRounds]
    /\ trouble \in [Requests -> Trouble]

ProcessOK ==
    /\ slot \in SUBSET (Requests \X Choice)
    /\ decided \subseteq Requests
    /\ tally \in [Requests -> Tally]
    /\ crashes \in Nat /\ failures \in Nat

\* Types; a process never counts more questions than the budget has.
TypeOK == RequestsOK /\ ProcessOK

\* BR-11: the client gets at most as many quotations for a request as a person
\* gave approvals for that very request, however sends fail, decisions are left
\* waiting at the gate, and processes come and go.
QuotationsAreApproved ==
    \A r \in Requests : tally[r].quotation <= tally[r].approval

\* A process gives a request at most one final mail, a quotation or a no-rates
\* notice, whatever fails; and over all processes there is one, save for those
\* that left without the store learning of it: the process died or the commit
\* was refused after the send, or Gmail took a mail whose send was reported as
\* failed.
OneFinalMail ==
    \A r \in Requests :
        LET mails == tally[r].quotation + tally[r].notice IN
        mails <= 1 + tally[r].lost /\ mails <= 1 + crashes

\* What the store claims was sent has been sent.
ClaimsAreTrue ==
    \A r \in Requests :
        /\ durable[r] = "QUOTATION_SENT" => tally[r].quotation > 0
        /\ durable[r] = "CLOSED_NO_RATES" => tally[r].notice > 0

Over == {"QUOTATION_SENT", "MAKER_REJECTED", "CLOSED_NO_RATES", "RESOLVED"}

\* A request that is over stays over, in this process and every later one, and
\* its client gets no further final mail.
OverIsOver ==
    [][\A r \in Requests : durable[r] \in Over =>
          /\ durable'[r] = durable[r]
          /\ tally'[r].quotation = tally[r].quotation
          /\ tally'[r].notice = tally[r].notice]_vars

\* An open card belongs to a request that can still be quoted: the poll, the
\* sweep and the client's late mail never move a request from under its card.
OpenCardIsAlive ==
    \A r \in Requests :
        OpenCard(r) => working[r] \in {"VALIDATED", "PENDING_APPROVAL"}

\* The gate is free between clicks unless some send or commit was refused: no decision is
\* left behind for the card of another request.
GateIsFree == slot # {} => failures > 0

\* A request to be priced is searched, or asked about, or held for a goods type,
\* or the operator is shown that its search failed: the poll never forgets it.
\* Excepted are behaviours in which a send or a commit was refused or a job got
\* lost: such a call can end every later poll at the request it fails for.
IsPricedOrHeld ==
    \A r \in Requests :
        ToBeSearched(r) ~> \/ ~ToBeSearched(r)
                           \/ desk[r].picker
                           \/ desk[r].failed
                           \/ failures > 0

=============================================================================

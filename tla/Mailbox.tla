------------------------------ MODULE Mailbox ------------------------------
(***************************************************************************)
(* The mailbox read of LiveSession.poll in operations mode: what a poll    *)
(* lists and downloads, how each message is placed on a request, what is   *)
(* committed, and how far the persisted cutoff (the watermark) moves.      *)
(*                                                                         *)
(* A poll is a sequence of steps here, one for each message, because the   *)
(* process can die between any two of them.  Clicks and polls exclude one  *)
(* another (the server lock), so a draft is released between polls only.   *)
(*                                                                         *)
(* A message is its position in the inbox, which is also Gmail's own date  *)
(* of it and the id of the request it would open (new_request_id is a      *)
(* function of the message).  The Date header may differ from the arrival  *)
(* by a member of Drifts.                                                  *)
(***************************************************************************)
EXTENDS Integers, FiniteSets, Sequences

CONSTANTS
    MaxMail,      \* bound on the messages that arrive
    Scripts,      \* the kinds of message that arrive, in the orders they do
    Drifts,       \* Date header minus arrival
    Overlap,      \* demo.fetch_overlap_minutes, in the unit of arrivals
    FetchCap,     \* gmail.fetch_cap
    ListCap,      \* _LIST_ID_CAP
    MaxFaults     \* bound on the restarts and refused calls of a run

ASSUME MailboxBounds == /\ MaxMail \in Nat \ {0}
                        /\ FetchCap \in Nat \ {0}
                        /\ ListCap \in Nat \ {0}
                        /\ Overlap \in Nat
                        /\ MaxFaults \in Nat

(* "full" answers everything, "partial" leaves something to ask, "invalid" *)
(* states values no shipment can have and no other, "chatter" states no    *)
(* shipment detail, "automated" has a bulk sender, and "foreign" is what a *)
(* fetch never returns: sent by us, internal, or unparseable.              *)
Kinds == {"full", "partial", "invalid", "chatter", "automated", "foreign"}
ASSUME MailboxScripts == Scripts \subseteq [1 .. MaxMail -> Kinds]

(* A sender's clock runs ahead by less than the overlap of two reads.      *)
ASSUME MailboxDrifts == Drifts \subseteq Int /\ \A d \in Drifts : d <= Overlap

Ids == 1 .. MaxMail
States == {"NONE", "NEEDS_INFO", "WAITING", "VALIDATED", "MANUAL_REVIEW"}

VARIABLES
    inbox,      \* sequence of [kind, drift, irt, refs]
    watermark,  \* the persisted cutoff, a date
    durable,    \* durable store: state and thread of each request
    working,    \* working store of this process
    desk,       \* self.requests: state, messages, message of the last turn
    routed,     \* self._routed
    held,       \* messages inside an extraction or outbound hold
    polling,    \* a poll is under way
    scope,      \* in_scope of that poll
    batch,      \* messages it has yet to route
    sent,       \* history: mails sent to a client because of each message
    lost,       \* history: sends reported failed, or whose commit failed
    dropped,    \* history: mail that was handled and left to no one's pin
    unread,     \* history: mail the caps of a read left to a later one
    faults      \* restarts and refused calls so far

vars == <<inbox, watermark, durable, working, desk, routed, held, polling,
          scope, batch, sent, lost, dropped, unread, faults>>

Mail == DOMAIN inbox
Date(i) == i + inbox[i].drift
IsClientMail(i) == inbox[i].kind # "foreign"

(***************************************************************************)
(* The stores                                                              *)
(***************************************************************************)

EmptyStore == [state |-> [r \in Ids |-> "NONE"], thread |-> [r \in Ids |-> {}]]
Unseen == [state |-> "NONE", messages |-> {}, enquiry |-> 0, turn |-> 0]

Committed == UNION {durable.thread[r] : r \in Ids}

(* On record, and not the message of a draft that is yet to be released.   *)
Settled == Committed \ {desk[r].turn : r \in {q \in Ids : desk[q].state = "NEEDS_INFO"}}

(* InboundRouter.already_processed, over the working threads.              *)
AlreadyProcessed(i) == \E r \in Ids : i \in working.thread[r]

MutSeenMessage(i) == i \in routed

(* LiveSession._seen_message.                                              *)
SeenMessage(i) == i \in routed \/ AlreadyProcessed(i)

Record(store, r, i) == [store EXCEPT !.thread[r] = @ \union {i}]
Saved(store, r, s) == [store EXCEPT !.state[r] = s]

CommitThread(source, r) == [durable EXCEPT !.thread[r] = source.thread[r]]
CommitRequest(source, r) ==
    [CommitThread(source, r) EXCEPT !.state[r] = source.state[r]]

(* JsonFileStore writes the request, then the thread.                      *)
HalfCommitted(source, r) == [durable EXCEPT !.state[r] = source.state[r]]

(* What a store that refuses a commit may have written of it.              *)
Refused(source, r) == {durable, HalfCommitted(source, r), CommitRequest(source, r)}

MutSeeded(store) == store
MutSeededStates(store) == [store EXCEPT !.thread = [r \in Ids |-> {}]]

(* seed_store walks the threads: a request without one is not copied.      *)
Seeded(store) ==
    [store EXCEPT !.state = [r \in Ids |-> IF store.thread[r] = {} THEN "NONE"
                                           ELSE store.state[r]]]

Restored(store) ==
    [r \in Ids |-> [state |-> store.state[r], enquiry |-> 0, turn |-> 0,
                    messages |-> IF store.state[r] = "NONE" THEN {} ELSE store.thread[r]]]

(* A new process over the given durable store.                             *)
RestartFrom(store) ==
    /\ faults < MaxFaults
    /\ faults' = faults + 1
    /\ durable' = store
    /\ working' = Seeded(store)
    /\ desk' = Restored(store)
    /\ routed' = {} /\ held' = {} /\ scope' = {} /\ batch' = {}
    /\ polling' = FALSE

(***************************************************************************)
(* Reading the mailbox                                                     *)
(***************************************************************************)

(* The ids after the cutoff, oldest lost first when there are too many.    *)
Window == {i \in Mail : i >= watermark - Overlap}
ListIds == {i \in Window : Cardinality({j \in Window : j > i}) < ListCap}

(* GmailEmailSource._ingest: what one listed id adds to the read.          *)
Ingested(ids) == {i \in ids : IsClientMail(i) /\ ~SeenMessage(i)}

FetchSince ==
    LET new == Ingested(ListIds)
    IN  {i \in new : Cardinality({j \in new : j < i}) < FetchCap}

(* sorted(in_scope, key=received_at), a stable sort of the arrival order.  *)
IsNext(i) ==
    /\ i \in batch
    /\ \A j \in batch : Date(i) < Date(j) \/ (Date(i) = Date(j) /\ i <= j)

(***************************************************************************)
(* Placing a message                                                       *)
(***************************************************************************)

Named(i) == inbox[i].refs \union (IF inbox[i].irt = 0 THEN {} ELSE {inbox[i].irt})

OwnersOf(ids) == {r \in Ids : working.thread[r] \cap ids # {}}

(* HeaderChainCorrelation.correlate: the requests a message may belong to; *)
(* none for a new request, more than one when it is ambiguous.             *)
Correlated(i) ==
    LET direct == IF inbox[i].irt = 0 THEN {} ELSE OwnersOf({inbox[i].irt})
    IN  IF direct # {} THEN direct ELSE OwnersOf(inbox[i].refs)

IsNew(i) == Correlated(i) = {}
IsAmbiguous(i) == Cardinality(Correlated(i)) > 1
RequestOf(i) == IF IsNew(i) THEN i ELSE CHOOSE r \in Correlated(i) : TRUE

(* _blocked_request_for, and the IllegalTransition of a NEEDS_INFO request *)
(* that the headers alone did not reveal.                                  *)
IsBlocked(i) ==
    \/ \E r \in Ids : desk[r].state = "NEEDS_INFO" /\ Named(i) \cap desk[r].messages # {}
    \/ ~IsNew(i) /\ ~IsAmbiguous(i) /\ working.state[RequestOf(i)] = "NEEDS_INFO"

(* The request takes this message for an answer, or for its first mail.    *)
TakesAnswers(i) == working.state[RequestOf(i)] \in {"NONE", "WAITING"}

(* A bulk sender's first mail, which the model never reads.                *)
IsFiltered(i) == IsNew(i) /\ inbox[i].kind = "automated"

(* First contact that states no shipment detail.                           *)
IsUnrelated(i) ==
    working.state[RequestOf(i)] = "NONE" /\ inbox[i].kind \in {"chatter", "automated"}

(* The states ClarificationWorkflow.handle may leave the request in when   *)
(* the model's output can be read.                                         *)
Readable(i) ==
    IF IsUnrelated(i) THEN {}
    ELSE IF working.state[RequestOf(i)] = "NONE"
    THEN IF inbox[i].kind = "full" THEN {"VALIDATED"} ELSE {"NEEDS_INFO", "MANUAL_REVIEW"}
    ELSE CASE inbox[i].kind = "full" -> {"VALIDATED", "NEEDS_INFO", "MANUAL_REVIEW"}
           [] inbox[i].kind \in {"partial", "invalid"} -> {"NEEDS_INFO", "WAITING", "MANUAL_REVIEW"}
           [] OTHER -> {"WAITING", "MANUAL_REVIEW"}

Outcomes == [state : States, mails : {0, 1}]
FailureNotice == [state |-> "MANUAL_REVIEW", mails |-> 1]
Reminder == [state |-> "WAITING", mails |-> 1]

(* How a turn may end, and the mails it sent the client by then: output    *)
(* that cannot be read hands any message over, with a notice; a request    *)
(* that goes on waiting has been reminded now or before.                   *)
TurnOutcomes(i) ==
    [state : Readable(i), mails : {0}] \union {FailureNotice}
        \union {Reminder : s \in Readable(i) \cap {"WAITING"}}

(* The working store after the turn, its message recorded on the thread.   *)
AfterTurn(i, s) == Record(Saved(working, RequestOf(i), s), RequestOf(i), i)

Shown(i, s) ==
    LET r == RequestOf(i)
    IN  [desk EXCEPT ![r] =
            [state |-> s, messages |-> @.messages \union {i}, turn |-> i,
             enquiry |-> IF @.state = "NONE" THEN i ELSE @.enquiry]]

(***************************************************************************)
(* Mail arrives                                                            *)
(***************************************************************************)

(* Headers name one or two earlier messages or none; In-Reply-To is there  *)
(* or not.                                                                 *)
Headers(n) ==
    {h \in [irt : 0 .. n, refs : SUBSET (1 .. n)] :
        /\ Cardinality(h.refs) <= 2
        /\ h.irt # 0 => h.refs = {h.irt, 1} /\ h.irt # 1}

(* Mail that arrives while a poll runs is not in that poll, so arrivals    *)
(* are put between polls.  One sender's clock is wrong at most.            *)
Arrive(kind, drift, headers) ==
    /\ ~polling
    /\ Len(inbox) < MaxMail
    /\ \E script \in Scripts : /\ \A j \in Mail : script[j] = inbox[j].kind
                               /\ script[Len(inbox) + 1] = kind
    /\ drift # 0 => \A j \in Mail : inbox[j].drift = 0
    /\ inbox' = Append(inbox, [kind |-> kind, drift |-> drift,
                               irt |-> headers.irt, refs |-> headers.refs])
    /\ UNCHANGED <<watermark, durable, working, desk, routed, held, polling,
                   scope, batch, sent, lost, dropped, unread, faults>>

(***************************************************************************)
(* The poll                                                                *)
(***************************************************************************)

StartPoll ==
    /\ ~polling
    /\ polling' = TRUE
    /\ scope' = FetchSince
    /\ batch' = FetchSince
    /\ unread' = (unread \union Ingested(Window)) \ FetchSince
    /\ UNCHANGED <<inbox, watermark, durable, working, desk, routed, held,
                   sent, lost, dropped, faults>>

Routing(i) == polling /\ IsNext(i) /\ batch' = batch \ {i}

Keeps == UNCHANGED <<inbox, watermark, polling, scope, unread>>

(* A reply behind an unreleased draft, or a message inside its hold: left  *)
(* unrecorded for a later poll.                                            *)
Defer(i) ==
    /\ Routing(i)
    /\ IsBlocked(i) \/ i \in held
    /\ Keeps /\ UNCHANGED <<durable, working, desk, routed, held, sent, lost, dropped, faults>>

Reaches(i) == Routing(i) /\ ~IsBlocked(i) /\ i \notin held

(* The model reads what is placed on a request that takes answers.         *)
IsTurn(i) == Reaches(i) /\ ~IsAmbiguous(i) /\ ~IsFiltered(i) /\ TakesAnswers(i)

(* The model or the automatic mail is refused.  A transient refusal of the *)
(* model sets no hold; a mail reported as refused may have gone out.       *)
HoldAfterFailure(i, mails) ==
    /\ IsTurn(i)
    /\ faults < MaxFaults
    /\ faults' = faults + 1
    /\ held' \in {held, held \union {i}}
    /\ mails = 1 => i \in held' /\ \E o \in TurnOutcomes(i) : o.mails = 1
    /\ sent' = [sent EXCEPT ![i] = @ + mails]
    /\ lost' = lost + mails
    /\ Keeps /\ UNCHANGED <<durable, working, desk, routed, dropped>>

RefuseAmbiguous(i) ==
    /\ Reaches(i)
    /\ IsAmbiguous(i)
    /\ routed' = routed \union {i}
    /\ dropped' = dropped \union {i}
    /\ Keeps /\ UNCHANGED <<durable, working, desk, held, sent, lost, faults>>

(* Unrelated mail, and a reply to a request that takes no more answers,    *)
(* are recorded as seen and change no request.                             *)
IsSeenOnly(i) ==
    /\ Reaches(i)
    /\ ~IsAmbiguous(i)
    /\ IsFiltered(i) \/ IsUnrelated(i) \/ ~TakesAnswers(i)

(* A late reply that states a preference has its request committed too.    *)
RecordAsSeen(i) ==
    /\ IsSeenOnly(i)
    /\ working' = Record(working, RequestOf(i), i)
    /\ \/ durable' = CommitThread(working', RequestOf(i))
       \/ ~TakesAnswers(i) /\ durable' = CommitRequest(working', RequestOf(i))
    /\ routed' = routed \union {i}
    /\ Keeps /\ UNCHANGED <<desk, held, sent, lost, dropped, faults>>

(* A refused commit ends the poll: what it was of stays in the working     *)
(* store, and the message is not in _routed.                               *)
EndsPoll(i) ==
    /\ faults < MaxFaults
    /\ faults' = faults + 1
    /\ polling' = FALSE
    /\ scope' = {} /\ batch' = {}
    /\ dropped' = dropped \union {i}
    /\ UNCHANGED <<inbox, watermark, routed, held, unread>>

SeenNotRecorded(i) ==
    /\ IsSeenOnly(i)
    /\ EndsPoll(i)
    /\ working' = Record(working, RequestOf(i), i)
    /\ durable' \in {durable, CommitThread(working', RequestOf(i))}
    /\ UNCHANGED <<desk, sent, lost>>

(* looks_like_an_enquiry: the thread has a value a shipment can have.      *)
LooksLikeAnEnquiry(ids) == \E j \in ids : inbox[j].kind \in {"full", "partial"}

(* The turn ends in a draft: no request is committed until it is released. *)
(* Mail without one usable value is recorded as seen all the same.         *)
RouteToDraft(i) ==
    /\ IsTurn(i)
    /\ "NEEDS_INFO" \in Readable(i)
    /\ working' = AfterTurn(i, "NEEDS_INFO")
    /\ desk' = Shown(i, "NEEDS_INFO")
    /\ durable' = IF LooksLikeAnEnquiry(working'.thread[RequestOf(i)]) THEN durable
                  ELSE CommitThread(working', RequestOf(i))
    /\ routed' = routed \union {i}
    /\ dropped' = IF desk'[RequestOf(i)].enquiry = i THEN dropped ELSE dropped \union {i}
    /\ Keeps /\ UNCHANGED <<held, sent, lost, faults>>

Advanced(i, o) ==
    /\ IsTurn(i)
    /\ o \in TurnOutcomes(i) /\ o.state # "NEEDS_INFO"
    /\ working' = AfterTurn(i, o.state)
    /\ desk' = Shown(i, o.state)
    /\ sent' = [sent EXCEPT ![i] = @ + o.mails]

RouteAndCommit(i, o) ==
    /\ Advanced(i, o)
    /\ durable' = CommitRequest(working', RequestOf(i))
    /\ routed' = routed \union {i}
    /\ Keeps /\ UNCHANGED <<held, lost, dropped, faults>>

CommitRefused(i, o) ==
    /\ Advanced(i, o)
    /\ EndsPoll(i)
    /\ durable' \in Refused(working', RequestOf(i))
    /\ lost' = lost + o.mails

(* The request of an overdue reminder goes to a person, and is committed.  *)
Escalated(store, overdue) ==
    [store EXCEPT !.state = [r \in Ids |-> IF r \in overdue THEN "MANUAL_REVIEW" ELSE @[r]]]

(* A validated request whose date or place cannot be searched is asked     *)
(* about, in a draft that is not committed.                                *)
AskedAgain(store, unsearchable) ==
    [store EXCEPT !.state = [r \in Ids |-> IF r \in unsearchable THEN "NEEDS_INFO" ELSE @[r]]]

Overdue == {r \in Ids : working.state[r] = "WAITING"}
Searchable == {r \in Ids : desk[r].state = "VALIDATED" /\ working.state[r] = "VALIDATED"}

MutUncommitted(committed, draft) == {Date(i) : i \in scope \ committed}
MutUncommittedScope(committed, draft) ==
    {Date(i) : i \in {draft[r].enquiry : r \in {q \in Ids : draft[q].state = "NEEDS_INFO"}}
                        \ (committed \union {0})}

(* _advance_watermark, given the threads committed by then: what this poll *)
(* read, and the enquiries of the drafts, that no durable thread has.      *)
Uncommitted(committed, draft) ==
    LET enquiries == {draft[r].enquiry : r \in {q \in Ids : draft[q].state = "NEEDS_INFO"}}
    IN  {Date(i) : i \in (scope \union enquiries) \ (committed \union {0})}

AdvancedWatermark(committed, draft) ==
    LET waiting == Uncommitted(committed, draft)
        dates == {Date(i) : i \in scope}
    IN  IF scope = {} THEN watermark
        ELSE IF waiting # {} THEN CHOOSE d \in waiting : \A e \in waiting : d <= e
        ELSE CHOOSE d \in dates \union {watermark} : \A e \in dates \union {watermark} : e <= d

(* The end of the poll: deadlines, rate searches, then the watermark.  The *)
(* watermark is skipped when a rate search raises, and the searches too    *)
(* when a hand-over is refused its commit: those before it are recorded,   *)
(* and it is the last that is shown.                                       *)
FinishPoll(overdue, recorded, shown, unsearchable, raised) ==
    /\ polling /\ batch = {}
    /\ recorded # overdue => raised /\ unsearchable = {} /\ Cardinality(shown \ recorded) = 1
    /\ raised => faults < MaxFaults
    /\ faults' = IF raised THEN faults + 1 ELSE faults
    /\ working' = AskedAgain(Escalated(working, overdue), unsearchable)
    /\ durable' = [state |-> Escalated(durable, recorded).state,
                   thread |-> [r \in Ids |-> IF r \in recorded THEN working.thread[r]
                                             ELSE durable.thread[r]]]
    /\ desk' = [r \in Ids |->
                  IF r \in shown /\ desk[r].state # "NONE"
                  THEN [desk[r] EXCEPT !.state = "MANUAL_REVIEW"]
                  ELSE IF r \in unsearchable
                  THEN [desk[r] EXCEPT !.state = "NEEDS_INFO", !.turn = 0]
                  ELSE desk[r]]
    /\ watermark' = IF raised THEN watermark
                    ELSE AdvancedWatermark(UNION {durable'.thread[r] : r \in Ids}, desk')
    /\ polling' = FALSE
    /\ scope' = {}
    /\ UNCHANGED <<inbox, routed, held, batch, sent, lost, dropped, unread>>

(* Holds are timed; the clock may pass the end of one at any moment.       *)
HoldLapses(i) ==
    /\ i \in held
    /\ held' = held \ {i}
    /\ UNCHANGED <<inbox, watermark, durable, working, desk, routed, polling,
                   scope, batch, sent, lost, dropped, unread, faults>>

(***************************************************************************)
(* The operator, and restarts                                              *)
(***************************************************************************)

HoldsDraft(r) == ~polling /\ desk[r].state = "NEEDS_INFO"

(* The mail of a draft counts for the message whose turn drafted it.       *)
MailOf(r) == IF desk[r].turn = 0 THEN sent ELSE [sent EXCEPT ![desk[r].turn] = @ + 1]

Released(r) ==
    /\ HoldsDraft(r)
    /\ working' = Saved(working, r, "WAITING")
    /\ desk' = [desk EXCEPT ![r].state = "WAITING"]
    /\ sent' = MailOf(r)
    /\ UNCHANGED <<inbox, watermark, routed, held, polling, scope, batch, unread>>

ApproveClarification(r) ==
    /\ Released(r)
    /\ durable' = CommitRequest(working', r)
    /\ UNCHANGED <<lost, dropped, faults>>

(* The store refuses the commit: the draft is spent and shown as sent, and *)
(* what of its thread is not on record is pinned no more.                  *)
ReleaseNotRecorded(r) ==
    /\ Released(r)
    /\ faults < MaxFaults
    /\ faults' = faults + 1
    /\ durable' \in Refused(working', r)
    /\ lost' = lost + 1
    /\ dropped' = dropped \union (working.thread[r] \ Committed)

(* The mail went out and is reported as refused: the draft is kept.        *)
ReleaseReportedRefused(r) ==
    /\ HoldsDraft(r)
    /\ faults < MaxFaults
    /\ faults' = faults + 1
    /\ sent' = MailOf(r)
    /\ lost' = lost + 1
    /\ UNCHANGED <<inbox, watermark, durable, working, desk, routed, held, polling,
                   scope, batch, dropped, unread>>

Restart ==
    /\ RestartFrom(durable)
    /\ UNCHANGED <<inbox, watermark, sent, lost, dropped, unread>>

(* The process dies after a mail went out and before the commit.           *)
SendThenCrash ==
    /\ \/ \E i \in Mail : /\ IsTurn(i)
                          /\ \E o \in TurnOutcomes(i) : o.mails = 1
                          /\ sent' = [sent EXCEPT ![i] = @ + 1]
       \/ \E r \in Ids : HoldsDraft(r) /\ sent' = MailOf(r)
    /\ RestartFrom(durable)
    /\ lost' = lost + 1
    /\ UNCHANGED <<inbox, watermark, dropped, unread>>

(* JsonFileStore: the process dies between the request and its thread.     *)
CrashBetweenWrites ==
    /\ \/ \E i \in Mail : /\ IsTurn(i)
                          /\ \E o \in TurnOutcomes(i) :
                                /\ o.state # "NEEDS_INFO"
                                /\ RestartFrom(HalfCommitted(Saved(working, RequestOf(i), o.state),
                                                             RequestOf(i)))
                                /\ sent' = [sent EXCEPT ![i] = @ + o.mails]
       \/ \E r \in Ids : /\ HoldsDraft(r)
                         /\ RestartFrom(HalfCommitted(Saved(working, r, "WAITING"), r))
                         /\ sent' = MailOf(r)
    /\ lost' = lost + 1
    /\ UNCHANGED <<inbox, watermark, dropped, unread>>

Init ==
    /\ inbox = <<>> /\ watermark = 0
    /\ durable = EmptyStore /\ working = EmptyStore
    /\ desk = [r \in Ids |-> Unseen]
    /\ routed = {} /\ held = {}
    /\ polling = FALSE /\ scope = {} /\ batch = {}
    /\ sent = [i \in Ids |-> 0] /\ lost = 0 /\ dropped = {}
    /\ unread = {} /\ faults = 0

Place(i) ==
    \/ Defer(i) \/ RefuseAmbiguous(i) \/ RecordAsSeen(i) \/ SeenNotRecorded(i)
    \/ RouteToDraft(i)
    \/ \E mails \in {0, 1} : HoldAfterFailure(i, mails)
    \/ \E o \in Outcomes : RouteAndCommit(i, o) \/ CommitRefused(i, o)

Finish ==
    \E overdue \in SUBSET Overdue, unsearchable \in SUBSET Searchable, raised \in BOOLEAN :
       \E shown \in SUBSET overdue : \E recorded \in SUBSET shown :
          FinishPoll(overdue, recorded, shown, unsearchable, raised)

Next ==
    \/ \E kind \in Kinds, drift \in Drifts, headers \in Headers(Len(inbox)) :
          Arrive(kind, drift, headers)
    \/ StartPoll
    \/ \E i \in Mail : Place(i)
    \/ Finish
    \/ \E i \in Mail : HoldLapses(i)
    \/ \E r \in Ids : \/ ApproveClarification(r) \/ ReleaseNotRecorded(r)
                      \/ ReleaseReportedRefused(r)
    \/ Restart
    \/ SendThenCrash
    \/ CrashBetweenWrites

(* The desk polls for ever, a poll goes through its messages, and a hold   *)
(* ends.  Nothing is asked of the clients or of the operator.              *)
Fairness ==
    /\ WF_vars(StartPoll)
    /\ WF_vars(\E i \in Mail : Place(i))
    /\ WF_vars(Finish)
    /\ \A i \in Ids : WF_vars(HoldLapses(i))

Spec == Init /\ [][Next]_vars /\ Fairness

(***************************************************************************)
(* Properties                                                              *)
(***************************************************************************)

StoreType == [state : [Ids -> States], thread : [Ids -> SUBSET Ids]]

(* The state of the mailbox, the stores and the poll is well formed, a     *)
(* poll holds messages only while it runs, and what the durable store      *)
(* holds of a thread the working store of this process holds too.          *)
TypeOK ==
    /\ Len(inbox) <= MaxMail
    /\ watermark \in Int
    /\ durable \in StoreType /\ working \in StoreType
    /\ desk \in [Ids -> [state : States, messages : SUBSET Ids,
                      enquiry : Ids \union {0}, turn : Ids \union {0}]]
    /\ routed \in SUBSET Mail /\ held \in SUBSET Mail
    /\ batch \subseteq scope /\ (scope # {} => polling)
    /\ \A r \in Ids : durable.thread[r] \subseteq working.thread[r]

(* A client's message that is neither durably committed, nor dropped, nor  *)
(* left to a later read by a cap, lies in the window of the next read: not *)
(* past the watermark by more than the overlap.  This is what lets a new   *)
(* process read it again.  Dropped is what was handled without a commit    *)
(* and without a pin: mail that could not be placed, a later mail of a     *)
(* draft, and the mail of a commit the store refused, at a release too.    *)
UnsettledMailIsReadAgain ==
    \A i \in Mail : IsClientMail(i) /\ i \notin Committed \union dropped \union unread
                        => i >= watermark - Overlap

Answers == INSTANCE Answering WITH Messages <- Ids, committed <- Settled, answers <- sent

(* The mailbox implements Answering: across re-reads, restarts, holds and  *)
(* refused commits, no message is answered that is settled, be it with a   *)
(* question, a reminder or the notice that it could not be read, and an    *)
(* answer that is not counted as lost settles its message.                 *)
AnsweredOnce == Answers!Spec

(* A request that has a state, or any mail on its thread, has the enquiry  *)
(* that opened it there: no answer is ever read as an enquiry, and after a *)
(* crash no enquiry is read as an answer.                                  *)
EnquiryOnRecord ==
    \A r \in Ids : working.state[r] # "NONE" \/ working.thread[r] # {}
                       => r \in working.thread[r]

(* No older message is left to use the fetch budget of i for ever.         *)
IsStarved(i) == Cardinality({j \in Mail : j < i /\ IsBlocked(j) /\ ~SeenMessage(j)}) >= FetchCap

(* Every client message is eventually seen, or waits for a draft only an   *)
(* operator can release, itself or through older mail that fills the read. *)
MailIsSettled ==
    \A i \in Ids :
        []<>(i \in Mail /\ IsClientMail(i)
                => \/ SeenMessage(i) \/ i \in dropped
                   \/ IsBlocked(i) \/ IsStarved(i))

(* _advance_watermark: "A clarification draft (NEEDS_INFO) and a deferred  *)
(* reply both commit nothing by design, so the cutoff must not pass them": *)
(* what waits in a draft of this process is in the window of the next read.*)
CutoffBehindDrafts ==
    \A r \in Ids : desk[r].state = "NEEDS_INFO" =>
        \A i \in desk[r].messages \ Committed : i >= watermark - Overlap
=============================================================================

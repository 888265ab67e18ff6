# TransLog Quote: a verification project

TLA+ models of the quotation desk in `src/src/translog_quote/`, the TLC runs
that check them on small instances, and TLAPS proofs of their main properties
for every value of the constants. Paths below are relative to
`src/src/translog_quote/` unless they start with `src/`.

## 1. The system

A client writes to a mailbox asking for an air-freight quotation. The desk
reads the mail, has a language model extract the shipment, asks the client for
what is missing (a person releases every question), searches rates in WebCargo
through a browser run by a worker process, shows a person an approval card and
sends the quotation the person approves.

| Part | State it keeps | Operations | Talks to |
|---|---|---|---|
| Shipment record (`domain/shipment`, `domain/validation`, `domain/extraction/mapping.py`) | none (pure) | merge an extraction into a record; validate; list what is left to ask (`domain/clarification/compose.py`) | called by the loop |
| Request states (`domain/workflow/state.py`, `pipeline/state_machine.py`) | the transition table | `assert_transition` | every stage |
| Clarification loop (`pipeline/clarification_loop.py`) | stored requests (working store), pending drafts, round counts | handle a message, approve a draft, ask again for a place, a date or a goods type, sweep deadlines | store, mail sink, extraction |
| Live session (`interface/web/live_session.py`, `live_poller.py`) | the view of every request, routed messages, holds, the durable store | poll, the operator's clicks, restart | loop, quotation stage, job queue, Gmail |
| Quotation stage and gate (`pipeline/quotation.py`, `adapters/approval/recorded.py`) | ledger of decided requests, one decision slot | run one decision: review mail, answer, send | session, mail sink |
| Job queue and lease (`interface/jobs/queue.py`) | Redis: jobs, queue, failed registry, worker lease, needs-login note, pending-requeue record | enqueue, read, lease acquire, refresh, release, heartbeat | session, HTTP API, worker |
| Worker (`interface/worker/main.py`, `jobs.py`) | one browser, at most one job, two flags of a lost session | start, authenticate, drain, work, stop | Redis, WebCargo |
| Incoming mail (`adapters/email/gmail.py`) | messages already fetched, quota hold, access token | list the window, download, parse, retry | session, Gmail |
| Inbound routing (`pipeline/inbound.py`, `domain/conversation/correlation.py`) | threads | correlate a mail with a request | session |
| Outgoing mail (`adapters/email/gmail_send.py`) | access token | send, retry, report | loop, stage, Gmail |
| Extraction (`adapters/extraction/openrouter.py`, `domain/shipment/units.py`) | none | ask the model, read its report, convert and check every value | loop, OpenRouter |
| Rate algorithms (`domain/rates/`, `domain/quotation/compose.py`) | none (pure) | filter, select, group into offers, name a rate in the mails | worker, session |
| WebCargo browser (`adapters/webcargo/browser/`) | one browser and its session state, the page | probe, fill the form, wait, count, read the tabs | worker, WebCargo |
| Stores (`adapters/store/`, `bootstrap.py`) | requests and threads | save, load, commit | session |
| Several accounts (`interface/web/multi_account_session.py`) | one session for each account | route a request id to its session | server |
| Server, API, pages, health check | the lock around the session | HTTP | session, queue |

`PROJECT.json` lists every part, the unmodelled ones included, with the reason.

What makes it hard: a request exists in three copies (view, working store,
durable store) that are brought together at certain points only; mail is sent
before the state that says so is saved; drafts, rounds, holds and the approval
slot are in memory and a restart forgets them; a poll visits all requests in
one pass that any exception ends; Redis is changed one command at a time by
several processes that can be killed between two of them; the lease may lapse;
mail is read by a cutoff that must not pass what is not settled; the WebCargo
page moves under the script that reads it; every HTTP answer may be lost.
Not hard here: inside one server process every click and every poll runs under
one lock (`interface/web/server.py`), so those do not interleave with each other.

## 2. Modules

| Module | Models | Checked by |
|---|---|---|
| `Shipment` | record, extraction status, merge, validation, what is left to ask; pure operators | through `MCClarification` |
| `RequestStates` | the transition table | through both modules that extend it |
| `ClarificationWorkflow` | the clarification loop over `Shipment` | `MCClarification` |
| `QuotationDesk` | the session's three copies of a request, rate search, approval, restarts | itself |
| `RateWorker` | the job queue, the lease and the worker processes | itself |
| `Mailbox` | one poll of the mailbox, message by message: what is listed, where a message goes, what is committed, how far the cutoff moves | `MCMailbox` |
| `Answering` | abstract: what a client is answered, and when that is on record | `Mailbox` implements it (`MCMailbox`, TLAPS) |
| `Transports` | the HTTP calls of one process: tokens, retries, quota rests, several mailboxes, the operator | itself |
| `Extraction` | from the model's report to the record and the question | `MCExtraction` |
| `RateOffers` | from search rows to the card, the choice and the two mails | `MCRateOffers` |
| `BrowserSearch` | one worker's browser, the form, the moving results page | `MCBrowserSearch` |
| `*_proofs` | the theorems about the module they extend | TLAPS |

The modules meet at the interfaces of the code. `Mailbox` treats a turn of the
conversation as its outcome, which `ClarificationWorkflow` details; that in turn
takes any well-formed extraction, which `Extraction` produces. `QuotationDesk`
takes the outcome of a search, which `RateWorker` delivers (the life of the job),
`BrowserSearch` obtains (the rows) and `RateOffers` ranks. `Transports` says what
the calls under a poll and a click may come to.

### ClarificationWorkflow
Variables: `store` (stored requests), `pending` (draft per request), `rounds`,
`now`, `outbox` (mails sent, by kind), and a history variable `denied`.
`handle` is one action for each way it can end: `SendFollowup`, `HandOver`,
`DraftQuestion`, `Complete`, `ExtractionFailed`. The other entry points are
`ApproveClarification`, `RequestLocationClarification`,
`RequestShipDateClarification` and `SweepFollowupDeadline`. A turn that raises
before it changes anything is a stuttering step. Values are abstract (the code
only compares them), except the shipment date, which is a day number because it
is compared with today and rolled forward by a year.

### QuotationDesk
Variables: `durable`, `working`, `desk` (the three copies), `rounds`, `trouble`
(why a record cannot be searched), `slot` and `decided` (the gate and the
stage's ledger), and `tally`, a history of approvals, mails, and final mails the
store does not know of. A commit the store refuses while the process lives is an
outcome of `Commit`, so of every handler that commits; the store may hold the
write all the same. A refused send is an action (`NoticeRefused`,
`ReviewRefused`, `QuotationRefused`), and of a final mail Gmail may have taken
what it reports as refused (`adapters/email/gmail_send.py:181-187`). So are a
decision refused by the stage (`DecisionRefused`), a lost job (`JobLost`), a search
that cannot be queued, read or finished and is shown as failed (`SearchFails`),
and a crash after a final mail and before its commit (`QuoteThenCrash`,
`NoticeThenCrash`).
`Reboot` is `LiveSession._restore`: the working store is seeded from the durable
one and views are re-derived. The conversation is abstracted to the states
`ClarificationWorkflow` can end a turn in.

### RateWorker
Variables: Redis (`status`, `queue`, `pending`, `note`, `lock`), the processes
(`proc`: phase, job, the two `session_lost` flags, whether asked to stop), the
callers in the middle of `enqueue_rate_search` (`call`), `session` (is the
profile signed in), `lost` (history) and `spent` (bounds used). `enqueue` is
three actions, `WorkerLock.release` two, a mid-job session loss three
(`SessionLost`, `RecordFailure`, `Requeue`), and `Die` is possible between any
two steps of a worker. A refresh that finds the worker's own token changes
nothing visible, since the lease lapses by an action of its own: `LeaseExpires`
for a dead holder, `LeaseStarves` (bounded by `MaxStalls`) for a live one that
could not refresh for a whole TTL. RQ (queue, failed registry, warm shutdown,
clean-up of orphaned jobs) is external and modelled as `worker/main.py` relies
on it. Left out: retries inside one Redis call, the expiry of the note and of
the pending record, the cold stop of a second signal, a browser that outlives a
killed worker. A job popped by a worker that then refuses to run it stays
started until RQ's clean-up.

### Mailbox and Answering
Variables: `inbox` (what clients sent), `watermark` (the persisted cutoff),
`durable`, `working` and `desk` (the three copies), `routed`, `held`, the poll
under way (`polling`, `scope`, `batch`), and the histories `sent`, `lost`,
`dropped`. A message is its position in the inbox: Gmail's own date, and the id
of the request it opens. Its Date header, by which the code filters and moves
the cutoff, may differ from that by a drift below the overlap of two reads. Each
message of a batch is a step, because the process can die between two of them;
drafts are released between polls only, as the lock has it. A turn ends in a state
and with or without an automatic mail (`TurnOutcomes`): the reminder of a reply that
answers nothing, or the notice that a message could not be read. The faults are a
restart, a crash between a send and its commit, a crash between the two writes of
the file store, a refused call, a mail reported as refused that went out
(`HoldAfterFailure`, `ReleaseReportedRefused`), and a commit refused while the
process lives: of a turn (`CommitRefused`), of mail recorded as seen
(`SeenNotRecorded`), of a release (`ReleaseNotRecorded`) or of a hand-over at the end
of the poll (`FinishPoll`). The store may have all, part or nothing of it.

`Answering` knows messages, which of them are on durable record, and how many
mails each made the desk send. Its steps answer a message that is not on record,
put messages on record, or lose the record of an answer. `Mailbox!Answers` maps
`committed` to the messages in durable threads, but for the last of a draft that is
yet to be released, and `answers` to `sent`; the run checks `Answers!Spec`, and the two properties of `Answering` say what it is worth.

### Transports
Variables: whose turn it is and how far its fetch is (`turn`, `begun`, `listed`,
`unrouted`), the call under way, the tokens held, what is left of each
mailbox's rest (`hold`), and histories of the last mail, the last Retry-After and
the time since. The three transports (`HttpxGmailTransport`,
`HttpxGmailSendTransport`, `HttpxChatTransport`) have one retry discipline and
differ in what they do at 401, 404 and a spent quota. Time passes in retry waits
and between polls. A send answered with a 429 or a 5xx is taken as not accepted, an
assumption on Gmail; one without an answer may have been.

### Extraction
One letter, one report of the model about it, one pass through `_parse` and its
rules in their order, then the clarification. Letters differ in what the rules
tell apart (unit, thousands, kilo suffix, per piece, chargeable, sides as figures
or text, order of day and month, weekday, misplaced cargo type); reports are what
a model may make of such a letter under the schema, and malformed ones.
Spellings are folded before they are modelled. Numbers stay numbers: kilograms
times a power that keeps them whole, sides in tenths of an inch.

### RateOffers
A rate is its position in the result. The filters, the two keys with their ties,
groups of equal offers, trade-offs and the limit are operators; the steps are the
messages of the client before and after the card, the outcome of the search, and
the decision with any combination of option and rate reference a click may name.

### BrowserSearch
Variables: the browser's state, the job's `query`, the `step` of
`run_rate_search`, the `form` as the page holds it, what the results page shows,
the date `tabs` with what has arrived on each, the `polls` of the wait loops and
the `rows` read. The page is external and modelled as `pages.py` waits for it:
it moves between any two steps of the script after the search is clicked, a
"no results" message may flash before the search loads (for less than two polls),
rates arrive date by date, the count may vanish while it refreshes, and a tab that
is slow to change still shows the rows of the one before. A field confirmed by a
read back is not undone by the page. In the passing run, arrivals pause for
less than the count must be stable and end before the longest wait for it; the
violation run drops the latter.

## 3. Runs

| Run | Question | Instance |
|---|---|---|
| `clarification` | Do record, draft, question, reminder and budget stay consistent, is nothing the client said lost, and does a reminder always come to an end? | 1 request, 16 kinds of email, 2 rounds, 2 days; 16,717 states |
| `desk` | Are quotations approved and final mails sent once, does what is over stay over, is no validated request forgotten, unless it is shown as failed? | 2 requests, 1 restart, 1 refused send or commit or lost job; 372,420 states |
| `worker` | One browser; is a search that lost its session retried and no other one; is a sign-in asked for? | 2 workers, 2 jobs, 1 death, 1 stop; 719,431 states |
| `worker_liveness` | Does any search hang? | 2 workers, 1 job, 1 lapsed lease, 1 death, 1 failed Redis call, no unreachable start, no stop asked for; 511,961 states |
| `mailbox` | Is unsettled mail read again and settled in the end, is no message answered twice, is a reply never on record without its enquiry? | 3 messages in 3 conversations, 1 fault, clocks ahead by 0 or 1; 507,608 states |
| `transports` | Is a mail reported as it went, does a mailbox rest as it must, is every mailbox read for ever? | 2 mailboxes, 2 attempts, 1 message per fetch, Retry-After below, in and above the caps; 244,611 states |
| `rates` | Are the options the best, is every rate offered once unless the limit hides its offer, are trade-offs Pareto, is what is shown quotable and what is quoted reviewed? | every result of up to 3 of 9 rows and of 4 offers, 1 message; 177,476 states |
| `extraction` | Does the record say what the letter says, and is what it cannot say asked about? | 8,892 states over all letters and reports |
| `browser` | Is the search the shipment's, and its answer the whole one? | 2 jobs, 6 shipments, 6 distributions of rates over tabs; 44,413 states |
| `mailbox_cutoff`, `browser_partial`, `worker_stranded` | a sentence of the code's own comments that the code does not live up to (section 6) | the smallest instance with the counterexample |

Every property of a passing run has a mutant, a plausible bug in one mapped
definition (`Mut...`, beside the original), under which TLC finds it violated.

Why the bounds are enough. *Clarification:* requests do not share any state of
the loop, so one is enough; the emails hold every field status, a complete and
an incomplete enquiry, each conditional rule (MSDS, door address), a
contradiction, a denial and a past date; two rounds reach the spent budget; two
days let a date pass and the reminder's window lapse; the year is 3 days long so
that the roll forward is exercised. *Desk:* the one thing requests share is the
gate, and a leftover decision needs two of them; one failure and one
restart in either order reach every recovery path. *Worker:* the lease and the
profile are contended by two workers; two jobs tell a lost search from another
one that failed; death is bounded by one in the runs and by nothing in the
proofs. `MaxQueue` stops callers from pushing for ever, and no guard of the
code depends on the length of the queue. The liveness run has `MaxVisits = 0`, so no
start finds WebCargo unreachable and nobody asks a worker to stop; with 1 it has
1,975,999 states, no error, and takes about five minutes. *Mailbox:* three messages make an
enquiry, a reply to its first question and one to its second, or a reply that
comes before its enquiry is settled; the conversations hold every kind of message:
an enquiry answered at once or in two mails, one that states only impossible
values, bulk mail and mail a fetch never returns; `FetchCap` 2 makes a fetch leave one behind;
one fault in any place reaches each recovery. *Transports:* one retry and a
renewal reach every branch of the loop; the Retry-After values lie on either side
of the retry cap and of the quota's cap. *RateOffers:* the nine rows tie and
dominate one another on each key, differ in currency and departure, and include
one row for each filter; four offers and a limit of one make the limit hide one.
*Browser:* up to three tabs with none, equal and different numbers of rates; places
named, coded, both, contradictory, ambiguous, and one that WebCargo mentions under another
airport's code only.

Deadlock is checked for `Transports`, which never stops. The other systems really
may stop (no more mail, every request over, all workers parked, a decided card),
and the bounded clocks and counters stop too.

### Fairness
*Clarification:* the clock runs, and the poll calls the deadline sweep every
cycle for as long as the server is up (`live_poller.py`). Nothing is assumed of
clients or of the person who releases drafts. *Desk:* the poll visits every
request, and a worker ends a job that stays queued, with an outcome or with a
failure (the job timeout). Nothing is assumed of a search that has failed: a failed
job stays, the view says so (`live_session.py:1703-1708`), and `IsPricedOrHeld`
asks for no more. All this holds only while no handling of
another request raises at each poll, because the loop over requests has no
handler of its own; the property therefore excepts behaviours with a refused
send or commit or a lost job (`failures > 0`). Nothing is assumed of clients,
operators and restarts.
*Worker:* a process that exits with anything but 78 is started again
(`Restart=always` with `RestartPreventExitStatus=78` in
`src/deploy/translog-worker.service`), takes its steps, and ends a search by
`job_timeout`; a lease without a holder lapses; RQ's clean-up runs between two
jobs again and again, which is why it is strongly fair: it is disabled while a
job runs. WebCargo is assumed not to be unreachable at every start, which would have
each worker exit and start again for ever (`interface/worker/main.py:349-354`), and
workers not to be stopped again and again: `MaxVisits` bounds both. Nothing is
assumed of callers or the person who signs in. *Mailbox:* the
poller polls again after each poll whatever the last came to
(`live_poller.py:118-166`), a poll goes through its batch and finishes, and a hold
ends by its clock; nothing is assumed of clients, and a draft that is never
released counts as settled. *Transports:* an HTTP request ends (each has a
timeout) and the session goes on; strong fairness of the poll's start says that
clicks, each of which takes the same lock, do not keep the poller from it for ever.

## 4. Proofs

All theorems are about `Spec` and hold for every value of the constants allowed
by the modules' named assumptions.

* **ClarificationWorkflow_proofs**: type correctness, `DraftHeldForNeedsInfo`,
  `EverythingOutstandingIsAsked`, `ValidatedIsComplete`,
  `OneReminderPerClarification`, `RoundBudgetKept`, `AtMostOneFailureNotice`,
  `ValidatedWithLiveDate` and the action property `KnownFactsAreKept`. `IInv` is `TypeOK` and, for
  every request, `RequestInv`. None of the properties is inductive alone:
  reminders are bounded by released questions only because a request that awaits
  an answer without a reminder has one question to spare; what is missing of an
  awaited record is covered by its question or its denials, which needs the
  record to be unchanged since; the failure notice is sent once, although its
  marker is dropped by other turns, because a request that got one is with a
  person for good. One lemma for each action.
* **QuotationDesk_proofs**: type correctness, `QuotationsAreApproved`,
  `OneFinalMail`, `ClaimsAreTrue`, `OpenCardIsAlive`, `GateIsFree` (theorem `GateFree`) and the action
  property `OverIsOver`. The strengthening is `Sound(r)`: the three copies agree
  as far as they must (`CopiesAgree`: an open card belongs to a request that is
  not over, what is over in the durable store is over in the others), and mails
  and approvals are accounted for by the state (`MailsAccounted`): a mail the store
  does not know of is in `tally[r].lost`, and within one process the view or the
  stage's ledger remembers it, so a process never sends two. `GateSound`
  ties a decision left in the slot to a refused send or commit.
* **Mailbox_proofs**: type correctness, `UnsettledMailIsReadAgain`,
  `EnquiryOnRecord`, and `MailboxAnswersOnce`, the refinement `AnsweredOnce`: every
  step of `Mailbox` is a step of `Answering` or a stutter (`Promised`, one lemma
  for each action), so `OneMailPerMessage` and `RecordedIsNotAnswered` of `Answering` hold of
  the desk (`DeskWritesOnce`, `RecordedNotAnswered`) for any number of messages,
  faults, polls and restarts. The first needs the answers of a message that is not on
  record counted against the lost ones (`AnswerInv`). A refused commit and a mail
  reported as refused are lost answers there; a refused commit also leaves mail
  that no pin holds, which `UnsettledMailIsReadAgain` excepts as `dropped` (section 6). `IInv` says how the two stores hang together:
  durable threads are parts of working ones, no message is on two of them
  (`ThreadsAgree`); a draft lives in this process only, and its last message is not
  on record (`DraftsAgree`); a batch was never handled (`BatchIsUnseen`), and what
  was handled is on record, dropped or a draft's (`SeenIsAccounted`).
  `WindowInv` then carries the cutoff: what a poll has not read is beyond its caps,
  on record or handled (`ScopeCovers`), so that the new cutoff passes none of the
  rest. It rests on `MailboxDrifts`: no clock is ahead by more than the overlap.
* **Transports_proofs**: type correctness, `SendReportIsTrue` and `RestIsRespected`,
  for any number of mailboxes, messages, attempts and waits. `MailIsTracked` ties the
  report to what the provider did on the way through the retries, and
  `HoldCoversRest` the hold to what the provider asked for. The two assumptions on
  values the module leaves open are `PowersOfTwo` and `NoneIsNoValue`.
* **RateOffers_proofs**: type correctness, `OptionsAreBest`, `EveryRateIsOfferedOnce`,
  `TradeoffsArePareto`, `ShownRatesAreQuotable` and `QuotedAsReviewed`, for any rates
  and any limit. `EveryRateIsOfferedOnce` says when the limit may leave an offer out:
  the card is full of other offers, all shown before it. `IInv` is one conjunct for each stage (`Searched`, `Carded`,
  `Mailed`); the rest are lemmas about the operators: a ranking of a finite set has a
  least member, the options partition the eligible rates, the order of the
  trade-offs is total.
* **BrowserSearch_proofs**: `SearchedForTheShipment` and `WholeAnswer`, the run's
  `SearchIsTheShipments` and `ResultsAreWhole`. Both are about a page that behaves,
  and say how as hypotheses: suggestion lists that are finite and in which the text of an
  airport's own suggestion is within no other's (`SuggestionsArePlain`), menu lines that
  can be told apart (`MenuIsPlain`), and rates that all arrive while the count
  may still be waited for (`WaitsAreLongEnough`). TLC evaluates them for the instance
  (`MCPage`, `MCWaits`): they hold of `browser`, and the last one fails of
  `browser_partial`, which is why that run finds a part of an answer. That the airport is the place's own is a conclusion where WebCargo lists the
  code once; where it does not, the only suggestion that mentions the code is taken
  (`pages.py:498-500`), and the property says no more than that (`IsAirportOf`). Sums over the
  tabs are proved by least counterexample, for want of induction.
* **RateWorker_proofs**: type correctness, whatever happens; `OneBrowser` as long as
  no lease lapses under a live worker (`MaxStalls = 0`); `SignInIsAskedFor` as long as
  no best-effort Redis call fails (`MaxBlips = 0`); `RecordedLossIsRemembered` and
  `OnlyLostSearchesAreRequeued` under both (`Steady`). Without them they do not hold
  of the code: a lapsed lease lets in a second worker while the first finishes
  warmly, and a swallowed Redis error loses a record or a note. Deaths, stops, ended
  sessions and concurrent callers are unbounded. The argument: a live process holds
  the lease (`LiveHoldsLease`), so there is one; the pending record is empty from the
  drain until a session is lost, and from then on names the job that process is to
  requeue (`RecordFollows`); a worker that leaves to be parked has published the note
  (`NoteFollows`).
* **Extraction_proofs**: `MeasuresAreTheClients` and `CorrectableIsAsked`, for any
  figures, pieces, sides and dates. The invariant only says where reply, result and
  questions come from; the work is in lemmas about the rules: conversion rounds up by
  less than a tenth in each unit; a weight without a problem has one reading and one
  with a problem has none that is possible, or several; sides likewise; a report that
  keeps to the schema obeys the contract after the rules, field by field. The
  hypotheses `LettersAreTyped` (what the patterns tell apart) and
  `ReportsAreTheLetters` (the model quotes figures and units as written) are evaluated
  by TLC for the instance (`MCReports`); what happens when the model does not
  quote is in section 6.

Only model-checked: the liveness properties (`ReminderIsSettled`, `IsPricedOrHeld`,
`NoSearchHangs`, `MailIsSettled`, `EveryMailboxIsRead`), which are beyond the
prover, as is everything about `ENABLED`.

## 5. Hazards
`PROJECT.json` lists them at their lines with the properties that would catch
them; those without one say why.

## 6. Known divergences
Three are runs TLC refutes, with the sentence they are about:

* `mailbox_cutoff`: the cutoff passes a client's reply whose turn drafted a second
  question, although nothing of it is committed: the pin is put on the request's
  enquiry, and the reply itself is skipped by the next fetch
  (`interface/web/live_session.py:708`, against 691-693). A restart then reads the
  mailbox without the answer. So has a release whose commit is refused: the view says
  "sent", so the enquiry is pinned no more, and nothing of it is on record
  (`live_session.py:821-826`, 706-714). `UnsettledMailIsReadAgain` counts both as dropped.
* `browser_partial`: a count that still moves after `COUNT_SETTLE_MAX_SECONDS` is
  read as it is, and rows that add up to it pass the guard although more follow
  (`adapters/webcargo/browser/pages.py:1324`, against 1310-1312).
* `worker_stranded`: a death between the pending-requeue record and RQ's record
  of the failure strands the job, because the next start drops the record
  (`interface/worker/main.py:298`, against 272-274).

The following were met while modelling and have no run of their own.

Conversation:

* the reminder saves the request without `asked_about`, so the next short answer
  is read without the question (`pipeline/clarification_loop.py:1113`, against
  `domain/workflow/state.py:190-192`);
* a denial counts only in the message that made it: a later reply about something
  else has the field asked for again (`domain/clarification/compose.py:113`,
  against 65-70);
* a shipment date that passed between two emails is asked for by the turn but
  stays stored, so the answer conflicts with it and costs a round
  (`clarification_loop.py:546`);
* a weight that is per piece or chargeable *and* has no convertible unit is asked
  for its unit only, and the answer is taken as the total
  (`adapters/extraction/openrouter.py:327`, against
  `domain/shipment/units.py:265-268`);
* "1.200 kg" that the model itself reports as 1200 is taken, although its two
  readings are "never guessed either way" (`domain/shipment/units.py:139-143`): only
  a report of 1.2 is caught (149-158). The prompt asks for numbers as written
  (`domain/extraction/prompt.py:40`), and the instance's replies keep to that.

Mail:

* a send whose answer was lost is retried, so the client may get it twice
  (`adapters/email/gmail_send.py:182`, against 96-98);
* an enquiry that states only impossible values "must be clarified, not discarded"
  (`pipeline/clarification_loop.py:336-345`), and gets a draft; but as it fills no field
  it is recorded as seen without its request (`live_session.py:1480-1484`), so a restart
  before the release forgets the draft and never reads the mail again;
* Gmail may have taken a mail whose send is reported as failed
  (`adapters/email/gmail_send.py:181-187`), and a commit refused after a send is not
  made up for: the next process, or for a question the operator's next click, writes to
  the client again;
* the token refresh takes every status but 200 for permanent, a 503 included
  (`gmail.py:337-373`);
* deferred replies are downloaded again first and spend the budget of the fetch
  (`gmail.py:839-912`);
* a reply processed while its enquiry is inside a hold opens a second request, and
  later mail whose headers name both is refused
  (`domain/conversation/correlation.py:54`);
* a Date header that is ahead by more than the overlap moves the cutoff past mail
  that comes after it (the assumption `MailboxDrifts`);
* the cutoff can pass mail that a cap of the fetch left for the next poll
  (`live_session.py:687-721`, against `gmail.py:808-812`, "the rest waits for the next
  poll"). With 2 messages per fetch, an overlap of 0, eight messages and three
  faults: a hold keeps message 6 back, message 8, dated early, moves the cutoff
  back, the next poll fills its cap with 3 and 4, and, as all it knows to be
  unsettled is a draft whose enquiry is 7, sets the cutoff to 7.
  `UnsettledMailIsReadAgain` therefore excepts what the fetch left unread (`unread`).

Desk:

* a no-rates notice the provider refuses is never tried again by the running
  process, because the outcome is already on the view (`live_session.py:1557`,
  against 1880-1881);
* the hand-over for an unresolvable place is not committed, so a restart takes the
  request up again (`live_session.py:2015`, against 1105);
* a goods type picked while a date question awaits approval commits the request at
  NEEDS_INFO without its draft (`live_session.py:1221`);
* a late message after a refused approval mail commits PENDING_APPROVAL
  (`live_session.py:1527`), though the store's furthest committed pre-send state is
  said to be VALIDATED (`live_session.py:2401`);
* a decision left in the gate by a refused send refuses the decisions on every
  other request until a restart (`adapters/approval/recorded.py:59`);
* a tie of the fastest rates is broken by bare amounts, whatever their currencies
  (`domain/rates/selection.py:31-60`).

Searches:

* two callers that look a job up before either pushes it queue it twice
  (`interface/jobs/queue.py:125`, against `interface/jobs/model.py:119-120`);
* a worker whose lease another took finishes its search beside the new one, since
  it is stopped warmly (`interface/worker/main.py:115`);
* rows read in the browser never state door delivery, so every one of them is
  excluded for a door shipment (`mapper.py:84-167`, `filters.py:77-101`);
* a date tab that is late shows the rows of the one before; with as many rows as its
  own they pass the count guard (`pages.py:447`): `ResultsAreWhole` is about their
  number;
* the tolerance of the gross weight is at least one kilogram, so two pieces that
  weigh 1 kg together may be searched at 2 kg (`pages.py:1155-1158`);
* the clicked suggestion is the first whose text contains the chosen one's
  (`driver.py:90-95`), and the place is not read back: the instance keeps labels
  that contain one another to the goods types, which are read back;
* a place WebCargo does not list under its code is searched as the only airport whose
  text mentions the code, whatever airport that is (`pages.py:498-500`);
* a suggestion list that is merely slow ends as an unresolved location, and the
  client is asked about a place that is fine (`pages.py:511-541`);
* a catalogue of one label is used for a chemical too (`domain/goods_type.py`,
  `only_option`).

## 7. Not modelled, and the plan
Not modelled, with the reasons in `PROJECT.json`: read-only views and pages
(`live_serialize.py`, `serialize.py`, `audit_log.py`), HTTP routing, the health
check, settings and errors, the audit trail, demonstration mode beyond its cutoff,
the simulated WebCargo adapters, the console gate, evaluation and demo commands.
Abstracted inside what is modelled: MIME parsing, spellings, wording, the prompt,
the page's selectors, figures in the mails.

What is left to prove: the desk's and the loop's properties across the modules'
interfaces, e.g. that an extraction `Extraction` produces is one the loop accepts.

----------------------------- MODULE Transports -----------------------------
(***************************************************************************)
(* The calls one process makes over HTTP: the polls of several mailboxes,  *)
(* each a fetch (profile, list, downloads) and, for each message, maybe a  *)
(* model call and a send; and the sends of operators' clicks in between.   *)
(* Retries, the renewal of rejected tokens, and the rest a mailbox is      *)
(* given when Gmail reports its quota spent.                               *)
(*                                                                         *)
(* One lock (the server's) is held for a whole poll and for a whole click, *)
(* so there is one call at a time.  Time is measured in the unit of the    *)
(* waits, and passes in retry waits and between polls.                     *)
(***************************************************************************)
EXTENDS Integers

CONSTANTS
    Accounts,       \* number of enabled mailboxes, polled in order
    MaxRetries,     \* max_retries
    Backoff,        \* backoff_seconds
    MaxRetryWait,   \* MAX_RETRY_WAIT_SECONDS
    QuotaHold,      \* QUOTA_HOLD_SECONDS
    QuotaHoldMax,   \* QUOTA_HOLD_MAX_SECONDS
    Interval,       \* time between two polls
    RetryAfters,    \* the Retry-After values a provider may send; 0 is none
    MaxListed,      \* bound on the messages one fetch lists
    None            \* no value

ASSUME TransportBounds ==
    /\ Accounts \in Nat \ {0}
    /\ MaxRetries \in Nat /\ Backoff \in Nat /\ MaxListed \in Nat /\ Interval \in Nat
    /\ MaxRetryWait \in Nat /\ QuotaHold \in Nat /\ QuotaHoldMax \in Nat
    /\ QuotaHold <= QuotaHoldMax
    /\ 0 \in RetryAfters /\ RetryAfters \subseteq Nat

(* Arithmetic that the proofs need and the provers lack.                   *)
ASSUME PowersOfTwo == \A n \in 0 .. MaxRetries : 2 ^ n \in Nat

Mailboxes == 1 .. Accounts
Kinds == {"PROFILE", "LIST", "GET", "CHAT", "SEND"}

ASSUME NoneIsNoValue == None \notin Kinds \union {"SENT", "FAILED"}

VARIABLES
    turn,       \* mailbox being polled, 0 between polls
    begun,      \* its fetch has begun
    listed,     \* ids of its fetch that are not downloaded yet
    unrouted,   \* messages of its fetch that are not handled yet
    call,       \* the call under way
    token,      \* access tokens held: pairs of mailbox and scope
    hold,       \* what is left of each mailbox's quota hold
    mail,       \* history: what became of the last mail that was to be sent
    asked,      \* history: Retry-After of each mailbox's last quota refusal
    rested      \* history: time since that refusal

poll == <<turn, begun, listed, unrouted>>
vars == <<poll, call, token, hold, mail, asked, rested>>

NewCall(kind, m) == [kind |-> kind, mailbox |-> m, attempt |-> 1, renewed |-> FALSE]
NoCall == NewCall(None, 0)
NewMail == [accepted |-> 0, unanswered |-> 0, report |-> None]

IsRead == call.kind \in {"PROFILE", "LIST", "GET"}
IsSend == call.kind = "SEND"

(* A notice of the sweep after the messages are handled.                   *)
IsNotice == IsSend /\ turn # 0 /\ unrouted = 0

Grant == <<call.mailbox, IF IsSend THEN "gmail.send" ELSE "gmail.readonly">>
NeedsToken == (IsRead \/ IsSend) /\ Grant \notin token

LastAttempt == call.attempt > MaxRetries

Least(a, b) == IF a < b THEN a ELSE b
Greatest(a, b) == IF a > b THEN a ELSE b

(***************************************************************************)
(* Waits                                                                   *)
(***************************************************************************)

(* _parse_retry_after, of the retries.                                     *)
ParseRetryAfter(after) == Least(after, MaxRetryWait)

MutRetryAfterSeconds(after) == ParseRetryAfter(after)

(* gmail._retry_after_seconds, of the quota hold: not capped here.         *)
RetryAfterSeconds(after) == after

DelaysBeforeRetry(after) ==
    IF after # 0 THEN {ParseRetryAfter(after)}
    ELSE {Least(Backoff * 2 ^ (call.attempt - 1) + jitter, MaxRetryWait) : jitter \in 0 .. Backoff}

QuotaHoldFor(after) == Least(Greatest(QuotaHold, RetryAfterSeconds(after)), QuotaHoldMax)

Pass(d) ==
    /\ hold' = [m \in Mailboxes |-> Greatest(hold[m] - d, 0)]
    /\ rested' = [m \in Mailboxes |-> Least(rested[m] + d, QuotaHoldMax)]
    /\ UNCHANGED asked

NoTime == UNCHANGED <<hold, asked, rested>>

(***************************************************************************)
(* What a call's end means to the poll                                     *)
(***************************************************************************)

Calls(kind) == call' = NewCall(kind, turn)

NextMailbox ==
    /\ turn' = (turn + 1) % (Accounts + 1)
    /\ begun' = FALSE /\ listed' = 0 /\ unrouted' = 0
    /\ call' = NoCall

MutMailboxFails == turn' = 0 /\ begun' = FALSE /\ listed' = 0 /\ unrouted' = 0 /\ call' = NoCall

(* MultiAccountSession.poll: a poll that raises ends for its mailbox only. *)
MailboxFails == NextMailbox

(* Handled, or left for a later poll: the session takes the next message.  *)
NextMessage ==
    /\ call' = NoCall
    /\ unrouted' = IF turn = 0 THEN 0 ELSE unrouted - 1
    /\ UNCHANGED <<turn, begun, listed>>

(* _fetch_since: the next listed id is downloaded, or the fetch is over.   *)
Download(left, messages) ==
    /\ listed' = left /\ unrouted' = messages
    /\ IF left = 0 THEN call' = NoCall ELSE Calls("GET")
    /\ UNCHANGED <<turn, begun>>

(* A download that is no client mail, or vanished, leaves no message.      *)
Returns ==
    CASE call.kind = "PROFILE" -> Calls("LIST") /\ UNCHANGED poll
      [] call.kind = "LIST" -> \E n \in 0 .. MaxListed : Download(n, 0)
      [] call.kind = "GET" -> \E n \in {0, 1} : Download(listed - 1, unrouted + n)
      [] call.kind = "CHAT" -> NextMessage \/ (Calls("SEND") /\ UNCHANGED poll)
      [] OTHER -> IF IsNotice THEN NextMailbox ELSE NextMessage

(* An error leaves the transport: the messages are isolated from those of  *)
(* their own model calls and sends.                                        *)
Raises == IF IsRead \/ IsNotice THEN MailboxFails ELSE NextMessage

(* What the last mail has come to; a call of another kind leaves it.       *)
Mailed(accepted, unanswered, report) ==
    mail' = CASE IsSend -> [accepted |-> mail.accepted + accepted,
                            unanswered |-> mail.unanswered + unanswered, report |-> report]
              [] ~IsSend /\ call'.kind = "SEND" -> NewMail
              [] OTHER -> mail

(***************************************************************************)
(* One attempt                                                             *)
(***************************************************************************)

(* A transient failure: wait and try again, or give up.                    *)
Retry(after, accepted, unanswered) ==
    \/ /\ ~LastAttempt
       /\ \E d \in DelaysBeforeRetry(after) : Pass(d)
       /\ call' = [call EXCEPT !.attempt = @ + 1]
       /\ Mailed(accepted, unanswered, None)
       /\ UNCHANGED <<poll, token>>
    \/ /\ LastAttempt
       /\ Raises
       /\ Mailed(accepted, unanswered, "FAILED")
       /\ NoTime /\ UNCHANGED token

GiveUp(accepted, unanswered) ==
    Raises /\ Mailed(accepted, unanswered, "FAILED") /\ NoTime /\ UNCHANGED token

(* _refresh_access_token, at the first attempt that finds no token.        *)
RefreshAccessToken ==
    /\ NeedsToken
    /\ token' = token \union {Grant}
    /\ NoTime /\ UNCHANGED <<poll, call, mail>>

RefreshLost == NeedsToken /\ Retry(0, 0, 0)
RefreshRejected == NeedsToken /\ GiveUp(0, 0)

Requesting == call # NoCall /\ ~NeedsToken

Answered ==
    /\ Requesting
    /\ Returns
    /\ Mailed(1, 0, "SENT")
    /\ NoTime /\ UNCHANGED token

MutRequestLost == Requesting /\ Returns /\ Mailed(0, 1, "SENT") /\ NoTime /\ UNCHANGED token

(* No answer in time, or the connection broke: the request may have been   *)
(* carried out.                                                            *)
RequestLost == Requesting /\ \E n \in {0, 1} : Retry(0, n, 1)

(* A 429 or a 5xx, which Gmail is taken to send for nothing it accepted.   *)
Throttled(after) == Requesting /\ Retry(after, 0, 0)

(* A 200 whose body cannot be read.                                        *)
Garbled == Requesting /\ GiveUp(1, 1)

(* A permanent refusal, of a transport without tokens a 401 as well.       *)
Refused == Requesting /\ GiveUp(0, 0)

(* get_json, post_json: a rejected token is renewed once, and the request  *)
(* has all its attempts again.                                             *)
Unauthorized ==
    /\ Requesting /\ (IsRead \/ IsSend)
    /\ token' = token \ {Grant}
    /\ \/ /\ ~call.renewed
          /\ call' = [call EXCEPT !.renewed = TRUE, !.attempt = 1]
          /\ UNCHANGED <<poll, mail>>
       \/ /\ call.renewed
          /\ Raises
          /\ Mailed(0, 0, "FAILED")
    /\ NoTime

NotFound ==
    /\ Requesting /\ call.kind = "GET"
    /\ Download(listed - 1, unrouted)
    /\ NoTime /\ UNCHANGED <<token, mail>>

(* fetch_new: the mailbox rests after a quota refusal.                     *)
QuotaExceeded(after) ==
    /\ Requesting /\ IsRead
    /\ hold' = [hold EXCEPT ![turn] = QuotaHoldFor(after)]
    /\ asked' = [asked EXCEPT ![turn] = after]
    /\ rested' = [rested EXCEPT ![turn] = 0]
    /\ MailboxFails
    /\ UNCHANGED <<token, mail>>

(***************************************************************************)
(* The poller and the operator                                             *)
(***************************************************************************)

Idle == turn = 0 /\ call = NoCall

StartPoll ==
    /\ Idle
    /\ turn' = 1
    /\ Pass(Interval)
    /\ UNCHANGED <<begun, listed, unrouted, call, token, mail>>

FetchNew ==
    /\ turn # 0 /\ ~begun
    /\ IF hold[turn] > 0 THEN MailboxFails
       ELSE Calls("PROFILE") /\ begun' = TRUE /\ UNCHANGED <<turn, listed, unrouted>>
    /\ NoTime /\ UNCHANGED <<token, mail>>

Reading == turn # 0 /\ begun /\ call = NoCall

(* A message is handled with or without the model.                         *)
RouteNext ==
    /\ Reading /\ unrouted > 0
    /\ NextMessage \/ (Calls("CHAT") /\ UNCHANGED poll)
    /\ NoTime /\ UNCHANGED <<token, mail>>

(* Searches and sweeps, which may send a notice, end the mailbox's poll.   *)
FinishMailbox ==
    /\ Reading /\ unrouted = 0
    /\ \/ NextMailbox /\ UNCHANGED mail
       \/ Calls("SEND") /\ UNCHANGED poll /\ mail' = NewMail
    /\ NoTime /\ UNCHANGED token

OperatorSends(m) ==
    /\ Idle
    /\ call' = NewCall("SEND", m)
    /\ mail' = NewMail
    /\ NoTime /\ UNCHANGED <<poll, token>>

Init ==
    /\ turn = 0 /\ begun = FALSE /\ listed = 0 /\ unrouted = 0
    /\ call = NoCall /\ token = {} /\ mail = NewMail
    /\ hold = [m \in Mailboxes |-> 0]
    /\ asked = [m \in Mailboxes |-> 0]
    /\ rested = [m \in Mailboxes |-> QuotaHoldMax]

Attempt ==
    \/ RefreshAccessToken \/ RefreshLost \/ RefreshRejected
    \/ Answered \/ RequestLost \/ Garbled \/ Refused \/ Unauthorized \/ NotFound
    \/ \E after \in RetryAfters : Throttled(after) \/ QuotaExceeded(after)

Session == FetchNew \/ RouteNext \/ FinishMailbox

Next == Attempt \/ Session \/ StartPoll \/ \E m \in Mailboxes : OperatorSends(m)

(* Every request ends, be it in its timeout; a poll goes on; and clicks    *)
(* leave the lock free often enough for the poller to take it.             *)
Spec == Init /\ [][Next]_vars /\ WF_vars(Attempt) /\ WF_vars(Session) /\ SF_vars(StartPoll)

(***************************************************************************)
(* Properties                                                              *)
(***************************************************************************)

(* What the desk is told of a mail is what became of it: one reported sent *)
(* was accepted; one reported failed was not, unless an answer was lost;   *)
(* and a client gets it twice only because an answer was lost.             *)
SendReportIsTrue ==
    /\ mail.report = "SENT" => mail.accepted > 0
    /\ mail.report = "FAILED" => mail.accepted <= mail.unanswered
    /\ mail.accepted <= 1 + mail.unanswered

(* A mailbox whose quota was refused is left alone for as long as Gmail    *)
(* asked, within the floor and the cap, whatever other mailboxes, clicks   *)
(* and lost answers do meanwhile.                                          *)
RestIsRespected ==
    IsRead => /\ rested[turn] >= QuotaHold
              /\ rested[turn] >= Least(asked[turn], QuotaHoldMax)

(* Every mailbox is read again and again, however the calls of the others  *)
(* and its own fail, are throttled, or rest.                               *)
EveryMailboxIsRead ==
    \A m \in Mailboxes : []<>(call.kind = "PROFILE" /\ call.mailbox = m)

=============================================================================

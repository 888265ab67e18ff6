--------------------------- MODULE Transports_proofs ---------------------------
(***************************************************************************)
(* The transports, for any number of mailboxes, attempts and listed        *)
(* messages, and any waits and Retry-After values: a mail is reported as   *)
(* it went, and a mailbox rests as Gmail asked.                            *)
(***************************************************************************)
EXTENDS Transports, TLAPS

CallType == [kind : Kinds \union {None}, mailbox : Nat, attempt : 1 .. MaxRetries + 1,
             renewed : BOOLEAN]
MailType == [accepted : Nat, unanswered : Nat, report : {None, "SENT", "FAILED"}]

Typed ==
    /\ turn \in 0 .. Accounts
    /\ call \in CallType /\ (call # NoCall => call.kind # None)
    /\ mail \in MailType
    /\ hold \in [Mailboxes -> Nat] /\ asked \in [Mailboxes -> Nat]
    /\ rested \in [Mailboxes -> 0 .. QuotaHoldMax]

\* A send under way has reported nothing, and Gmail took the mail only where an
\* answer was lost.
MailIsTracked ==
    /\ SendReportIsTrue
    /\ IsSend => mail.report = None /\ mail.accepted <= mail.unanswered

\* What is left of a hold and the time since the refusal make up the rest that
\* is due, and a mailbox that is read has no hold.
HoldCoversRest ==
    /\ \A m \in Mailboxes : hold[m] + rested[m] >= QuotaHoldFor(asked[m])
    /\ IsRead => turn # 0 /\ hold[turn] = 0

IInv == Typed /\ MailIsTracked /\ HoldCoversRest

-----------------------------------------------------------------------------
(* Calls and waits                                                         *)

LEMMA Bounds ==
  /\ Accounts \in Nat /\ Accounts > 0 /\ MaxRetries \in Nat /\ Backoff \in Nat /\ MaxListed \in Nat
  /\ Interval \in Nat /\ MaxRetryWait \in Nat /\ QuotaHold \in Nat /\ QuotaHoldMax \in Nat
  /\ QuotaHold <= QuotaHoldMax /\ 0 \in RetryAfters /\ \A after \in RetryAfters : after \in Nat
BY TransportBounds

LEMMA NewCallOf ==
  ASSUME NEW kind \in Kinds \union {None}, NEW m \in Nat
  PROVE  /\ NewCall(kind, m) \in CallType /\ NewCall(kind, m).kind = kind
         /\ NewCall(kind, m).mailbox = m
         /\ NoCall \in CallType /\ NoCall.kind = None
BY Bounds DEF NewCall, NoCall, CallType

\* Whether a call is made, reads or sends is a matter of its kind.
LEMMA KindOfCall ==
  ASSUME Typed
  PROVE  /\ call = NoCall <=> call.kind = None
         /\ IsRead => ~IsSend /\ call # NoCall
         /\ IsSend => call # NoCall
BY NoneIsNoValue, Bounds DEF Typed, NoCall, NewCall, IsRead, IsSend, Kinds

\* The rest that is due lies between the floor and the cap.
LEMMA RestDue ==
  ASSUME NEW after \in Nat
  PROVE  /\ QuotaHoldFor(after) \in 0 .. QuotaHoldMax
         /\ QuotaHoldFor(after) >= QuotaHold
         /\ QuotaHoldFor(after) >= Least(after, QuotaHoldMax)
BY Bounds DEF QuotaHoldFor, RetryAfterSeconds, Least, Greatest

\* Every retry waits for a natural number of seconds.
LEMMA WaitsAreNumbers ==
  ASSUME Typed, ~LastAttempt, NEW after \in Nat, NEW d \in DelaysBeforeRetry(after)
  PROVE  d \in Nat
<1>1. call.attempt - 1 \in 0 .. MaxRetries
  BY Bounds DEF Typed, CallType, LastAttempt
<1>2. CASE after # 0
  BY <1>2, Bounds DEF DelaysBeforeRetry, ParseRetryAfter, Least
<1>3. CASE after = 0
  <2>1. PICK jitter \in 0 .. Backoff : d = Least(Backoff * 2 ^ (call.attempt - 1) + jitter, MaxRetryWait)
    BY <1>3 DEF DelaysBeforeRetry
  <2>2. PICK p \in Nat : p = 2 ^ (call.attempt - 1)
    BY <1>1, PowersOfTwo
  <2>3. Backoff * p \in Nat
    BY <2>2, Bounds
  <2>4. Backoff * p + jitter \in Nat
    BY <2>3, Bounds
  <2> QED BY <2>1, <2>2, <2>4, Bounds DEF Least
<1> QED BY <1>2, <1>3

\* Time takes from the holds no more than it adds to the rests.
LEMMA TimePasses ==
  ASSUME IInv, NEW d \in Nat, Pass(d)
  PROVE  /\ hold' \in [Mailboxes -> Nat] /\ asked' \in [Mailboxes -> Nat]
         /\ rested' \in [Mailboxes -> 0 .. QuotaHoldMax]
         /\ \A m \in Mailboxes : /\ hold'[m] <= hold[m]
                                 /\ hold'[m] + rested'[m] >= QuotaHoldFor(asked'[m])
<1>1. /\ hold \in [Mailboxes -> Nat] /\ asked \in [Mailboxes -> Nat]
      /\ rested \in [Mailboxes -> 0 .. QuotaHoldMax]
  BY DEF IInv, Typed
<1>2. asked' = asked
      /\ hold' = [m \in Mailboxes |-> Greatest(hold[m] - d, 0)]
      /\ rested' = [m \in Mailboxes |-> Least(rested[m] + d, QuotaHoldMax)]
  BY DEF Pass
<1>3. ASSUME NEW m \in Mailboxes
      PROVE  /\ Greatest(hold[m] - d, 0) \in Nat /\ Greatest(hold[m] - d, 0) <= hold[m]
             /\ Least(rested[m] + d, QuotaHoldMax) \in 0 .. QuotaHoldMax
             /\ Greatest(hold[m] - d, 0) + Least(rested[m] + d, QuotaHoldMax) >= QuotaHoldFor(asked[m])
  <2>1. hold[m] \in Nat /\ rested[m] \in 0 .. QuotaHoldMax /\ asked[m] \in Nat
    BY <1>1
  <2>2. QuotaHoldFor(asked[m]) \in 0 .. QuotaHoldMax
    BY <2>1, RestDue
  <2>3. hold[m] + rested[m] >= QuotaHoldFor(asked[m])
    BY DEF IInv, HoldCoversRest
  <2> QED BY <2>1, <2>2, <2>3, Bounds DEF Least, Greatest
<1> QED BY <1>1, <1>2, <1>3

-----------------------------------------------------------------------------
(* What a step does to the call and to the mail                            *)

\* The next call, if there is one, and reads only a mailbox without a hold.
CallIsSound ==
    /\ turn' \in 0 .. Accounts
    /\ call' \in CallType /\ (call' # NoCall => call'.kind # None)
    /\ IsRead' => turn' # 0 /\ hold[turn'] = 0

LEMMA NoCallIsSound ==
  ASSUME turn' \in 0 .. Accounts, call' = NoCall
  PROVE  CallIsSound /\ ~IsSend'
<1>1. NoCall \in CallType /\ NoCall.kind = None
  BY NewCallOf, Bounds
<1>2. ~IsRead' /\ ~IsSend'
  BY <1>1, NoneIsNoValue DEF IsRead, IsSend, Kinds
<1> QED BY <1>1, <1>2 DEF CallIsSound

LEMMA NextMailboxOf ==
  ASSUME Typed, NextMailbox PROVE CallIsSound /\ ~IsSend'
<1>1. turn' \in 0 .. Accounts /\ call' = NoCall
  BY Bounds DEF Typed, NextMailbox
<1> QED BY <1>1, NoCallIsSound

LEMMA NextMessageOf ==
  ASSUME Typed, NextMessage PROVE CallIsSound /\ ~IsSend'
<1>1. turn' \in 0 .. Accounts /\ call' = NoCall
  BY DEF Typed, NextMessage
<1> QED BY <1>1, NoCallIsSound

LEMMA RaisesOf ==
  ASSUME Typed, Raises PROVE CallIsSound /\ ~IsSend'
BY NextMailboxOf, NextMessageOf DEF Raises, MailboxFails

\* A call of this poll is followed by another.
LEMMA CallsOf ==
  ASSUME IInv, NEW kind \in Kinds, Calls(kind), turn' = turn,
         kind \in {"PROFILE", "LIST", "GET"} => turn # 0 /\ hold[turn] = 0
  PROVE  CallIsSound /\ (kind # "SEND" => ~IsSend')
<1>1. turn \in 0 .. Accounts /\ turn \in Nat
  BY Bounds DEF IInv, Typed
<1>2. call' \in CallType /\ call'.kind = kind
  BY <1>1, NewCallOf DEF Calls
<1>3. kind # None
  BY NoneIsNoValue
<1> QED BY <1>1, <1>2, <1>3 DEF CallIsSound, IsRead, IsSend

LEMMA DownloadOf ==
  ASSUME IInv, IsRead, NEW left, NEW messages, Download(left, messages)
  PROVE  CallIsSound /\ ~IsSend'
<1>1. turn' = turn /\ turn # 0 /\ hold[turn] = 0 /\ (call' = NoCall \/ Calls("GET"))
  BY DEF Download, IInv, HoldCoversRest
<1>2. turn \in 0 .. Accounts /\ "GET" \in Kinds
  BY DEF IInv, Typed, Kinds
<1> QED BY <1>1, <1>2, NoCallIsSound, CallsOf

LEMMA ReturnsOf ==
  ASSUME IInv, Requesting, Returns
  PROVE  CallIsSound /\ (IsSend => ~IsSend')
<1>1. call.kind \in Kinds
  BY KindOfCall DEF Requesting, IInv, Typed, CallType
<1>2. CASE call.kind = "PROFILE"
  <2>1. IsRead /\ Calls("LIST") /\ turn' = turn /\ "LIST" \in Kinds
    BY <1>2 DEF IsRead, Returns, poll, Kinds
  <2> QED BY <2>1, CallsOf DEF IInv, HoldCoversRest
<1>3. CASE call.kind = "LIST"
  <2>1. IsRead /\ \E left, messages : Download(left, messages)
    BY <1>3 DEF IsRead, Returns
  <2> QED BY <2>1, DownloadOf
<1>4. CASE call.kind = "GET"
  <2>1. IsRead /\ \E left, messages : Download(left, messages)
    BY <1>4 DEF IsRead, Returns
  <2> QED BY <2>1, DownloadOf
<1>5. CASE call.kind = "CHAT"
  <2>1. ~IsSend /\ "SEND" \in Kinds
    BY <1>5 DEF IsSend, Kinds
  <2>2. NextMessage \/ (Calls("SEND") /\ turn' = turn)
    BY <1>5 DEF Returns, poll
  <2> QED BY <2>1, <2>2, NextMessageOf, CallsOf DEF IInv
<1>6. CASE call.kind = "SEND"
  <2>1. NextMailbox \/ NextMessage
    BY <1>6 DEF Returns
  <2> QED BY <2>1, NextMailboxOf, NextMessageOf DEF IInv
<1> QED BY <1>1, <1>2, <1>3, <1>4, <1>5, <1>6 DEF Kinds

\* A mail is sent once, fails without it or with an answer lost, or is tried again.
LEMMA MailedOf ==
  ASSUME IInv, NEW accepted \in {0, 1}, NEW unanswered \in {0, 1}, NEW report,
         Mailed(accepted, unanswered, report),
         \/ report = "SENT" /\ accepted = 1 /\ unanswered = 0 /\ (IsSend => ~IsSend')
         \/ report = "FAILED" /\ accepted <= unanswered /\ (IsSend => ~IsSend')
         \/ report = None /\ accepted <= unanswered
  PROVE  mail' \in MailType /\ MailIsTracked'
<1>1. mail \in MailType /\ SendReportIsTrue
      /\ (IsSend => mail.report = None /\ mail.accepted <= mail.unanswered)
  BY DEF IInv, Typed, MailIsTracked
<1>2. CASE IsSend
  <2>1. mail' = [accepted |-> mail.accepted + accepted,
                 unanswered |-> mail.unanswered + unanswered, report |-> report]
    BY <1>2 DEF Mailed
  <2> QED BY <1>1, <1>2, <2>1, NoneIsNoValue DEF MailType, MailIsTracked, SendReportIsTrue
<1>3. CASE ~IsSend /\ IsSend'
  <2>1. mail' = NewMail
    BY <1>3 DEF Mailed, IsSend
  <2> QED BY <2>1, NoneIsNoValue DEF NewMail, MailType, MailIsTracked, SendReportIsTrue
<1>4. CASE ~IsSend /\ ~IsSend'
  <2>1. mail' = mail
    BY <1>4 DEF Mailed, IsSend
  <2> QED BY <1>1, <1>4, <2>1 DEF MailIsTracked, SendReportIsTrue
<1> QED BY <1>2, <1>3, <1>4

LEMMA MailIsKept ==
  ASSUME IInv, mail' = mail, IsSend' => IsSend
  PROVE  mail' \in MailType /\ MailIsTracked'
BY DEF IInv, Typed, MailIsTracked, SendReportIsTrue

LEMMA NewMailOf ==
  ASSUME mail' = NewMail
  PROVE  mail' \in MailType /\ MailIsTracked'
BY NoneIsNoValue DEF NewMail, MailType, MailIsTracked, SendReportIsTrue

\* The parts of the invariant, of a step that starts no rest.
LEMMA StepWithoutRest ==
  ASSUME IInv, CallIsSound, mail' \in MailType, MailIsTracked',
         NoTime \/ \E d \in Nat : Pass(d)
  PROVE  IInv'
<1>1. /\ hold' \in [Mailboxes -> Nat] /\ asked' \in [Mailboxes -> Nat]
      /\ rested' \in [Mailboxes -> 0 .. QuotaHoldMax]
      /\ \A m \in Mailboxes : /\ hold'[m] <= hold[m]
                              /\ hold'[m] + rested'[m] >= QuotaHoldFor(asked'[m])
  <2>1. CASE NoTime
    BY <2>1 DEF NoTime, IInv, Typed, HoldCoversRest
  <2>2. ASSUME NEW d \in Nat, Pass(d)
        PROVE  /\ hold' \in [Mailboxes -> Nat] /\ asked' \in [Mailboxes -> Nat]
               /\ rested' \in [Mailboxes -> 0 .. QuotaHoldMax]
               /\ \A m \in Mailboxes : /\ hold'[m] <= hold[m]
                                       /\ hold'[m] + rested'[m] >= QuotaHoldFor(asked'[m])
    BY <2>2, TimePasses
  <2> QED BY <2>1, <2>2
<1>2. IsRead' => turn' # 0 /\ hold'[turn'] = 0
  <2> SUFFICES ASSUME IsRead' PROVE turn' # 0 /\ hold'[turn'] = 0
    OBVIOUS
  <2>1. turn' # 0 /\ hold[turn'] = 0 /\ turn' \in 0 .. Accounts
    BY DEF CallIsSound
  <2>2. turn' \in Mailboxes
    BY <2>1, Bounds DEF Mailboxes
  <2>3. hold'[turn'] \in Nat /\ hold'[turn'] <= hold[turn']
    BY <1>1, <2>2
  <2> QED BY <2>1, <2>3
<1>3. Typed'
  BY <1>1 DEF Typed, CallIsSound, NoCall, NewCall
<1>4. HoldCoversRest'
  <2>1. \A m \in Mailboxes : hold'[m] + rested'[m] >= QuotaHoldFor(asked'[m])
    BY <1>1
  <2> QED BY <1>2, <2>1 DEF HoldCoversRest, QuotaHoldFor, RetryAfterSeconds
<1> QED BY <1>3, <1>4 DEF IInv

-----------------------------------------------------------------------------
(* The actions                                                             *)

LEMMA SameCall ==
  ASSUME IInv, call # NoCall, turn' = turn, call' \in CallType, call'.kind = call.kind
  PROVE  CallIsSound /\ (IsSend' <=> IsSend)
BY DEF IInv, Typed, HoldCoversRest, CallIsSound, IsRead, IsSend

LEMMA RetryHolds ==
  ASSUME IInv, call # NoCall, NEW after \in Nat, NEW accepted \in {0, 1}, NEW unanswered \in {0, 1},
         accepted <= unanswered, Retry(after, accepted, unanswered)
  PROVE  IInv'
<1>1. ASSUME ~LastAttempt, NEW d \in DelaysBeforeRetry(after), Pass(d),
             call' = [call EXCEPT !.attempt = @ + 1],
             Mailed(accepted, unanswered, None), UNCHANGED poll
      PROVE  IInv'
  <2>1. d \in Nat
    BY <1>1, WaitsAreNumbers DEF IInv
  <2>2. call' \in CallType /\ call'.kind = call.kind /\ turn' = turn
    BY <1>1, Bounds DEF IInv, Typed, CallType, LastAttempt, poll
  <2>3. CallIsSound
    BY <2>2, SameCall
  <2>4. mail' \in MailType /\ MailIsTracked'
    BY <1>1, MailedOf
  <2> QED BY <1>1, <2>1, <2>3, <2>4, StepWithoutRest
<1>2. CASE Raises /\ Mailed(accepted, unanswered, "FAILED") /\ NoTime
  <2>1. CallIsSound /\ ~IsSend'
    BY <1>2, RaisesOf DEF IInv
  <2>2. mail' \in MailType /\ MailIsTracked'
    BY <1>2, <2>1, MailedOf
  <2> QED BY <1>2, <2>1, <2>2, StepWithoutRest
<1> QED BY <1>1, <1>2 DEF Retry

LEMMA GiveUpHolds ==
  ASSUME IInv, NEW accepted \in {0, 1}, NEW unanswered \in {0, 1}, accepted <= unanswered,
         GiveUp(accepted, unanswered)
  PROVE  IInv'
<1>1. CallIsSound /\ ~IsSend' /\ NoTime
  BY RaisesOf DEF IInv, GiveUp
<1>2. mail' \in MailType /\ MailIsTracked'
  BY <1>1, MailedOf DEF GiveUp
<1> QED BY <1>1, <1>2, StepWithoutRest

LEMMA RefreshHolds ==
  ASSUME IInv, RefreshAccessToken \/ RefreshLost \/ RefreshRejected PROVE IInv'
<1>1. call # NoCall
  BY KindOfCall DEF IInv, RefreshAccessToken, RefreshLost, RefreshRejected, NeedsToken
<1>2. CASE RefreshAccessToken
  <2>1. CallIsSound /\ NoTime /\ mail' = mail /\ call' = call
    BY <1>1, <1>2, SameCall DEF RefreshAccessToken, poll, IInv, Typed
  <2> QED BY <2>1, MailIsKept, StepWithoutRest DEF IsSend
<1>3. CASE RefreshLost
  BY <1>1, <1>3, RetryHolds DEF RefreshLost
<1>4. CASE RefreshRejected
  BY <1>4, GiveUpHolds DEF RefreshRejected
<1> QED BY <1>2, <1>3, <1>4

LEMMA AnsweredHolds ==
  ASSUME IInv, Answered PROVE IInv'
<1>1. CallIsSound /\ (IsSend => ~IsSend') /\ NoTime
  BY ReturnsOf DEF Answered
<1>2. mail' \in MailType /\ MailIsTracked'
  BY <1>1, MailedOf DEF Answered
<1> QED BY <1>1, <1>2, StepWithoutRest

LEMMA UnauthorizedHolds ==
  ASSUME IInv, Unauthorized PROVE IInv'
<1>1. call # NoCall /\ NoTime
  BY DEF Unauthorized, Requesting
<1>2. CASE call' = [call EXCEPT !.renewed = TRUE, !.attempt = 1] /\ UNCHANGED <<poll, mail>>
  <2>1. call' \in CallType /\ call'.kind = call.kind /\ turn' = turn
    <3>1. call \in CallType /\ 1 \in 1 .. MaxRetries + 1
      BY Bounds DEF IInv, Typed
    <3> QED BY <1>2, <3>1 DEF CallType, poll
  <2>2. CallIsSound /\ (IsSend' <=> IsSend)
    BY <1>1, <2>1, SameCall
  <2> QED BY <1>1, <1>2, <2>2, MailIsKept, StepWithoutRest
<1>3. CASE Raises /\ Mailed(0, 0, "FAILED")
  <2>1. CallIsSound /\ ~IsSend'
    BY <1>3, RaisesOf DEF IInv
  <2>2. mail' \in MailType /\ MailIsTracked'
    BY <1>3, <2>1, MailedOf
  <2> QED BY <1>1, <2>1, <2>2, StepWithoutRest
<1> QED BY <1>2, <1>3 DEF Unauthorized

LEMMA NotFoundHolds ==
  ASSUME IInv, NotFound PROVE IInv'
<1>1. IsRead /\ Download(listed - 1, unrouted) /\ NoTime /\ mail' = mail
  BY DEF NotFound, IsRead
<1>2. CallIsSound /\ ~IsSend'
  BY <1>1, DownloadOf
<1> QED BY <1>1, <1>2, MailIsKept, StepWithoutRest

\* A rest begins: nothing of it is over, and the hold is all of it.
LEMMA QuotaExceededHolds ==
  ASSUME IInv, NEW after \in RetryAfters, QuotaExceeded(after) PROVE IInv'
<1>1. CallIsSound /\ ~IsSend' /\ call' = NoCall
  BY NextMailboxOf DEF IInv, QuotaExceeded, MailboxFails, NextMailbox
<1>2. mail' \in MailType /\ MailIsTracked'
  BY <1>1, MailIsKept DEF QuotaExceeded
<1>3. turn \in Mailboxes /\ after \in Nat
  BY Bounds DEF IInv, Typed, HoldCoversRest, QuotaExceeded, Mailboxes
<1>4. QuotaHoldFor(after) \in 0 .. QuotaHoldMax
  BY <1>3, RestDue
<1>5. /\ hold' = [hold EXCEPT ![turn] = QuotaHoldFor(after)]
      /\ asked' = [asked EXCEPT ![turn] = after]
      /\ rested' = [rested EXCEPT ![turn] = 0]
  BY DEF QuotaExceeded
<1>6. /\ hold' \in [Mailboxes -> Nat] /\ asked' \in [Mailboxes -> Nat]
      /\ rested' \in [Mailboxes -> 0 .. QuotaHoldMax]
  BY <1>3, <1>4, <1>5, Bounds DEF IInv, Typed
<1>7. ASSUME NEW m \in Mailboxes
      PROVE  hold'[m] + rested'[m] >= QuotaHoldFor(asked'[m])
  <2>1. CASE m = turn
    <3>1. hold'[m] = QuotaHoldFor(after) /\ asked'[m] = after /\ rested'[m] = 0
      BY <1>3, <1>5, <2>1 DEF IInv, Typed
    <3> QED BY <1>4, <3>1
  <2>2. CASE m # turn
    <3>1. hold'[m] = hold[m] /\ asked'[m] = asked[m] /\ rested'[m] = rested[m]
      BY <1>5, <2>2 DEF IInv, Typed
    <3> QED BY <3>1 DEF IInv, HoldCoversRest
  <2> QED BY <2>1, <2>2
<1>8. ~IsRead'
  BY <1>1, NewCallOf, NoneIsNoValue, Bounds DEF IsRead, Kinds
<1>9. Typed'
  BY <1>1, <1>2, <1>6 DEF Typed, CallIsSound, NoCall, NewCall
<1>10. HoldCoversRest'
  BY <1>7, <1>8 DEF HoldCoversRest, QuotaHoldFor, RetryAfterSeconds
<1> QED BY <1>2, <1>9, <1>10 DEF IInv

LEMMA AttemptHolds ==
  ASSUME IInv, Attempt PROVE IInv'
<1>1. CASE RefreshAccessToken \/ RefreshLost \/ RefreshRejected
  BY <1>1, RefreshHolds
<1>2. CASE RequestLost
  <2>1. PICK n \in {0, 1} : Retry(0, n, 1)
    BY <1>2 DEF RequestLost
  <2> QED BY <1>2, <2>1, RetryHolds DEF RequestLost, Requesting
<1>3. CASE Garbled \/ Refused
  BY <1>3, GiveUpHolds DEF Garbled, Refused
<1>4. ASSUME NEW after \in RetryAfters, Throttled(after) PROVE IInv'
  BY <1>4, RetryHolds, Bounds DEF Throttled, Requesting
<1> QED BY <1>1, <1>2, <1>3, <1>4, AnsweredHolds, UnauthorizedHolds, NotFoundHolds,
           QuotaExceededHolds DEF Attempt

LEMMA SessionHolds ==
  ASSUME IInv, Session PROVE IInv'
<1>1. {"PROFILE", "CHAT", "SEND"} \subseteq Kinds
  BY DEF Kinds
<1>2. CASE FetchNew
  <2>1. CASE hold[turn] > 0
    <3>1. CallIsSound /\ ~IsSend'
      BY <1>2, <2>1, NextMailboxOf DEF FetchNew, MailboxFails, IInv
    <3> QED BY <1>2, <3>1, MailIsKept, StepWithoutRest DEF FetchNew
  <2>2. CASE ~(hold[turn] > 0)
    <3>1. turn # 0 /\ turn' = turn /\ Calls("PROFILE")
      BY <1>2, <2>2 DEF FetchNew
    <3>2. turn \in Mailboxes /\ hold[turn] \in Nat
      BY <3>1, Bounds DEF IInv, Typed, Mailboxes
    <3>3. CallIsSound /\ ~IsSend'
      BY <1>1, <2>2, <3>1, <3>2, CallsOf
    <3> QED BY <1>2, <3>3, MailIsKept, StepWithoutRest DEF FetchNew
  <2> QED BY <2>1, <2>2
<1>3. CASE RouteNext
  <2>1. CASE NextMessage
    <3>1. CallIsSound /\ ~IsSend'
      BY <2>1, NextMessageOf DEF IInv
    <3> QED BY <1>3, <3>1, MailIsKept, StepWithoutRest DEF RouteNext
  <2>2. CASE Calls("CHAT") /\ UNCHANGED poll
    <3>1. CallIsSound /\ ~IsSend'
      BY <1>1, <2>2, CallsOf DEF poll
    <3> QED BY <1>3, <3>1, MailIsKept, StepWithoutRest DEF RouteNext
  <2> QED BY <1>3, <2>1, <2>2 DEF RouteNext
<1>4. CASE FinishMailbox
  <2>1. CASE NextMailbox /\ UNCHANGED mail
    <3>1. CallIsSound /\ ~IsSend'
      BY <2>1, NextMailboxOf DEF IInv
    <3> QED BY <1>4, <2>1, <3>1, MailIsKept, StepWithoutRest DEF FinishMailbox
  <2>2. CASE Calls("SEND") /\ UNCHANGED poll /\ mail' = NewMail
    <3>1. CallIsSound
      BY <1>1, <2>2, CallsOf DEF poll
    <3> QED BY <1>4, <2>2, <3>1, NewMailOf, StepWithoutRest DEF FinishMailbox
  <2> QED BY <1>4, <2>1, <2>2 DEF FinishMailbox
<1> QED BY <1>2, <1>3, <1>4 DEF Session

LEMMA StartPollHolds ==
  ASSUME IInv, StartPoll PROVE IInv'
<1>1. call' = NoCall /\ turn' \in 0 .. Accounts /\ mail' = mail
  BY Bounds DEF StartPoll, Idle
<1>2. CallIsSound /\ ~IsSend'
  BY <1>1, NoCallIsSound
<1>3. Pass(Interval) /\ Interval \in Nat
  BY Bounds DEF StartPoll
<1> QED BY <1>1, <1>2, <1>3, MailIsKept, StepWithoutRest

LEMMA OperatorSendsHolds ==
  ASSUME IInv, NEW m \in Mailboxes, OperatorSends(m) PROVE IInv'
<1>1. "SEND" \in Kinds /\ m \in Nat /\ "SEND" # None
  BY NoneIsNoValue, Bounds DEF Kinds, Mailboxes
<1>2. call' \in CallType /\ call'.kind = "SEND" /\ turn' = turn
  BY <1>1, NewCallOf DEF OperatorSends, poll
<1>3. CallIsSound
  BY <1>1, <1>2 DEF CallIsSound, IsRead, IInv, Typed
<1> QED BY <1>3, NewMailOf, StepWithoutRest DEF OperatorSends

LEMMA StepHolds == IInv /\ [Next]_vars => IInv'
<1> SUFFICES ASSUME IInv, [Next]_vars PROVE IInv'
  OBVIOUS
<1>1. CASE UNCHANGED vars
  BY <1>1 DEF vars, poll, IInv, Typed, MailIsTracked, SendReportIsTrue, HoldCoversRest, IsRead,
              IsSend, QuotaHoldFor, RetryAfterSeconds, NoCall, NewCall
<1> QED BY <1>1, AttemptHolds, SessionHolds, StartPollHolds, OperatorSendsHolds DEF Next

LEMMA InitHolds == Init => IInv
<1> SUFFICES ASSUME Init PROVE IInv
  OBVIOUS
<1> USE DEF Init
<1>1. NoCall \in CallType /\ NoCall.kind = None
  BY NewCallOf, Bounds
<1>2. ~IsRead /\ ~IsSend
  BY <1>1, NoneIsNoValue DEF IsRead, IsSend, Kinds
<1>3. Typed
  BY <1>1, Bounds DEF Typed, NewMail, MailType
<1>4. MailIsTracked
  BY <1>2, NoneIsNoValue DEF MailIsTracked, SendReportIsTrue, NewMail
<1>5. HoldCoversRest
  <2>1. \A m \in Mailboxes : hold[m] = 0 /\ asked[m] = 0 /\ rested[m] = QuotaHoldMax
    OBVIOUS
  <2>2. QuotaHoldFor(0) \in 0 .. QuotaHoldMax
    BY RestDue
  <2> QED BY <1>2, <2>1, <2>2, Bounds DEF HoldCoversRest
<1> QED BY <1>3, <1>4, <1>5 DEF IInv

-----------------------------------------------------------------------------

(* IInv holds in every state of the transports.                            *)
THEOREM Invariance == Spec => []IInv
BY InitHolds, StepHolds, PTL DEF Spec

(* What the desk is told of a mail is what became of it, for any number of *)
(* attempts, renewed tokens, lost and garbled answers: one reported sent   *)
(* was accepted, one reported failed was not unless an answer was lost,    *)
(* and no client has it twice but for lost answers.                        *)
THEOREM ReportsAreTrue == Spec => []SendReportIsTrue
<1>1. IInv => SendReportIsTrue
  BY DEF IInv, MailIsTracked
<1> QED BY <1>1, Invariance, PTL

(* A mailbox that is read has rested as long as Gmail asked of it, within  *)
(* the floor and the cap, for any mailboxes, waits and Retry-After values. *)
THEOREM RestsAreRespected == Spec => []RestIsRespected
<1>1. IInv => RestIsRespected
  <2> SUFFICES ASSUME IInv, IsRead
               PROVE  /\ rested[turn] >= QuotaHold
                      /\ rested[turn] >= Least(asked[turn], QuotaHoldMax)
    BY DEF RestIsRespected
  <2>1. turn \in Mailboxes /\ hold[turn] = 0
    BY Bounds DEF IInv, Typed, HoldCoversRest, Mailboxes
  <2>2. rested[turn] \in 0 .. QuotaHoldMax /\ asked[turn] \in Nat
    BY <2>1 DEF IInv, Typed
  <2>3. rested[turn] >= QuotaHoldFor(asked[turn])
    BY <2>1, <2>2 DEF IInv, HoldCoversRest
  <2>4. QuotaHoldFor(asked[turn]) >= QuotaHold /\ QuotaHoldFor(asked[turn]) \in 0 .. QuotaHoldMax
        /\ QuotaHoldFor(asked[turn]) >= Least(asked[turn], QuotaHoldMax)
    BY <2>2, RestDue
  <2>5. Least(asked[turn], QuotaHoldMax) \in Nat
    BY <2>2, Bounds DEF Least
  <2> QED BY <2>2, <2>3, <2>4, <2>5, Bounds
<1> QED BY <1>1, Invariance, PTL
=============================================================================

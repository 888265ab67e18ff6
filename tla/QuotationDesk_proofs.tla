------------------------- MODULE QuotationDesk_proofs -------------------------
(***************************************************************************)
(* The safety of the quotation desk, for any number of requests, restarts,  *)
(* refused sends and refused commits.                                       *)
(*                                                                          *)
(* Every invariant of the desk but the gate's follows from what is true of  *)
(* each request by itself: Sound(r) relates the three copies of the request *)
(* to one another and to the mails its client got. It holds initially, and  *)
(* each action preserves it for the request it moves and, as it touches no  *)
(* other, for the rest.                                                     *)
(***************************************************************************)
EXTENDS QuotationDesk, TLAPS

Mails(r) == tally[r].quotation + tally[r].notice

\* The final mail a committed state stands for.
Accounted(r) == IF durable[r] \in {"QUOTATION_SENT", "CLOSED_NO_RATES"} THEN 1 ELSE 0

\* The process will not send r another final mail.
Spent(r) ==
    r \in decided \/ desk[r].state \in {"NO_ELIGIBLE_RATE", "CLOSED_NO_RATES", "QUOTATION_SENT"}

\* A view at the rate search stands for a working request that got no further
\* than the gate; what is over in the store is over in the process, and what is
\* over in the process is over on the desk (but for a resolution whose commit
\* raised).
CopiesAgree(r) ==
    /\ durable[r] # "RATE_SELECTED" /\ working[r] # "RATE_SELECTED"
    /\ desk[r].state = "VALIDATED" => working[r] \in {"VALIDATED", "PENDING_APPROVAL"}
    /\ OpenCard(r) => /\ desk[r].state = "RATE_SELECTED"
                      /\ working[r] \in {"VALIDATED", "PENDING_APPROVAL"}
    /\ working[r] \in {"ABSENT", "CLARIFICATION_SENT"} => desk[r].state = working[r]
    /\ working[r] \in Over => \/ desk[r].state = working[r]
                              \/ working[r] = "RESOLVED" /\ desk[r].state = "MANUAL_REVIEW"
    /\ durable[r] \in Over => working[r] = durable[r]

MailsAccounted(r) ==
    /\ tally[r].quotation <= tally[r].approval
    /\ Mails(r) <= tally[r].lost + Accounted(r)
    /\ working[r] = "QUOTATION_SENT" => tally[r].quotation > 0
    /\ working[r] = "CLOSED_NO_RATES" => tally[r].notice > 0

\* A process mails once: before it does, the mails so far are those of earlier
\* processes.
OncePerProcess(r) ==
    /\ r \in decided => desk[r].state \in {"RATE_SELECTED", "QUOTATION_SENT", "MAKER_REJECTED"}
    /\ Mails(r) <= crashes + (IF Spent(r) THEN 1 ELSE 0)

Sound(r) == CopiesAgree(r) /\ MailsAccounted(r) /\ OncePerProcess(r)

IInv == TypeOK /\ \A r \in Requests : Sound(r)
-----------------------------------------------------------------------------
(* Types.                                                                    *)

\* Before any request arrives.
LEMMA TypeInit == Init => TypeOK
BY DeskAssumption
DEF Init, TypeOK, RequestsOK, ProcessOK, LiveRequest, Tally, View, Committed,
    Choice, Trouble

\* The states the desk writes.
LEMMA Names ==
  /\ "ABSENT" \in Committed /\ "NEEDS_INFO" \in Committed
  /\ "CLARIFICATION_SENT" \in Committed /\ "VALIDATED" \in Committed
  /\ "RATE_SELECTED" \in Committed /\ "PENDING_APPROVAL" \in Committed
  /\ "QUOTATION_SENT" \in Committed /\ "MAKER_REJECTED" \in Committed
  /\ "NO_ELIGIBLE_RATE" \in Committed /\ "CLOSED_NO_RATES" \in Committed
  /\ "MANUAL_REVIEW" \in Committed /\ "RESOLVED" \in Committed
BY DEF Committed, RequestState, TerminalStates

\* The changes the actions make to a view.
LEMMA Views ==
  ASSUME NEW v \in LiveRequest
  PROVE  /\ \A s \in Committed, b \in BOOLEAN :
              /\ [v EXCEPT !.state = s] \in LiveRequest
              /\ [v EXCEPT !.state = s, !.failed = FALSE] \in LiveRequest
              /\ [v EXCEPT !.state = s, !.searched = TRUE, !.card = b, !.failed = FALSE]
                   \in LiveRequest
              /\ [v EXCEPT !.state = s, !.draft = b] \in LiveRequest
              /\ [v EXCEPT !.state = s, !.draft = b, !.failed = FALSE] \in LiveRequest
              /\ \A c \in Choice : [v EXCEPT !.state = s, !.decision = c] \in LiveRequest
         /\ [v EXCEPT !.job = TRUE, !.picker = FALSE, !.failed = FALSE] \in LiveRequest
         /\ [v EXCEPT !.job = FALSE] \in LiveRequest
         /\ \A b \in BOOLEAN : /\ [v EXCEPT !.picker = b] \in LiveRequest
                              /\ [v EXCEPT !.failed = b] \in LiveRequest
BY DEF LiveRequest

\* A commit leaves the store as it was or writes the one request.
LEMMA Commits ==
  ASSUME RequestsOK, failures \in Nat, NEW r \in Requests, NEW state \in Committed,
         Commit(r, state)
  PROVE  durable' \in [Requests -> Committed] /\ failures' \in Nat
BY DEF RequestsOK, Commit, Refused

\* Counting keeps the tally's type.
LEMMA Counting ==
  ASSUME NEW counts \in [Requests -> Tally], NEW r \in Requests, NEW n \in Nat
  PROVE  /\ Add(counts, r, "quotation", n) \in [Requests -> Tally]
         /\ Add(counts, r, "notice", n) \in [Requests -> Tally]
         /\ Add(counts, r, "lost", n) \in [Requests -> Tally]
BY DEF Add, Tally

\* So does counting a final mail.
LEMMA Mailings ==
  ASSUME NEW counts \in [Requests -> Tally], NEW r \in Requests, NEW lost \in {0, 1}
  PROVE  /\ Mailed(counts, r, "quotation", lost) \in [Requests -> Tally]
         /\ Mailed(counts, r, "notice", lost) \in [Requests -> Tally]
<1>1. /\ Add(counts, r, "quotation", 1) \in [Requests -> Tally]
      /\ Add(counts, r, "notice", 1) \in [Requests -> Tally]
  BY Counting
<1>2. QED
  BY <1>1, Counting DEF Mailed

\* And so does counting a click.
LEMMA Clicks ==
  ASSUME tally \in [Requests -> Tally], NEW r \in Requests, NEW click \in Choice
  PROVE  Clicked(r, click) \in [Requests -> Tally]
BY DEF Clicked, Tally

\* What a restart derives from the committed record is a view.
LEMMA RestoredView ==
  ASSUME NEW state \in Committed
  PROVE  Restored(state) \in LiveRequest
BY Names DEF Restored, View, LiveRequest

\* Every step keeps the types, one action at a time.
LEMMA TypeStep ==
  ASSUME TypeOK, [Next]_vars
  PROVE  TypeOK'
<1> USE DeskAssumption, Names DEF TypeOK, Choice, Trouble
<1>0. CASE UNCHANGED vars
  BY <1>0 DEF vars, RequestsOK, ProcessOK
<1>1. CASE Restart
  <2>1. RequestsOK'
    BY <1>1, RestoredView DEF RequestsOK, Restart, Reboot
  <2>2. ProcessOK'
    BY <1>1 DEF ProcessOK, Restart, Reboot
  <2>3. QED
    BY <2>1, <2>2
<1>2. ASSUME NEW r \in Requests,
             NEW state \in {"NEEDS_INFO", "CLARIFICATION_SENT", "VALIDATED", "MANUAL_REVIEW"},
             ClientTurn(r, state)
      PROVE  TypeOK'
  <2>a. durable' \in [Requests -> Committed] /\ failures' \in Nat
    <3>1. CASE state = "NEEDS_INFO"
      BY <1>2, <3>1 DEF RequestsOK, ProcessOK, ClientTurn
    <3>2. CASE state # "NEEDS_INFO"
      BY <1>2, <3>2, Commits DEF ProcessOK, ClientTurn
    <3>3. QED
      BY <3>1, <3>2
  <2>1. RequestsOK'
    <3>1. desk[r] \in LiveRequest /\ (state = "NEEDS_INFO") \in BOOLEAN /\ state \in Committed
      BY <1>2 DEF RequestsOK
    <3>2. desk' \in [Requests -> LiveRequest]
      BY <1>2, <3>1, Views DEF RequestsOK, ClientTurn, Show
    <3>3. working' \in [Requests -> Committed]
      BY <1>2, <3>1 DEF RequestsOK, ClientTurn, Work
    <3>4. rounds' \in [Requests -> 0 .. MaxRounds]
      BY <1>2 DEF RequestsOK, ClientTurn
    <3>5. trouble' \in [Requests -> Trouble]
      BY <1>2 DEF RequestsOK, ClientTurn
    <3>6. QED
      BY <2>a, <3>2, <3>3, <3>4, <3>5 DEF RequestsOK
  <2>2. ProcessOK'
    BY <1>2, <2>a DEF ProcessOK, ClientTurn, gate
  <2>3. QED
    BY <2>1, <2>2
<1>3. ASSUME NEW r \in Requests, AskQuestion(r)
      PROVE  TypeOK'
  <2>a. durable' \in [Requests -> Committed] /\ failures' \in Nat
    <3>1. CASE BudgetSpent(r) /\ trouble[r] = "date"
      BY <1>3, <3>1, Commits DEF ProcessOK, AskQuestion
    <3>2. CASE ~(BudgetSpent(r) /\ trouble[r] = "date")
      BY <1>3, <3>2 DEF RequestsOK, ProcessOK, AskQuestion
    <3>3. QED
      BY <3>1, <3>2
  <2>1. RequestsOK'
    <3>1. desk[r] \in LiveRequest
      BY <1>3 DEF RequestsOK
    <3>2. desk' \in [Requests -> LiveRequest]
      <4>1. CASE BudgetSpent(r)
        <5>1. [desk[r] EXCEPT !.state = "MANUAL_REVIEW", !.failed = FALSE] \in LiveRequest
          BY <3>1, Views
        <5>2. QED
          BY <1>3, <4>1, <5>1 DEF RequestsOK, AskQuestion, Show
      <4>2. CASE ~BudgetSpent(r)
        <5>1. [desk[r] EXCEPT !.state = "NEEDS_INFO", !.draft = TRUE, !.failed = FALSE]
                \in LiveRequest
          BY <3>1, Views
        <5>2. QED
          BY <1>3, <4>2, <5>1 DEF RequestsOK, AskQuestion, Show
      <4>3. QED
        BY <4>1, <4>2
    <3>3. working' \in [Requests -> Committed]
      BY <1>3 DEF RequestsOK, AskQuestion, Work
    <3>4. rounds' \in [Requests -> 0 .. MaxRounds]
      BY <1>3 DEF RequestsOK, AskQuestion, BudgetSpent
    <3>5. QED
      BY <1>3, <2>a, <3>2, <3>3, <3>4 DEF RequestsOK, AskQuestion
  <2>2. ProcessOK'
    BY <1>3, <2>a DEF ProcessOK, AskQuestion, gate
  <2>3. QED
    BY <2>1, <2>2
<1>4. ASSUME NEW r \in Requests, Enqueue(r)
      PROVE  TypeOK'
  <2>1. RequestsOK'
    <3>1. desk[r] \in LiveRequest
      BY <1>4 DEF RequestsOK
    <3>2. CASE Show(r, [desk[r] EXCEPT !.job = TRUE, !.picker = FALSE, !.failed = FALSE])
      BY <1>4, <3>1, <3>2, Views DEF RequestsOK, Enqueue, Show
    <3>3. CASE Show(r, [desk[r] EXCEPT !.picker = TRUE])
      BY <1>4, <3>1, <3>3, Views DEF RequestsOK, Enqueue, Show
    <3>4. QED
      BY <1>4, <3>2, <3>3 DEF Enqueue
  <2>2. ProcessOK'
    BY <1>4 DEF ProcessOK, Enqueue, gate, bounds
  <2>3. QED
    BY <2>1, <2>2
<1>5. ASSUME NEW r \in Requests, ApproveClarification(r)
      PROVE  TypeOK'
  <2>1. RequestsOK'
    BY <1>5, Views, Commits
    DEF RequestsOK, ProcessOK, ApproveClarification, Work, Show
  <2>2. ProcessOK'
    BY <1>5, Commits DEF ProcessOK, ApproveClarification, gate
  <2>3. QED
    BY <2>1, <2>2
<1>6. ASSUME NEW r \in Requests, LateMessage(r)
      PROVE  TypeOK'
  <2>1. RequestsOK'
    BY <1>6, Commits DEF RequestsOK, ProcessOK, LateMessage
  <2>2. ProcessOK'
    BY <1>6, Commits DEF RequestsOK, ProcessOK, LateMessage, gate
  <2>3. QED
    BY <2>1, <2>2
<1>7. ASSUME NEW r \in Requests, PickGoodsType(r)
      PROVE  TypeOK'
  <2>1. RequestsOK'
    BY <1>7, Views, Commits DEF RequestsOK, ProcessOK, PickGoodsType, Show
  <2>2. ProcessOK'
    BY <1>7, Commits DEF RequestsOK, ProcessOK, PickGoodsType, gate
  <2>3. QED
    BY <2>1, <2>2
<1>8. ASSUME NEW r \in Requests, SearchFails(r)
      PROVE  TypeOK'
  <2>1. RequestsOK'
    BY <1>8, Views DEF RequestsOK, SearchFails, Show
  <2>2. ProcessOK'
    BY <1>8 DEF ProcessOK, SearchFails, gate, bounds
  <2>3. QED
    BY <2>1, <2>2
<1>9. ASSUME NEW r \in Requests, JobPending(r)
      PROVE  TypeOK'
  <2>1. RequestsOK'
    BY <1>9, Views DEF RequestsOK, JobPending, Show
  <2>2. ProcessOK'
    BY <1>9 DEF ProcessOK, JobPending, gate, bounds
  <2>3. QED
    BY <2>1, <2>2
<1>10. ASSUME NEW r \in Requests, RatesFound(r)
      PROVE  TypeOK'
  <2>1. RequestsOK'
    BY <1>10, Views DEF RequestsOK, RatesFound, Outcome, Show
  <2>2. ProcessOK'
    BY <1>10 DEF ProcessOK, RatesFound, gate, bounds
  <2>3. QED
    BY <2>1, <2>2
<1>11. ASSUME NEW r \in Requests, RatesExcluded(r)
      PROVE  TypeOK'
  <2>1. RequestsOK'
    BY <1>11, Views, Commits
    DEF RequestsOK, ProcessOK, RatesExcluded, Outcome, Work, Show
  <2>2. ProcessOK'
    BY <1>11, Commits DEF ProcessOK, RatesExcluded, gate
  <2>3. QED
    BY <2>1, <2>2
<1>12. ASSUME NEW r \in Requests, NoRates(r)
      PROVE  TypeOK'
  <2>1. RequestsOK'
    BY <1>12, Views, Commits
    DEF RequestsOK, ProcessOK, NoRates, Outcome, Work, Show
  <2>2. ProcessOK'
    BY <1>12, Commits, Mailings DEF ProcessOK, NoRates, Unrecorded, gate
  <2>3. QED
    BY <2>1, <2>2
<1>13. ASSUME NEW r \in Requests, NoticeRefused(r)
      PROVE  TypeOK'
  <2>1. RequestsOK'
    BY <1>13, Views DEF RequestsOK, NoticeRefused, Outcome, Show
  <2>2. ProcessOK'
    <3>1. Mailed(tally, r, "notice", 1) \in [Requests -> Tally]
      BY Mailings DEF ProcessOK
    <3>2. QED
      BY <1>13, <3>1 DEF ProcessOK, NoticeRefused, Refused, gate
  <2>3. QED
    BY <2>1, <2>2
<1>14. ASSUME NEW r \in Requests, JobLost(r)
      PROVE  TypeOK'
  <2>1. RequestsOK'
    BY <1>14, Views DEF RequestsOK, JobLost, Show
  <2>2. ProcessOK'
    BY <1>14 DEF ProcessOK, JobLost, Refused, gate
  <2>3. QED
    BY <2>1, <2>2
<1>15. ASSUME NEW r \in Requests, NoticeThenCrash(r)
      PROVE  TypeOK'
  <2>1. RequestsOK'
    BY <1>15, RestoredView DEF RequestsOK, NoticeThenCrash, Reboot
  <2>2. ProcessOK'
    <3>1. Mailed(tally, r, "notice", 1) \in [Requests -> Tally]
      BY Mailings DEF ProcessOK
    <3>2. QED
      BY <1>15, <3>1 DEF ProcessOK, NoticeThenCrash, Reboot
  <2>3. QED
    BY <2>1, <2>2
<1>16. ASSUME NEW r \in Requests, NEW click \in Choice, DecisionRefused(r, click)
      PROVE  TypeOK'
  <2>1. RequestsOK'
    BY <1>16 DEF RequestsOK, DecisionRefused
  <2>2. ProcessOK'
    BY <1>16, Clicks DEF ProcessOK, DecisionRefused, Recorded, bounds
  <2>3. QED
    BY <2>1, <2>2
<1>17. ASSUME NEW r \in Requests, NEW click \in Choice, ReviewRefused(r, click)
      PROVE  TypeOK'
  <2>1. RequestsOK'
    BY <1>17 DEF RequestsOK, ReviewRefused, Work
  <2>2. ProcessOK'
    BY <1>17, Clicks DEF ProcessOK, ReviewRefused, Recorded, Refused
  <2>3. QED
    BY <2>1, <2>2
<1>18. ASSUME NEW r \in Requests, NEW click \in Choice, Decline(r, click)
      PROVE  TypeOK'
  <2>1. RequestsOK'
    BY <1>18, Views, Commits DEF RequestsOK, ProcessOK, Decline, Work, Show
  <2>2. ProcessOK'
    BY <1>18, Clicks, Commits DEF ProcessOK, Decline, Consume
  <2>3. QED
    BY <2>1, <2>2
<1>19. ASSUME NEW r \in Requests, NEW click \in Choice, QuotationRefused(r, click)
      PROVE  TypeOK'
  <2>1. RequestsOK'
    BY <1>19 DEF RequestsOK, QuotationRefused, Work
  <2>2. ProcessOK'
    <3>1. Clicked(r, click) \in [Requests -> Tally]
      BY Clicks DEF ProcessOK
    <3>2. Mailed(Clicked(r, click), r, "quotation", 1) \in [Requests -> Tally]
      BY <3>1, Mailings
    <3>3. QED
      BY <1>19, <3>1, <3>2 DEF ProcessOK, QuotationRefused, Consume, Refused
  <2>3. QED
    BY <2>1, <2>2
<1>20. ASSUME NEW r \in Requests, NEW click \in Choice, Quote(r, click)
      PROVE  TypeOK'
  <2>1. RequestsOK'
    BY <1>20, Views, Commits DEF RequestsOK, ProcessOK, Quote, Work, Show
  <2>2. ProcessOK'
    BY <1>20, Clicks, Mailings, Commits
    DEF ProcessOK, Quote, Unrecorded, Consume
  <2>3. QED
    BY <2>1, <2>2
<1>21. ASSUME NEW r \in Requests, NEW click \in Choice, QuoteThenCrash(r, click)
      PROVE  TypeOK'
  <2>1. RequestsOK'
    BY <1>21, RestoredView DEF RequestsOK, QuoteThenCrash, Reboot
  <2>2. ProcessOK'
    <3>1. Clicked(r, click) \in [Requests -> Tally]
      BY Clicks DEF ProcessOK
    <3>2. Mailed(Clicked(r, click), r, "quotation", 1) \in [Requests -> Tally]
      BY <3>1, Mailings
    <3>3. QED
      BY <1>21, <3>1, <3>2 DEF ProcessOK, QuoteThenCrash, Reboot
  <2>3. QED
    BY <2>1, <2>2
<1>22. ASSUME NEW r \in Requests, ResolveManualReview(r)
      PROVE  TypeOK'
  <2>1. RequestsOK'
    <3>1. desk' \in [Requests -> LiveRequest]
      <4>1. [desk[r] EXCEPT !.state = "RESOLVED"] \in LiveRequest
        BY Views DEF RequestsOK
      <4>2. CASE failures' = failures
        BY <1>22, <4>1, <4>2 DEF RequestsOK, ResolveManualReview, Show
      <4>3. CASE failures' # failures
        BY <1>22, <4>3 DEF RequestsOK, ResolveManualReview
      <4>4. QED
        BY <4>2, <4>3
    <3>2. durable' \in [Requests -> Committed]
      BY <1>22, Commits DEF ProcessOK, ResolveManualReview
    <3>3. QED
      BY <1>22, <3>1, <3>2 DEF RequestsOK, ResolveManualReview, Work
  <2>2. ProcessOK'
    BY <1>22, Commits DEF ProcessOK, ResolveManualReview, gate
  <2>3. QED
    BY <2>1, <2>2
<1>23. ASSUME NEW r \in Requests, DatePasses(r)
      PROVE  TypeOK'
  <2>1. RequestsOK'
    BY <1>23 DEF RequestsOK, DatePasses
  <2>2. ProcessOK'
    BY <1>23 DEF ProcessOK, DatePasses, gate, bounds
  <2>3. QED
    BY <2>1, <2>2
<1>24. QED
  BY <1>0, <1>1, <1>2, <1>3, <1>4, <1>5, <1>6, <1>7, <1>8, <1>9, <1>10, <1>11,
     <1>12, <1>13, <1>14, <1>15, <1>16, <1>17, <1>18, <1>19, <1>20, <1>21,
     <1>22, <1>23
  DEF Next, Conversation, RateSearch, Attempt, JobDone, Decision

-----------------------------------------------------------------------------
(* Soundness.                                                                *)

\* Nothing is sent and nothing is approved at the start.
LEMMA SoundInit == Init => \A r \in Requests : Sound(r)
BY DEF Init, Sound, CopiesAgree, MailsAccounted, OncePerProcess, Mails, Accounted,
       Spent, OpenCard, View, Over

\* What an action does not touch stays sound.
LEMMA Untouched ==
  ASSUME NEW s \in Requests, Sound(s),
         durable'[s] = durable[s], working'[s] = working[s],
         desk'[s] = desk[s], tally'[s] = tally[s],
         s \in decided' <=> s \in decided, crashes' = crashes
  PROVE  Sound(s)'
BY DEF Sound, CopiesAgree, MailsAccounted, OncePerProcess, Mails, Accounted, Spent,
       OpenCard

\* A new process starts with three copies that agree.
LEMMA RebootAgrees ==
  ASSUME TypeOK, Reboot, NEW s \in Requests, Sound(s)
  PROVE  CopiesAgree(s)'
BY DEF TypeOK, RequestsOK, Reboot, Restored, Rederived, View, Sound, CopiesAgree,
       OpenCard, Over

\* Every step keeps each request sound: that of the action, and the others.
LEMMA SoundStep ==
  ASSUME IInv, [Next]_vars
  PROVE  \A s \in Requests : Sound(s)'
<1> USE DEF IInv, TypeOK, RequestsOK, ProcessOK
<1>0. CASE UNCHANGED vars
  BY <1>0, Untouched DEF vars
<1>1. ASSUME NEW r \in Requests,
             NEW state \in {"NEEDS_INFO", "CLARIFICATION_SENT", "VALIDATED", "MANUAL_REVIEW"},
             ClientTurn(r, state)
      PROVE  \A s \in Requests : Sound(s)'
  <2>1. ASSUME NEW s \in Requests, s # r
        PROVE  Sound(s)'
    BY <1>1, <2>1, Untouched DEF ClientTurn, Work, Commit, Refused, Show, gate
  <2>2. CopiesAgree(r)'
    BY <1>1
    DEF Sound, CopiesAgree, OpenCard, Over, LiveRequest, ClientTurn, Work,
        Commit, Refused, Show, gate
  <2>3. MailsAccounted(r)'
    BY <1>1
    DEF Sound, CopiesAgree, MailsAccounted, Mails, Accounted, OpenCard, Over,
        Tally, ClientTurn, Work, Commit, Refused, Show, gate
  <2>4. OncePerProcess(r)'
    BY <1>1
    DEF Sound, CopiesAgree, OncePerProcess, Spent, Mails, OpenCard, Over, Tally,
        LiveRequest, ClientTurn, Work, Commit, Refused, Show, gate
  <2>5. QED
    BY <2>1, <2>2, <2>3, <2>4 DEF Sound
<1>2. ASSUME NEW r \in Requests, ApproveClarification(r)
      PROVE  \A s \in Requests : Sound(s)'
  <2>1. ASSUME NEW s \in Requests, s # r
        PROVE  Sound(s)'
    BY <1>2, <2>1, Untouched
    DEF ApproveClarification, Work, Commit, Refused, Show, gate
  <2>2. CopiesAgree(r)'
    BY <1>2
    DEF Sound, CopiesAgree, OpenCard, Over, LiveRequest, ApproveClarification,
        Work, Commit, Refused, Show, gate
  <2>3. MailsAccounted(r)'
    BY <1>2
    DEF Sound, CopiesAgree, MailsAccounted, Mails, Accounted, OpenCard, Over,
        Tally, ApproveClarification, Work, Commit, Refused, Show, gate
  <2>4. OncePerProcess(r)'
    BY <1>2
    DEF Sound, CopiesAgree, OncePerProcess, Spent, Mails, OpenCard, Over, Tally,
        LiveRequest, ApproveClarification, Work, Commit, Refused, Show, gate
  <2>5. QED
    BY <2>1, <2>2, <2>3, <2>4 DEF Sound
<1>3. ASSUME NEW r \in Requests, LateMessage(r)
      PROVE  \A s \in Requests : Sound(s)'
  <2>1. ASSUME NEW s \in Requests, s # r
        PROVE  Sound(s)'
    BY <1>3, <2>1, Untouched DEF LateMessage, Commit, Refused, gate
  <2>2. CopiesAgree(r)'
    BY <1>3
    DEF Sound, CopiesAgree, OpenCard, Over, LiveRequest, LateMessage, Commit,
        Refused, gate
  <2>3. MailsAccounted(r)'
    BY <1>3
    DEF Sound, CopiesAgree, MailsAccounted, Mails, Accounted, OpenCard, Over,
        Tally, LateMessage, Commit, Refused, gate
  <2>4. OncePerProcess(r)'
    BY <1>3
    DEF Sound, CopiesAgree, OncePerProcess, Spent, Mails, OpenCard, Over, Tally,
        LiveRequest, LateMessage, Commit, Refused, gate
  <2>5. QED
    BY <2>1, <2>2, <2>3, <2>4 DEF Sound
<1>4. ASSUME NEW r \in Requests, AskQuestion(r)
      PROVE  \A s \in Requests : Sound(s)'
  <2>1. ASSUME NEW s \in Requests, s # r
        PROVE  Sound(s)'
    BY <1>4, <2>1, Untouched
    DEF AskQuestion, CannotSearch, ToBeSearched, Work, Commit, Refused, Show,
        gate
  <2>2. CopiesAgree(r)'
    <3>1. /\ desk[r].state = "VALIDATED" /\ working[r] \in {"VALIDATED", "PENDING_APPROVAL"}
          /\ working'[r] \in {"MANUAL_REVIEW", "NEEDS_INFO"}
          /\ durable'[r] \in {durable[r], "MANUAL_REVIEW"}
      BY <1>4 DEF Sound, CopiesAgree, AskQuestion, CannotSearch, ToBeSearched, Work,
               Commit
    <3>2. /\ desk'[r].state \in {"MANUAL_REVIEW", "NEEDS_INFO"}
          /\ desk'[r].card = desk[r].card /\ desk'[r].decision = desk[r].decision
      <4>1. CASE BudgetSpent(r)
        BY <1>4, <4>1 DEF AskQuestion, LiveRequest, Show
      <4>2. CASE ~BudgetSpent(r)
        <5>1. Show(r, [desk[r] EXCEPT !.state = "NEEDS_INFO", !.draft = TRUE, !.failed = FALSE])
          BY <1>4, <4>2 DEF AskQuestion
        <5>2. QED
          BY <5>1 DEF LiveRequest, Show
      <4>3. QED
        BY <4>1, <4>2
    <3>3. QED
      BY <3>1, <3>2 DEF Sound, CopiesAgree, OpenCard, Over
  <2>3. MailsAccounted(r)'
    BY <1>4
    DEF Sound, CopiesAgree, MailsAccounted, Mails, Accounted, OpenCard, Over,
        Tally, AskQuestion, CannotSearch, ToBeSearched, Work, Commit, Refused,
        Show, gate
  <2>4. OncePerProcess(r)'
    BY <1>4
    DEF Sound, CopiesAgree, OncePerProcess, Spent, Mails, OpenCard, Over, Tally,
        LiveRequest, AskQuestion, CannotSearch, ToBeSearched, Work, Commit,
        Refused, Show, gate
  <2>5. QED
    BY <2>1, <2>2, <2>3, <2>4 DEF Sound
<1>5. ASSUME NEW r \in Requests, Enqueue(r)
      PROVE  \A s \in Requests : Sound(s)'
  <2>1. ASSUME NEW s \in Requests, s # r
        PROVE  Sound(s)'
    BY <1>5, <2>1, Untouched DEF Enqueue, ToBeSearched, Show, gate, bounds
  <2>2. CopiesAgree(r)'
    <3>1. /\ desk'[r].state = desk[r].state
          /\ desk'[r].card = desk[r].card
          /\ desk'[r].decision = desk[r].decision
      <4>1. CASE Show(r, [desk[r] EXCEPT !.job = TRUE, !.picker = FALSE, !.failed = FALSE])
        BY <4>1 DEF LiveRequest, Show
      <4>2. CASE Show(r, [desk[r] EXCEPT !.picker = TRUE])
        BY <4>2 DEF LiveRequest, Show
      <4>3. QED
        BY <1>5, <4>1, <4>2 DEF Enqueue
    <3>2. QED
      BY <1>5, <3>1 DEF Sound, CopiesAgree, OpenCard, Enqueue
  <2>3. MailsAccounted(r)'
    BY <1>5
    DEF Sound, CopiesAgree, MailsAccounted, Mails, Accounted, OpenCard, Over,
        Tally, Enqueue, ToBeSearched, Show, gate, bounds
  <2>4. OncePerProcess(r)'
    BY <1>5
    DEF Sound, CopiesAgree, OncePerProcess, Spent, Mails, OpenCard, Over, Tally,
        LiveRequest, Enqueue, ToBeSearched, Show, gate, bounds
  <2>5. QED
    BY <2>1, <2>2, <2>3, <2>4 DEF Sound
<1>6. ASSUME NEW r \in Requests, PickGoodsType(r)
      PROVE  \A s \in Requests : Sound(s)'
  <2>1. ASSUME NEW s \in Requests, s # r
        PROVE  Sound(s)'
    BY <1>6, <2>1, Untouched DEF PickGoodsType, Commit, Refused, Show, gate
  <2>2. CopiesAgree(r)'
    BY <1>6
    DEF Sound, CopiesAgree, OpenCard, Over, LiveRequest, PickGoodsType, Commit,
        Refused, Show, gate
  <2>3. MailsAccounted(r)'
    BY <1>6
    DEF Sound, CopiesAgree, MailsAccounted, Mails, Accounted, OpenCard, Over,
        Tally, PickGoodsType, Commit, Refused, Show, gate
  <2>4. OncePerProcess(r)'
    BY <1>6
    DEF Sound, CopiesAgree, OncePerProcess, Spent, Mails, OpenCard, Over, Tally,
        LiveRequest, PickGoodsType, Commit, Refused, Show, gate
  <2>5. QED
    BY <2>1, <2>2, <2>3, <2>4 DEF Sound
<1>7. ASSUME NEW r \in Requests, SearchFails(r)
      PROVE  \A s \in Requests : Sound(s)'
  <2>1. ASSUME NEW s \in Requests, s # r
        PROVE  Sound(s)'
    BY <1>7, <2>1, Untouched DEF SearchFails, ToBeSearched, Show, gate, bounds
  <2>2. CopiesAgree(r)'
    BY <1>7
    DEF Sound, CopiesAgree, OpenCard, Over, LiveRequest, SearchFails,
        ToBeSearched, Show, gate, bounds
  <2>3. MailsAccounted(r)'
    BY <1>7
    DEF Sound, CopiesAgree, MailsAccounted, Mails, Accounted, OpenCard, Over,
        Tally, SearchFails, ToBeSearched, Show, gate, bounds
  <2>4. OncePerProcess(r)'
    BY <1>7
    DEF Sound, CopiesAgree, OncePerProcess, Spent, Mails, OpenCard, Over, Tally,
        LiveRequest, SearchFails, ToBeSearched, Show, gate, bounds
  <2>5. QED
    BY <2>1, <2>2, <2>3, <2>4 DEF Sound
<1>8. ASSUME NEW r \in Requests, JobPending(r)
      PROVE  \A s \in Requests : Sound(s)'
  <2>1. ASSUME NEW s \in Requests, s # r
        PROVE  Sound(s)'
    BY <1>8, <2>1, Untouched
    DEF JobPending, JobReady, ToBeSearched, Show, gate, bounds
  <2>2. CopiesAgree(r)'
    BY <1>8
    DEF Sound, CopiesAgree, OpenCard, Over, LiveRequest, JobPending, JobReady,
        ToBeSearched, Show, gate, bounds
  <2>3. MailsAccounted(r)'
    BY <1>8
    DEF Sound, CopiesAgree, MailsAccounted, Mails, Accounted, OpenCard, Over,
        Tally, JobPending, JobReady, ToBeSearched, Show, gate, bounds
  <2>4. OncePerProcess(r)'
    BY <1>8
    DEF Sound, CopiesAgree, OncePerProcess, Spent, Mails, OpenCard, Over, Tally,
        LiveRequest, JobPending, JobReady, ToBeSearched, Show, gate, bounds
  <2>5. QED
    BY <2>1, <2>2, <2>3, <2>4 DEF Sound
<1>9. ASSUME NEW r \in Requests, RatesFound(r)
      PROVE  \A s \in Requests : Sound(s)'
  <2>1. ASSUME NEW s \in Requests, s # r
        PROVE  Sound(s)'
    BY <1>9, <2>1, Untouched
    DEF RatesFound, JobReady, ToBeSearched, Outcome, Show, gate, bounds
  <2>2. CopiesAgree(r)'
    BY <1>9
    DEF Sound, CopiesAgree, OpenCard, Over, LiveRequest, RatesFound, JobReady,
        ToBeSearched, Outcome, Show, gate, bounds
  <2>3. MailsAccounted(r)'
    BY <1>9
    DEF Sound, CopiesAgree, MailsAccounted, Mails, Accounted, OpenCard, Over,
        Tally, RatesFound, JobReady, ToBeSearched, Outcome, Show, gate, bounds
  <2>4. OncePerProcess(r)'
    BY <1>9
    DEF Sound, CopiesAgree, OncePerProcess, Spent, Mails, OpenCard, Over, Tally,
        LiveRequest, RatesFound, JobReady, ToBeSearched, Outcome, Show, gate,
        bounds
  <2>5. QED
    BY <2>1, <2>2, <2>3, <2>4 DEF Sound
<1>10. ASSUME NEW r \in Requests, RatesExcluded(r)
      PROVE  \A s \in Requests : Sound(s)'
  <2>1. ASSUME NEW s \in Requests, s # r
        PROVE  Sound(s)'
    BY <1>10, <2>1, Untouched
    DEF RatesExcluded, JobReady, ToBeSearched, Outcome, Work, Commit, Refused,
        Show, gate
  <2>2. CopiesAgree(r)'
    BY <1>10
    DEF Sound, CopiesAgree, OpenCard, Over, LiveRequest, RatesExcluded,
        JobReady, ToBeSearched, Outcome, Work, Commit, Refused, Show, gate
  <2>3. MailsAccounted(r)'
    BY <1>10
    DEF Sound, CopiesAgree, MailsAccounted, Mails, Accounted, OpenCard, Over,
        Tally, RatesExcluded, JobReady, ToBeSearched, Outcome, Work, Commit,
        Refused, Show, gate
  <2>4. OncePerProcess(r)'
    BY <1>10
    DEF Sound, CopiesAgree, OncePerProcess, Spent, Mails, OpenCard, Over, Tally,
        LiveRequest, RatesExcluded, JobReady, ToBeSearched, Outcome, Work,
        Commit, Refused, Show, gate
  <2>5. QED
    BY <2>1, <2>2, <2>3, <2>4 DEF Sound
<1>11. ASSUME NEW r \in Requests, NoRates(r)
      PROVE  \A s \in Requests : Sound(s)'
  <2>1. ASSUME NEW s \in Requests, s # r
        PROVE  Sound(s)'
    BY <1>11, <2>1, Untouched
    DEF NoRates, JobReady, ToBeSearched, Outcome, Work, Commit, Refused, Show,
        Mailed, Add, Unrecorded, gate
  <2>2. CopiesAgree(r)'
    BY <1>11
    DEF Sound, CopiesAgree, OpenCard, Over, LiveRequest, NoRates, JobReady,
        ToBeSearched, Outcome, Work, Commit, Refused, Show, Mailed, Add,
        Unrecorded, gate
  <2>3. MailsAccounted(r)'
    BY <1>11
    DEF Sound, CopiesAgree, MailsAccounted, Mails, Accounted, OpenCard, Over,
        Tally, NoRates, JobReady, ToBeSearched, Outcome, Work, Commit, Refused,
        Show, Mailed, Add, Unrecorded, gate
  <2>4. OncePerProcess(r)'
    <3>1. /\ tally'[r].quotation = tally[r].quotation
          /\ tally'[r].notice = tally[r].notice + 1
      BY <1>11 DEF NoRates, Mailed, Add, Tally
    <3>2. ~Spent(r) /\ Mails(r) <= crashes
      BY <1>11 DEF Sound, OncePerProcess, Spent, NoRates, JobReady, ToBeSearched, Tally
    <3>3. desk'[r].state = "CLOSED_NO_RATES" /\ r \notin decided'
      BY <1>11, <3>2 DEF NoRates, Outcome, Show, gate, LiveRequest, Spent
    <3>4. QED
      BY <1>11, <3>1, <3>2, <3>3 DEF OncePerProcess, Spent, Mails, NoRates, Tally
  <2>5. QED
    BY <2>1, <2>2, <2>3, <2>4 DEF Sound
<1>12. ASSUME NEW r \in Requests, NoticeRefused(r)
      PROVE  \A s \in Requests : Sound(s)'
  <2>1. ASSUME NEW s \in Requests, s # r
        PROVE  Sound(s)'
    BY <1>12, <2>1, Untouched
    DEF NoticeRefused, JobReady, ToBeSearched, Outcome, Show, Refused, Mailed,
        Add, gate
  <2>2. CopiesAgree(r)'
    BY <1>12
    DEF Sound, CopiesAgree, OpenCard, Over, LiveRequest, NoticeRefused,
        JobReady, ToBeSearched, Outcome, Show, Refused, Mailed, Add, gate
  <2>3. MailsAccounted(r)'
    BY <1>12
    DEF Sound, CopiesAgree, MailsAccounted, Mails, Accounted, OpenCard, Over,
        Tally, NoticeRefused, JobReady, ToBeSearched, Outcome, Show, Refused,
        Mailed, Add, gate
  <2>4. OncePerProcess(r)'
    BY <1>12
    DEF Sound, CopiesAgree, OncePerProcess, Spent, Mails, OpenCard, Over, Tally,
        LiveRequest, NoticeRefused, JobReady, ToBeSearched, Outcome, Show,
        Refused, Mailed, Add, gate
  <2>5. QED
    BY <2>1, <2>2, <2>3, <2>4 DEF Sound
<1>13. ASSUME NEW r \in Requests, JobLost(r)
      PROVE  \A s \in Requests : Sound(s)'
  <2>1. ASSUME NEW s \in Requests, s # r
        PROVE  Sound(s)'
    BY <1>13, <2>1, Untouched
    DEF JobLost, JobReady, ToBeSearched, Show, Refused, gate
  <2>2. CopiesAgree(r)'
    BY <1>13
    DEF Sound, CopiesAgree, OpenCard, Over, LiveRequest, JobLost, JobReady,
        ToBeSearched, Show, Refused, gate
  <2>3. MailsAccounted(r)'
    BY <1>13
    DEF Sound, CopiesAgree, MailsAccounted, Mails, Accounted, OpenCard, Over,
        Tally, JobLost, JobReady, ToBeSearched, Show, Refused, gate
  <2>4. OncePerProcess(r)'
    BY <1>13
    DEF Sound, CopiesAgree, OncePerProcess, Spent, Mails, OpenCard, Over, Tally,
        LiveRequest, JobLost, JobReady, ToBeSearched, Show, Refused, gate
  <2>5. QED
    BY <2>1, <2>2, <2>3, <2>4 DEF Sound
<1>14. ASSUME NEW r \in Requests, NEW click \in Choice, DecisionRefused(r, click)
      PROVE  \A s \in Requests : Sound(s)'
  <2>1. ASSUME NEW s \in Requests, s # r
        PROVE  Sound(s)'
    BY <1>14, <2>1, Untouched DEF DecisionRefused, Clicked, bounds
  <2>2. CopiesAgree(r)'
    BY <1>14
    DEF Sound, CopiesAgree, OpenCard, Over, LiveRequest, DecisionRefused,
        Clicked, bounds
  <2>3. MailsAccounted(r)'
    BY <1>14
    DEF Sound, CopiesAgree, MailsAccounted, Mails, Accounted, OpenCard, Over,
        Tally, DecisionRefused, Clicked, bounds
  <2>4. OncePerProcess(r)'
    BY <1>14
    DEF Sound, CopiesAgree, OncePerProcess, Spent, Mails, OpenCard, Over, Tally,
        LiveRequest, DecisionRefused, Clicked, bounds
  <2>5. QED
    BY <2>1, <2>2, <2>3, <2>4 DEF Sound
<1>15. ASSUME NEW r \in Requests, NEW click \in Choice, ReviewRefused(r, click)
      PROVE  \A s \in Requests : Sound(s)'
  <2>1. ASSUME NEW s \in Requests, s # r
        PROVE  Sound(s)'
    BY <1>15, <2>1, Untouched DEF ReviewRefused, Work, Clicked, Refused
  <2>2. CopiesAgree(r)'
    BY <1>15
    DEF Sound, CopiesAgree, OpenCard, Over, LiveRequest, ReviewRefused, Work,
        Clicked, Refused
  <2>3. MailsAccounted(r)'
    BY <1>15
    DEF Sound, CopiesAgree, MailsAccounted, Mails, Accounted, OpenCard, Over,
        Tally, ReviewRefused, Work, Clicked, Refused
  <2>4. OncePerProcess(r)'
    BY <1>15
    DEF Sound, CopiesAgree, OncePerProcess, Spent, Mails, OpenCard, Over, Tally,
        LiveRequest, ReviewRefused, Work, Clicked, Refused
  <2>5. QED
    BY <2>1, <2>2, <2>3, <2>4 DEF Sound
<1>16. ASSUME NEW r \in Requests, NEW click \in Choice, Decline(r, click)
      PROVE  \A s \in Requests : Sound(s)'
  <2>1. ASSUME NEW s \in Requests, s # r
        PROVE  Sound(s)'
    BY <1>16, <2>1, Untouched
    DEF Decline, Answered, Recorded, Consume, Work, Commit, Refused, Show,
        Clicked
  <2>2. CopiesAgree(r)'
    BY <1>16
    DEF Sound, CopiesAgree, OpenCard, Over, LiveRequest, Decline, Answered,
        Recorded, Consume, Work, Commit, Refused, Show, Clicked
  <2>3. MailsAccounted(r)'
    BY <1>16
    DEF Sound, CopiesAgree, MailsAccounted, Mails, Accounted, OpenCard, Over,
        Tally, Decline, Answered, Recorded, Consume, Work, Commit, Refused,
        Show, Clicked
  <2>4. OncePerProcess(r)'
    BY <1>16
    DEF Sound, CopiesAgree, OncePerProcess, Spent, Mails, OpenCard, Over, Tally,
        LiveRequest, Decline, Answered, Recorded, Consume, Work, Commit,
        Refused, Show, Clicked
  <2>5. QED
    BY <2>1, <2>2, <2>3, <2>4 DEF Sound
<1>17. ASSUME NEW r \in Requests, NEW click \in Choice, QuotationRefused(r, click)
      PROVE  \A s \in Requests : Sound(s)'
  <2>1. ASSUME NEW s \in Requests, s # r
        PROVE  Sound(s)'
    BY <1>17, <2>1, Untouched
    DEF QuotationRefused, Answered, Recorded, Consume, Work, Refused, Clicked,
        Mailed, Add
  <2>2. CopiesAgree(r)'
    BY <1>17
    DEF Sound, CopiesAgree, OpenCard, Over, LiveRequest, QuotationRefused,
        Answered, Recorded, Consume, Work, Refused, Clicked, Mailed, Add
  <2>3. MailsAccounted(r)'
    BY <1>17
    DEF Sound, CopiesAgree, MailsAccounted, Mails, Accounted, OpenCard, Over,
        Tally, QuotationRefused, Answered, Recorded, Consume, Work, Refused,
        Clicked, Mailed, Add
  <2>4. OncePerProcess(r)'
    BY <1>17
    DEF Sound, CopiesAgree, OncePerProcess, Spent, Mails, OpenCard, Over, Tally,
        LiveRequest, QuotationRefused, Answered, Recorded, Consume, Work,
        Refused, Clicked, Mailed, Add
  <2>5. QED
    BY <2>1, <2>2, <2>3, <2>4 DEF Sound
<1>18. ASSUME NEW r \in Requests, NEW click \in Choice, Quote(r, click)
      PROVE  \A s \in Requests : Sound(s)'
  <2>1. ASSUME NEW s \in Requests, s # r
        PROVE  Sound(s)'
    BY <1>18, <2>1, Untouched
    DEF Quote, Answered, Recorded, Consume, Work, Commit, Refused, Show,
        Clicked, Mailed, Add, Unrecorded
  <2>2. CopiesAgree(r)'
    BY <1>18
    DEF Sound, CopiesAgree, OpenCard, Over, LiveRequest, Quote, Answered,
        Recorded, Consume, Work, Commit, Refused, Show, Clicked, Mailed, Add,
        Unrecorded
  <2>3. MailsAccounted(r)'
    BY <1>18
    DEF Sound, CopiesAgree, MailsAccounted, Mails, Accounted, OpenCard, Over,
        Tally, Quote, Answered, Recorded, Consume, Work, Commit, Refused, Show,
        Clicked, Mailed, Add, Unrecorded
  <2>4. OncePerProcess(r)'
    <3>1. /\ tally'[r].quotation = tally[r].quotation + 1
          /\ tally'[r].notice = tally[r].notice
      BY <1>18 DEF Quote, Clicked, Mailed, Add, Tally
    <3>2. ~Spent(r) /\ Mails(r) <= crashes
      BY <1>18 DEF Sound, CopiesAgree, OncePerProcess, Spent, Quote, Answered,
               AlreadyDecided, Tally
    <3>3. desk'[r].state = "QUOTATION_SENT"
      BY <1>18 DEF Quote, Show, LiveRequest
    <3>4. QED
      BY <1>18, <3>1, <3>2, <3>3 DEF OncePerProcess, Spent, Mails, Quote, Tally
  <2>5. QED
    BY <2>1, <2>2, <2>3, <2>4 DEF Sound
<1>19. ASSUME NEW r \in Requests, ResolveManualReview(r)
      PROVE  \A s \in Requests : Sound(s)'
  <2>1. ASSUME NEW s \in Requests, s # r
        PROVE  Sound(s)'
    BY <1>19, <2>1, Untouched
    DEF ResolveManualReview, Work, Commit, Refused, Show, gate
  <2>2. CopiesAgree(r)'
    BY <1>19
    DEF Sound, CopiesAgree, OpenCard, Over, LiveRequest, ResolveManualReview,
        Work, Commit, Refused, Show, gate
  <2>3. MailsAccounted(r)'
    BY <1>19
    DEF Sound, CopiesAgree, MailsAccounted, Mails, Accounted, OpenCard, Over,
        Tally, ResolveManualReview, Work, Commit, Refused, Show, gate
  <2>4. OncePerProcess(r)'
    BY <1>19
    DEF Sound, CopiesAgree, OncePerProcess, Spent, Mails, OpenCard, Over, Tally,
        LiveRequest, ResolveManualReview, Work, Commit, Refused, Show, gate
  <2>5. QED
    BY <2>1, <2>2, <2>3, <2>4 DEF Sound
<1>20. ASSUME NEW r \in Requests, DatePasses(r)
      PROVE  \A s \in Requests : Sound(s)'
  <2>1. ASSUME NEW s \in Requests, s # r
        PROVE  Sound(s)'
    BY <1>20, <2>1, Untouched DEF DatePasses, gate, bounds
  <2>2. CopiesAgree(r)'
    BY <1>20
    DEF Sound, CopiesAgree, OpenCard, Over, LiveRequest, DatePasses, gate,
        bounds
  <2>3. MailsAccounted(r)'
    BY <1>20
    DEF Sound, CopiesAgree, MailsAccounted, Mails, Accounted, OpenCard, Over,
        Tally, DatePasses, gate, bounds
  <2>4. OncePerProcess(r)'
    BY <1>20
    DEF Sound, CopiesAgree, OncePerProcess, Spent, Mails, OpenCard, Over, Tally,
        LiveRequest, DatePasses, gate, bounds
  <2>5. QED
    BY <2>1, <2>2, <2>3, <2>4 DEF Sound
<1>21. CASE Restart
  <2>1. ASSUME NEW s \in Requests
        PROVE  MailsAccounted(s)' /\ OncePerProcess(s)'
    BY <1>21
    DEF Restart, Reboot, Sound, CopiesAgree, MailsAccounted, OncePerProcess,
        Mails, Accounted, Spent, Over, Tally
  <2>2. QED
    BY <1>21, <2>1, RebootAgrees DEF Restart, Sound
<1>22. ASSUME NEW r \in Requests, NEW click \in Choice, QuoteThenCrash(r, click)
       PROVE  \A s \in Requests : Sound(s)'
  <2>1. ASSUME NEW s \in Requests
        PROVE  MailsAccounted(s)' /\ OncePerProcess(s)'
    BY <1>22
    DEF QuoteThenCrash, Answered, Recorded, AlreadyDecided, Clicked, Mailed, Add,
        Reboot, Sound, CopiesAgree, MailsAccounted, OncePerProcess, Mails,
        Accounted, Spent, Over, OpenCard, Tally
  <2>2. QED
    BY <1>22, <2>1, RebootAgrees DEF QuoteThenCrash, Sound
<1>23. ASSUME NEW r \in Requests, NoticeThenCrash(r)
       PROVE  \A s \in Requests : Sound(s)'
  <2>1. ASSUME NEW s \in Requests
        PROVE  MailsAccounted(s)' /\ OncePerProcess(s)'
    BY <1>23
    DEF NoticeThenCrash, JobReady, ToBeSearched, Mailed, Add, Reboot, Sound,
        CopiesAgree, MailsAccounted, OncePerProcess, Mails, Accounted, Spent,
        Over, Tally
  <2>2. QED
    BY <1>23, <2>1, RebootAgrees DEF NoticeThenCrash, Sound
<1>24. QED
  BY <1>0, <1>1, <1>2, <1>3, <1>4, <1>5, <1>6, <1>7, <1>8, <1>9, <1>10, <1>11,
     <1>12, <1>13, <1>14, <1>15, <1>16, <1>17, <1>18, <1>19, <1>20, <1>21,
     <1>22, <1>23
  DEF Next, Conversation, RateSearch, Attempt, JobDone, Decision
-----------------------------------------------------------------------------
(* Theorems.                                                                 *)

\* The inductive invariant: types, and every request sound by itself.
THEOREM Invariance == Spec => []IInv
<1>1. Init => IInv
  BY TypeInit, SoundInit DEF IInv
<1>2. IInv /\ [Next]_vars => IInv'
  <2> SUFFICES ASSUME IInv, [Next]_vars
               PROVE  IInv'
    OBVIOUS
  <2>1. TypeOK'
    BY TypeStep DEF IInv
  <2>2. QED
    BY <2>1, SoundStep DEF IInv
<1>3. QED
  BY <1>1, <1>2, PTL DEF Spec

\* Type correctness, with the question budget of a process.
THEOREM TypeCorrect == Spec => []TypeOK
<1>1. IInv => TypeOK
  BY DEF IInv
<1>2. QED
  BY Invariance, <1>1, PTL

\* BR-11: no quotation leaves without an approval of that request by a person.
THEOREM Approved == Spec => []QuotationsAreApproved
<1>1. IInv => QuotationsAreApproved
  BY DEF IInv, Sound, MailsAccounted, QuotationsAreApproved
<1>2. QED
  BY Invariance, <1>1, PTL

\* One final mail per request, but for those the store never learnt of; and one
\* in each process, whatever fails.
THEOREM FinalMailOnce == Spec => []OneFinalMail
<1>1. IInv => OneFinalMail
  BY DEF IInv, TypeOK, ProcessOK, Tally, Sound, MailsAccounted, OncePerProcess,
      Mails, Accounted, OneFinalMail
<1>2. QED
  BY Invariance, <1>1, PTL

\* The durable store never claims a mail that was not sent.
THEOREM ClaimsTrue == Spec => []ClaimsAreTrue
<1>1. IInv => ClaimsAreTrue
  BY DEF IInv, Sound, CopiesAgree, MailsAccounted, Over, ClaimsAreTrue
<1>2. QED
  BY Invariance, <1>1, PTL

\* An open approval card belongs to a request that can still be quoted.
THEOREM CardAlive == Spec => []OpenCardIsAlive
<1>1. IInv => OpenCardIsAlive
  BY DEF IInv, Sound, CopiesAgree, OpenCardIsAlive
<1>2. QED
  BY Invariance, <1>1, PTL
-----------------------------------------------------------------------------
(* Action property and gate.                                                 *)

Unmoved(s) ==
    /\ durable'[s] = durable[s]
    /\ tally'[s].quotation = tally[s].quotation
    /\ tally'[s].notice = tally[s].notice

\* A committed final state is left alone by every step.
LEMMA OverStep ==
  ASSUME IInv, [Next]_vars, NEW s \in Requests, durable[s] \in Over
  PROVE  Unmoved(s)
<1> USE DEF IInv, TypeOK, RequestsOK, ProcessOK, Unmoved, Tally
\* A handler that moves a request is enabled for one that is over only to
\* resolve once more what is resolved.
<1>a. /\ working[s] = durable[s]
      /\ ~OpenCard(s) /\ ~ToBeSearched(s)
      /\ working[s] \notin {"ABSENT", "CLARIFICATION_SENT"}
      /\ desk[s].state # "NEEDS_INFO"
      /\ desk[s].state = "MANUAL_REVIEW" => durable[s] = "RESOLVED"
  BY DEF Sound, CopiesAgree, Over, ToBeSearched
<1>0. CASE UNCHANGED vars
  BY <1>0 DEF vars
<1>1. ASSUME NEW r \in Requests,
             NEW state \in {"NEEDS_INFO", "CLARIFICATION_SENT", "VALIDATED", "MANUAL_REVIEW"},
             ClientTurn(r, state)
      PROVE  Unmoved(s)
  BY <1>1, <1>a DEF ClientTurn, Commit, Refused
<1>2. ASSUME NEW r \in Requests, ApproveClarification(r)
      PROVE  Unmoved(s)
  BY <1>2, <1>a DEF ApproveClarification, Commit
<1>3. ASSUME NEW r \in Requests, LateMessage(r)
      PROVE  Unmoved(s)
  BY <1>3, <1>a DEF LateMessage, Commit
<1>4. ASSUME NEW r \in Requests, AskQuestion(r)
      PROVE  Unmoved(s)
  BY <1>4, <1>a DEF AskQuestion, CannotSearch, Commit
<1>5. ASSUME NEW r \in Requests, Enqueue(r)
      PROVE  Unmoved(s)
  BY <1>5, <1>a DEF Enqueue
<1>6. ASSUME NEW r \in Requests, PickGoodsType(r)
      PROVE  Unmoved(s)
  BY <1>6, <1>a DEF PickGoodsType, Commit
<1>7. ASSUME NEW r \in Requests, SearchFails(r)
      PROVE  Unmoved(s)
  BY <1>7, <1>a DEF SearchFails
<1>8. ASSUME NEW r \in Requests, JobPending(r)
      PROVE  Unmoved(s)
  BY <1>8, <1>a DEF JobPending
<1>9. ASSUME NEW r \in Requests, RatesFound(r)
      PROVE  Unmoved(s)
  BY <1>9, <1>a DEF RatesFound
<1>10. ASSUME NEW r \in Requests, RatesExcluded(r)
       PROVE  Unmoved(s)
  BY <1>10, <1>a DEF RatesExcluded, JobReady, Commit
<1>11. ASSUME NEW r \in Requests, NoRates(r)
       PROVE  Unmoved(s)
  BY <1>11, <1>a DEF NoRates, JobReady, Mailed, Add, Commit
<1>12. ASSUME NEW r \in Requests, NoticeRefused(r)
       PROVE  Unmoved(s)
  BY <1>12, <1>a DEF NoticeRefused, JobReady, Mailed, Add
<1>13. ASSUME NEW r \in Requests, JobLost(r)
       PROVE  Unmoved(s)
  BY <1>13, <1>a DEF JobLost
<1>14. ASSUME NEW r \in Requests, NEW click \in Choice, DecisionRefused(r, click)
       PROVE  Unmoved(s)
  BY <1>14, <1>a DEF DecisionRefused, Clicked
<1>15. ASSUME NEW r \in Requests, NEW click \in Choice, ReviewRefused(r, click)
       PROVE  Unmoved(s)
  BY <1>15, <1>a DEF ReviewRefused, Clicked
<1>16. ASSUME NEW r \in Requests, NEW click \in Choice, Decline(r, click)
       PROVE  Unmoved(s)
  BY <1>16, <1>a DEF Decline, Answered, Clicked, Commit
<1>17. ASSUME NEW r \in Requests, NEW click \in Choice, QuotationRefused(r, click)
       PROVE  Unmoved(s)
  BY <1>17, <1>a DEF QuotationRefused, Answered, Clicked, Mailed, Add
<1>18. ASSUME NEW r \in Requests, NEW click \in Choice, Quote(r, click)
       PROVE  Unmoved(s)
  BY <1>18, <1>a DEF Quote, Answered, Clicked, Mailed, Add, Commit
<1>19. ASSUME NEW r \in Requests, ResolveManualReview(r)
       PROVE  Unmoved(s)
  BY <1>19, <1>a DEF ResolveManualReview, Commit
<1>20. ASSUME NEW r \in Requests, DatePasses(r)
       PROVE  Unmoved(s)
  BY <1>20, <1>a DEF DatePasses
<1>21. CASE Restart
  BY <1>21 DEF Restart, Reboot
<1>22. ASSUME NEW r \in Requests, NEW click \in Choice, QuoteThenCrash(r, click)
       PROVE  Unmoved(s)
  BY <1>22, <1>a DEF QuoteThenCrash, Answered, Clicked, Mailed, Add, Reboot
<1>23. ASSUME NEW r \in Requests, NoticeThenCrash(r)
       PROVE  Unmoved(s)
  BY <1>23, <1>a DEF NoticeThenCrash, JobReady, Mailed, Add, Reboot
<1>24. QED
  BY <1>0, <1>1, <1>2, <1>3, <1>4, <1>5, <1>6, <1>7, <1>8, <1>9, <1>10, <1>11,
     <1>12, <1>13, <1>14, <1>15, <1>16, <1>17, <1>18, <1>19, <1>20, <1>21,
     <1>22, <1>23
  DEF Next, Conversation, RateSearch, Attempt, JobDone, Decision

\* What is over stays over, in every later process too.
THEOREM OverForGood == Spec => OverIsOver
<1>1. IInv /\ [Next]_vars =>
        [\A r \in Requests : durable[r] \in Over =>
           /\ durable'[r] = durable[r]
           /\ tally'[r].quotation = tally[r].quotation
           /\ tally'[r].notice = tally[r].notice]_vars
  BY OverStep DEF Unmoved
<1>2. QED
  BY Invariance, <1>1, PTL DEF Spec, OverIsOver

\* While no send or commit was refused, the gate is empty and the stage's ledger agrees
\* with the cards.
GateSound ==
    failures = 0 => /\ slot = {}
                    /\ \A r \in decided : desk[r].decision # "none"

\* Every step keeps the gate free but for a refused send or commit.
LEMMA GateStep ==
  ASSUME IInv, GateSound, [Next]_vars
  PROVE  GateSound'
<1> SUFFICES ASSUME failures' = 0
             PROVE  slot' = {} /\ \A s \in decided' : desk'[s].decision # "none"
  BY DEF GateSound
<1> USE DEF IInv, TypeOK, RequestsOK, ProcessOK, GateSound, LiveRequest
<1>0. CASE UNCHANGED vars
  BY <1>0 DEF vars
<1>1. ASSUME NEW r \in Requests,
             NEW state \in {"NEEDS_INFO", "CLARIFICATION_SENT", "VALIDATED", "MANUAL_REVIEW"},
             ClientTurn(r, state)
      PROVE  slot' = {} /\ \A s \in decided' : desk'[s].decision # "none"
  BY <1>1 DEF ClientTurn, Commit, Refused, Show, gate
<1>2. ASSUME NEW r \in Requests, ApproveClarification(r)
      PROVE  slot' = {} /\ \A s \in decided' : desk'[s].decision # "none"
  BY <1>2 DEF ApproveClarification, Commit, Refused, Show, gate
<1>3. ASSUME NEW r \in Requests, LateMessage(r)
      PROVE  slot' = {} /\ \A s \in decided' : desk'[s].decision # "none"
  BY <1>3 DEF LateMessage, Commit, Refused, gate
<1>4. ASSUME NEW r \in Requests, AskQuestion(r)
      PROVE  slot' = {} /\ \A s \in decided' : desk'[s].decision # "none"
  <2>1. \/ Show(r, [desk[r] EXCEPT !.state = "MANUAL_REVIEW", !.failed = FALSE])
        \/ Show(r, [desk[r] EXCEPT !.state = "NEEDS_INFO", !.draft = TRUE, !.failed = FALSE])
    BY <1>4 DEF AskQuestion
  <2>2. ASSUME NEW s \in Requests
        PROVE  desk'[s].decision = desk[s].decision
    <3>1. CASE Show(r, [desk[r] EXCEPT !.state = "MANUAL_REVIEW", !.failed = FALSE])
      BY <3>1 DEF Show
    <3>2. CASE Show(r, [desk[r] EXCEPT !.state = "NEEDS_INFO", !.draft = TRUE, !.failed = FALSE])
      BY <3>2 DEF Show
    <3>3. QED
      BY <2>1, <3>1, <3>2
  <2>3. failures = 0
    BY <1>4 DEF AskQuestion, Commit, Refused
  <2>4. QED
    BY <1>4, <2>2, <2>3 DEF AskQuestion, gate
<1>5. ASSUME NEW r \in Requests, Enqueue(r)
      PROVE  slot' = {} /\ \A s \in decided' : desk'[s].decision # "none"
  BY <1>5 DEF Enqueue, Show, gate, bounds
<1>6. ASSUME NEW r \in Requests, PickGoodsType(r)
      PROVE  slot' = {} /\ \A s \in decided' : desk'[s].decision # "none"
  BY <1>6 DEF PickGoodsType, Commit, Refused, Show, gate
<1>7. ASSUME NEW r \in Requests, SearchFails(r)
      PROVE  slot' = {} /\ \A s \in decided' : desk'[s].decision # "none"
  BY <1>7 DEF SearchFails, Show, gate, bounds
<1>8. ASSUME NEW r \in Requests, JobPending(r)
      PROVE  slot' = {} /\ \A s \in decided' : desk'[s].decision # "none"
  BY <1>8 DEF JobPending, Show, gate, bounds
<1>9. ASSUME NEW r \in Requests, RatesFound(r)
      PROVE  slot' = {} /\ \A s \in decided' : desk'[s].decision # "none"
  BY <1>9 DEF RatesFound, Outcome, Show, gate, bounds
<1>10. ASSUME NEW r \in Requests, RatesExcluded(r)
       PROVE  slot' = {} /\ \A s \in decided' : desk'[s].decision # "none"
  BY <1>10 DEF RatesExcluded, Outcome, Commit, Refused, Show, gate
<1>11. ASSUME NEW r \in Requests, NoRates(r)
       PROVE  slot' = {} /\ \A s \in decided' : desk'[s].decision # "none"
  BY <1>11 DEF NoRates, Outcome, Commit, Refused, Show, gate
<1>12. ASSUME NEW r \in Requests, NoticeRefused(r)
       PROVE  slot' = {} /\ \A s \in decided' : desk'[s].decision # "none"
  BY <1>12 DEF NoticeRefused, Refused
<1>13. ASSUME NEW r \in Requests, JobLost(r)
       PROVE  slot' = {} /\ \A s \in decided' : desk'[s].decision # "none"
  BY <1>13 DEF JobLost, Refused
<1>14. ASSUME NEW r \in Requests, NEW click \in Choice, DecisionRefused(r, click)
       PROVE  slot' = {} /\ \A s \in decided' : desk'[s].decision # "none"
  BY <1>14
  DEF DecisionRefused, AlreadyDecided, OpenCard, Settled, Over, Sound,
      CopiesAgree, bounds
<1>15. ASSUME NEW r \in Requests, NEW click \in Choice, ReviewRefused(r, click)
       PROVE  slot' = {} /\ \A s \in decided' : desk'[s].decision # "none"
  BY <1>15 DEF ReviewRefused, Refused
<1>16. ASSUME NEW r \in Requests, NEW click \in Choice, Decline(r, click)
       PROVE  slot' = {} /\ \A s \in decided' : desk'[s].decision # "none"
  BY <1>16 DEF Decline, Answered, Consume, Commit, Refused, Show
<1>17. ASSUME NEW r \in Requests, NEW click \in Choice, QuotationRefused(r, click)
       PROVE  slot' = {} /\ \A s \in decided' : desk'[s].decision # "none"
  BY <1>17 DEF QuotationRefused, Refused
<1>18. ASSUME NEW r \in Requests, NEW click \in Choice, Quote(r, click)
       PROVE  slot' = {} /\ \A s \in decided' : desk'[s].decision # "none"
  BY <1>18 DEF Quote, Answered, Consume, Commit, Refused, Show
<1>19. ASSUME NEW r \in Requests, ResolveManualReview(r)
       PROVE  slot' = {} /\ \A s \in decided' : desk'[s].decision # "none"
  BY <1>19 DEF ResolveManualReview, Commit, Refused, Show, gate
<1>20. ASSUME NEW r \in Requests, DatePasses(r)
       PROVE  slot' = {} /\ \A s \in decided' : desk'[s].decision # "none"
  BY <1>20 DEF DatePasses, gate, bounds
<1>21. CASE Reboot
  BY <1>21 DEF Reboot
<1>22. QED
  BY <1>0, <1>1, <1>2, <1>3, <1>4, <1>5, <1>6, <1>7, <1>8, <1>9, <1>10, <1>11,
     <1>12, <1>13, <1>14, <1>15, <1>16, <1>17, <1>18, <1>19, <1>20, <1>21
  DEF Next, Conversation, RateSearch, Attempt, JobDone, Decision, Restart,
      QuoteThenCrash, NoticeThenCrash

\* Only a refused send or commit leaves a decision waiting at the gate: while
\* all of them succeed the stage never refuses a decision it was handed.
THEOREM GateFree == Spec => []GateIsFree
<1>1. Init => GateSound
  BY DEF Init, GateSound
<1>2. IInv /\ GateSound /\ [Next]_vars => GateSound'
  BY GateStep
<1>3. IInv /\ GateSound => GateIsFree
  BY DEF IInv, TypeOK, ProcessOK, GateSound, GateIsFree
<1>4. QED
  BY Invariance, <1>1, <1>2, <1>3, PTL DEF Spec
=============================================================================

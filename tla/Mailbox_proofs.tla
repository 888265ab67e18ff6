---------------------------- MODULE Mailbox_proofs ----------------------------
(***************************************************************************)
(* The mailbox, for any number of messages, faults and polls, any clocks   *)
(* within the overlap, and any caps of a read: its types, that a reply is  *)
(* never on record without its enquiry, and that it implements Answering,  *)
(* from which OneMailPerMessage follows for the desk.                      *)
(***************************************************************************)
EXTENDS Mailbox, WellFoundedInduction, TLAPS

MailType == [kind : Kinds, drift : Drifts, irt : Nat, refs : SUBSET Nat]
ViewType == [state : States, messages : SUBSET Ids,
             enquiry : Ids \union {0}, turn : Ids \union {0}]

\* Shapes.  That dates have a lower bound makes the watermark a date.
Typed ==
    /\ inbox \in Seq(MailType) /\ Len(inbox) <= MaxMail
    /\ \E b \in Int : \A i \in Mail : b <= Date(i)
    /\ watermark \in Int
    /\ durable \in StoreType /\ working \in StoreType
    /\ desk \in [Ids -> ViewType]
    /\ routed \in SUBSET Mail /\ held \in SUBSET Mail /\ dropped \in SUBSET Mail
    /\ polling \in BOOLEAN
    /\ scope \in SUBSET Mail /\ batch \subseteq scope /\ (scope # {} => polling)
    /\ sent \in [Ids -> Nat] /\ lost \in Nat /\ faults \in Nat
    /\ \A r \in Ids : working.thread[r] \subseteq Mail

\* What the stores hold of the threads: no message is on two, the durable ones
\* are part of the working ones, and each begins with the enquiry it is named by.
ThreadsAgree ==
    /\ \A r \in Ids : durable.thread[r] \subseteq working.thread[r]
    /\ \A r, q \in Ids : r # q => working.thread[r] \cap working.thread[q] = {}
    /\ \A r \in Ids : durable.thread[r] # {} => r \in durable.thread[r]
    /\ EnquiryOnRecord

\* A draft is in this process only: its request waits in the working store, with
\* the message it answers on its thread.
DraftsAgree ==
    \A r \in Ids :
        /\ durable.state[r] # "NEEDS_INFO"
        /\ desk[r].enquiry # 0 => desk[r].enquiry \in working.thread[r]
        /\ desk[r].state = "NEEDS_INFO" =>
              /\ working.state[r] = "NEEDS_INFO"
              /\ desk[r].turn # 0 => desk[r].turn \in working.thread[r]

\* What a poll has yet to route was never handled by this process or on record.
BatchIsUnseen == \A i \in batch : ~SeenMessage(i)

\* What was handled and is not on record was dropped, or is a draft's enquiry.
SeenIsAccounted ==
    \A i \in Mail : SeenMessage(i) =>
        \/ i \in Committed \union dropped
        \/ \E r \in Ids : desk[r].state = "NEEDS_INFO" /\ desk[r].enquiry = i

IInv == Typed /\ ThreadsAgree /\ DraftsAgree /\ BatchIsUnseen /\ SeenIsAccounted

\* A message that the poll under way has not read is beyond its caps, on record,
\* dropped or handled.
ScopeCovers ==
    polling => \A i \in Mail : IsClientMail(i)
                  => i \in scope \union dropped \union unread \/ SeenMessage(i)

\* The cutoff is no later than a clock may date the mail of the inbox.
CutoffIsPast == watermark <= Len(inbox) + Overlap

WindowInv == UnsettledMailIsReadAgain /\ ScopeCovers /\ CutoffIsPast

-----------------------------------------------------------------------------

(* The naturals are well ordered.                                          *)
LEMMA LeastNatural ==
  ASSUME NEW T \in SUBSET Nat, T # {}
  PROVE  \E n \in T : \A m \in T : n <= m
<1>1. ASSUME NEW R, IsWellFoundedOn(R, Nat),
             \A m, n \in Nat : m < n => <<m, n>> \in R
      PROVE  \E n \in T : \A m \in T : n <= m
  <2>1. PICK n \in T : \A m \in T : ~ (<<m, n>> \in R)
    <3>1. IsWellFoundedOn(R, Nat)
      BY <1>1
    <3> QED BY <3>1, WFMin
  <2>2. ASSUME NEW m \in T PROVE n <= m
    <3>1. m \in Nat /\ n \in Nat /\ ~ (<<m, n>> \in R)
      BY <2>1
    <3>2. ~ (m < n)
      BY <1>1, <3>1, Zenon
    <3> QED BY <3>1, <3>2
  <2> QED BY <2>2
<1>2. \A m, n \in Nat : m < n => <<m, n>> \in OpToRel(<, Nat)
  BY DEF OpToRel
<1> QED BY <1>1, <1>2, NatLessThanWellFounded

(* A set of integers that is bounded below has a least member.             *)
LEMMA LeastInteger ==
  ASSUME NEW S \in SUBSET Int, S # {}, NEW b \in Int, \A x \in S : b <= x
  PROVE  \E d \in S : \A e \in S : d <= e
<1> DEFINE T == {n \in Nat : b + n \in S}
<1>1. PICK x \in S : TRUE
  OBVIOUS
<1>2. x - b \in T
  BY <1>1
<1>3. PICK n \in T : \A m \in T : n <= m
  <2> HIDE DEF T
  <2>1. T \in SUBSET Nat
    BY DEF T
  <2> QED BY <1>2, <2>1, LeastNatural
<1>4. \A e \in S : e - b \in T
  OBVIOUS
<1>5. \A e \in S : b + n <= e
  BY <1>3, <1>4
<1> QED BY <1>3, <1>5

(* A set of integers that is bounded above has a greatest member.          *)
LEMMA GreatestInteger ==
  ASSUME NEW S \in SUBSET Int, S # {}, NEW b \in Int, \A x \in S : x <= b
  PROVE  \E d \in S : \A e \in S : e <= d
<1> DEFINE T == {n \in Nat : b - n \in S}
<1>1. PICK x \in S : TRUE
  OBVIOUS
<1>2. b - x \in T
  BY <1>1
<1>3. PICK n \in T : \A m \in T : n <= m
  <2> HIDE DEF T
  <2>1. T \in SUBSET Nat
    BY DEF T
  <2> QED BY <1>2, <2>1, LeastNatural
<1>4. \A e \in S : b - e \in T
  OBVIOUS
<1>5. \A e \in S : e <= b - n
  BY <1>3, <1>4
<1> QED BY <1>3, <1>5

-----------------------------------------------------------------------------
(* Messages, dates and stores                                              *)

\* A message is an id, and its date is no later than the overlap allows.
LEMMA DateOf ==
  ASSUME Typed, NEW i \in Mail
  PROVE  i \in Ids /\ i \in Int /\ Date(i) \in Int /\ Date(i) <= i + Overlap
<1>1. i \in 1 .. Len(inbox) /\ Len(inbox) \in Nat /\ inbox[i] \in MailType
  BY DEF Typed, Mail
<1>2. inbox[i].drift \in Drifts
  BY <1>1 DEF MailType
<1>3. inbox[i].drift \in Int /\ inbox[i].drift <= Overlap /\ Overlap \in Int
  <2>1. \A d \in Drifts : d \in Int /\ d <= Overlap
    BY MailboxDrifts
  <2>2. Overlap \in Int
    BY MailboxBounds
  <2> QED BY <1>2, <2>1, <2>2, Zenon
<1>4. i \in Ids /\ i \in Int
  BY <1>1, MailboxBounds DEF Typed, Ids
<1> QED BY <1>3, <1>4 DEF Date

\* A message is placed on one request: its own, or one that has mail.
LEMMA PlaceOf ==
  ASSUME Typed, NEW i \in Mail
  PROVE  /\ RequestOf(i) \in Ids
         /\ IsNew(i) => RequestOf(i) = i
         /\ ~IsNew(i) => working.thread[RequestOf(i)] # {}
<1>1. CASE IsNew(i)
  BY <1>1, DateOf DEF RequestOf
<1>2. CASE ~IsNew(i)
  <2>1. RequestOf(i) \in Correlated(i)
    BY <1>2 DEF RequestOf, IsNew
  <2>2. \A r \in Correlated(i) : r \in Ids /\ working.thread[r] # {}
    BY DEF Correlated, OwnersOf
  <2> QED BY <1>2, <2>1, <2>2
<1> QED BY <1>1, <1>2

\* What is on the durable record.
LEMMA OnRecord == \A i : i \in Committed <=> \E r \in Ids : i \in durable.thread[r]
BY DEF Committed

LEMMA OnRecordNext == \A i : i \in Committed' <=> \E r \in Ids : i \in durable'.thread[r]
BY DEF Committed

\* A store after a record of a message, a save, a turn, and a commit.
LEMMA RecordOf ==
  ASSUME NEW store \in StoreType, NEW r \in Ids, NEW i \in Ids
  PROVE  /\ Record(store, r, i) \in StoreType
         /\ Record(store, r, i).state = store.state
         /\ Record(store, r, i).thread = [store.thread EXCEPT ![r] = @ \union {i}]
BY DEF Record, StoreType

LEMMA SavedOf ==
  ASSUME NEW store \in StoreType, NEW r \in Ids, NEW s \in States
  PROVE  /\ Saved(store, r, s) \in StoreType
         /\ Saved(store, r, s).state = [store.state EXCEPT ![r] = s]
         /\ Saved(store, r, s).thread = store.thread
BY DEF Saved, StoreType

LEMMA TurnOf ==
  ASSUME Typed, NEW i \in Mail, NEW s \in States
  PROVE  /\ AfterTurn(i, s) \in StoreType
         /\ AfterTurn(i, s).state = [working.state EXCEPT ![RequestOf(i)] = s]
         /\ AfterTurn(i, s).thread = [working.thread EXCEPT ![RequestOf(i)] = @ \union {i}]
<1>1. RequestOf(i) \in Ids /\ i \in Ids /\ working \in StoreType
  BY PlaceOf, DateOf DEF Typed
<1> HIDE DEF RequestOf
<1> QED BY <1>1, SavedOf, RecordOf DEF AfterTurn

LEMMA CommitOf ==
  ASSUME Typed, NEW source \in StoreType, NEW r \in Ids
  PROVE  /\ CommitThread(source, r) \in StoreType
         /\ CommitThread(source, r).state = durable.state
         /\ CommitThread(source, r).thread = [durable.thread EXCEPT ![r] = source.thread[r]]
         /\ CommitRequest(source, r) \in StoreType
         /\ CommitRequest(source, r).state = [durable.state EXCEPT ![r] = source.state[r]]
         /\ CommitRequest(source, r).thread = [durable.thread EXCEPT ![r] = source.thread[r]]
         /\ HalfCommitted(source, r) \in StoreType
         /\ HalfCommitted(source, r).state = [durable.state EXCEPT ![r] = source.state[r]]
         /\ HalfCommitted(source, r).thread = durable.thread
<1>1. durable \in StoreType
  BY DEF Typed
<1>2. /\ CommitThread(source, r) \in StoreType
      /\ CommitThread(source, r).state = durable.state
      /\ CommitThread(source, r).thread = [durable.thread EXCEPT ![r] = source.thread[r]]
  BY <1>1 DEF CommitThread, StoreType
<1>3. /\ HalfCommitted(source, r) \in StoreType
      /\ HalfCommitted(source, r).state = [durable.state EXCEPT ![r] = source.state[r]]
      /\ HalfCommitted(source, r).thread = durable.thread
  BY <1>1 DEF HalfCommitted, StoreType
<1>4. \A store \in StoreType :
        LET next == [store EXCEPT !.state[r] = source.state[r]]
        IN  /\ next \in StoreType
            /\ next.state = [store.state EXCEPT ![r] = source.state[r]]
            /\ next.thread = store.thread
  BY DEF StoreType
<1>5. CommitRequest(source, r) = [CommitThread(source, r) EXCEPT !.state[r] = source.state[r]]
  BY DEF CommitRequest
<1> QED BY <1>2, <1>3, <1>4, <1>5

\* Whatever a commit of a request wrote, done or refused, no draft is in the
\* durable store, and its thread is there or it is not.
LEMMA WrittenOf ==
  ASSUME IInv, NEW source \in StoreType, NEW r \in Ids, source.state[r] # "NEEDS_INFO",
         NEW store \in Refused(source, r) \union {CommitThread(source, r)}
  PROVE  /\ store \in StoreType
         /\ \A q \in Ids : store.state[q] # "NEEDS_INFO"
         /\ \/ store.thread = durable.thread
            \/ store.thread = [durable.thread EXCEPT ![r] = source.thread[r]]
<1>1. /\ durable \in StoreType /\ durable.state \in [Ids -> States]
      /\ \A q \in Ids : durable.state[q] # "NEEDS_INFO"
  BY DEF IInv, Typed, DraftsAgree, StoreType
<1>2. \/ store = durable \/ store = HalfCommitted(source, r)
      \/ store = CommitRequest(source, r) \/ store = CommitThread(source, r)
  BY DEF Refused
<1>3. /\ store \in StoreType
      /\ \/ store.state = durable.state
         \/ store.state = [durable.state EXCEPT ![r] = source.state[r]]
      /\ \/ store.thread = durable.thread
         \/ store.thread = [durable.thread EXCEPT ![r] = source.thread[r]]
  BY <1>1, <1>2, CommitOf DEF IInv
<1> QED BY <1>1, <1>3

LEMMA ShownOf ==
  ASSUME Typed, NEW i \in Mail, NEW s \in States, NEW r \in Ids
  PROVE  /\ Shown(i, s) \in [Ids -> ViewType]
         /\ r # RequestOf(i) => Shown(i, s)[r] = desk[r]
         /\ r = RequestOf(i) =>
              /\ Shown(i, s)[r].state = s /\ Shown(i, s)[r].turn = i
              /\ Shown(i, s)[r].enquiry = IF desk[r].state = "NONE" THEN i ELSE desk[r].enquiry
<1> DEFINE q == RequestOf(i)
           v == [state |-> s, messages |-> desk[q].messages \union {i}, turn |-> i,
                 enquiry |-> IF desk[q].state = "NONE" THEN i ELSE desk[q].enquiry]
<1>1. q \in Ids /\ i \in Ids
  BY PlaceOf, DateOf
<1>2. desk \in [Ids -> ViewType]
  BY DEF Typed
<1>3. Shown(i, s) = [desk EXCEPT ![q] = v]
  BY DEF Shown
<1>4. v \in ViewType
  <2>1. desk[q] \in ViewType
    BY <1>1, <1>2
  <2> QED BY <1>1, <2>1 DEF ViewType
<1>5. v.state = s /\ v.turn = i
      /\ v.enquiry = IF desk[q].state = "NONE" THEN i ELSE desk[q].enquiry
  OBVIOUS
<1> HIDE DEF q, v
<1> QED BY <1>1, <1>2, <1>3, <1>4, <1>5 DEF q

\* A turn ends in a state of the request, with one mail or none.
LEMMA OutcomesOf ==
  ASSUME NEW i, NEW o \in TurnOutcomes(i)
  PROVE  o \in Outcomes /\ o.state \in States /\ o.mails \in {0, 1}
<1>1. Readable(i) \subseteq States
  BY DEF Readable, States
<1>2. FailureNotice \in Outcomes /\ Reminder \in Outcomes
  BY DEF FailureNotice, Reminder, Outcomes, States
<1>3. o \in Outcomes
  BY <1>1, <1>2 DEF TurnOutcomes, Outcomes
<1> QED BY <1>3 DEF Outcomes

\* Counting mails keeps the counts counts.
LEMMA SentGrows ==
  ASSUME NEW counts \in [Ids -> Nat], NEW t, NEW n \in {0, 1}
  PROVE  [counts EXCEPT ![t] = @ + n] \in [Ids -> Nat]
<1>1. CASE t \in Ids
  <2>1. counts[t] + n \in Nat
    BY <1>1
  <2> QED BY <1>1, <2>1
<1>2. CASE t \notin Ids
  <2>1. [counts EXCEPT ![t] = @ + n] = counts
    BY <1>2
  <2> QED BY <2>1
<1> QED BY <1>1, <1>2

-----------------------------------------------------------------------------
(* The initial state, and the actions that route nothing                   *)

LEMMA InitHolds == Init => IInv
<1> SUFFICES ASSUME Init PROVE IInv
  OBVIOUS
<1> USE DEF Init
<1>1. EmptyStore \in StoreType /\ \A r \in Ids : EmptyStore.thread[r] = {} /\ EmptyStore.state[r] = "NONE"
  BY DEF EmptyStore, StoreType, States
<1>2. Mail = {}
  BY DEF Mail
<1>3. [r \in Ids |-> Unseen] \in [Ids -> ViewType]
  BY DEF Unseen, ViewType, States
<1>4. Typed
  <2>1. inbox \in Seq(MailType) /\ Len(inbox) <= MaxMail
    BY MailboxBounds
  <2>2. \E b \in Int : \A i \in Mail : b <= Date(i)
    BY <1>2
  <2>3. working.thread = [r \in Ids |-> {}] /\ working \in StoreType /\ durable \in StoreType
    BY <1>1 DEF EmptyStore
  <2>4. /\ desk \in [Ids -> ViewType]
        /\ sent \in [Ids -> Nat] /\ lost \in Nat /\ faults \in Nat /\ watermark \in Int
    BY <1>3
  <2> QED BY <2>1, <2>2, <2>3, <2>4 DEF Typed
<1>5. ThreadsAgree
  BY <1>1 DEF ThreadsAgree, EnquiryOnRecord
<1>6. DraftsAgree
  BY <1>1 DEF DraftsAgree, Unseen
<1>7. BatchIsUnseen /\ SeenIsAccounted
  BY <1>2 DEF BatchIsUnseen, SeenIsAccounted
<1> QED BY <1>4, <1>5, <1>6, <1>7 DEF IInv

\* Nothing but the mailbox, the poll or a hold changes.
LEMMA SameStores ==
  ASSUME IInv, UNCHANGED <<durable, working, desk, routed, dropped, batch>>, Mail \subseteq Mail'
  PROVE  ThreadsAgree' /\ DraftsAgree' /\ BatchIsUnseen' /\ (Mail' = Mail => SeenIsAccounted')
<1>1. ThreadsAgree' /\ DraftsAgree'
  BY DEF IInv, ThreadsAgree, DraftsAgree, EnquiryOnRecord
<1>2. Committed' = Committed
  BY DEF Committed
<1>3. \A i : SeenMessage(i)' <=> SeenMessage(i)
  BY DEF SeenMessage, AlreadyProcessed
<1>4. BatchIsUnseen'
  BY <1>3 DEF IInv, BatchIsUnseen
<1>5. Mail' = Mail => SeenIsAccounted'
  BY <1>2, <1>3 DEF IInv, SeenIsAccounted
<1> QED BY <1>1, <1>4, <1>5

LEMMA ArriveHolds ==
  ASSUME IInv, NEW kind \in Kinds, NEW drift \in Drifts, NEW headers \in Headers(Len(inbox)),
         Arrive(kind, drift, headers)
  PROVE  IInv'
<1> DEFINE m == [kind |-> kind, drift |-> drift, irt |-> headers.irt, refs |-> headers.refs]
<1>0. PICK n \in Int : n = Len(inbox) + 1
  BY DEF IInv, Typed
<1>1. inbox \in Seq(MailType) /\ Len(inbox) \in Nat /\ Len(inbox) < MaxMail /\ inbox' = Append(inbox, m)
  BY DEF IInv, Typed, Arrive
<1>2. m \in MailType
  BY <1>1 DEF Headers, MailType
<1> HIDE DEF m
<1>3. inbox' \in Seq(MailType) /\ Len(inbox') = n /\ Mail' = Mail \union {n}
      /\ Mail = 1 .. Len(inbox) /\ \A i \in Mail : inbox'[i] = inbox[i]
  BY <1>0, <1>1, <1>2 DEF Mail
<1>4. \E b \in Int : \A i \in Mail' : b <= Date(i)'
  <2>1. PICK b \in Int : \A i \in Mail : b <= Date(i)
    BY DEF IInv, Typed
  <2>2. \A i \in Mail : Date(i)' = Date(i) /\ Date(i) \in Int
    BY <1>3, DateOf DEF Date, IInv
  <2>3. Date(n)' \in Int
    <3>1. inbox'[n] \in MailType /\ n \in Int
      BY <1>1, <1>3
    <3>2. inbox'[n].drift \in Int
      BY <3>1, MailboxDrifts DEF MailType
    <3> QED BY <3>1, <3>2 DEF Date
  <2> DEFINE c == IF b <= Date(n)' THEN b ELSE Date(n)'
  <2>4. c \in Int /\ c <= b /\ c <= Date(n)'
    BY <2>3
  <2> HIDE DEF c
  <2>5. \A i \in Mail' : c <= Date(i)'
    BY <1>3, <2>1, <2>2, <2>3, <2>4
  <2> QED BY <2>4, <2>5
<1>5. Typed'
  BY <1>1, <1>3, <1>4, MailboxBounds DEF IInv, Typed, Arrive
<1>6. /\ UNCHANGED <<durable, working, desk, routed, dropped, batch>>
      /\ Mail \subseteq Mail' /\ n \notin Mail
  BY <1>0, <1>1, <1>3 DEF Arrive
<1>7. ThreadsAgree' /\ DraftsAgree' /\ BatchIsUnseen'
  BY <1>6, SameStores
<1>8. SeenIsAccounted'
  <2>1. \A i : SeenMessage(i)' <=> SeenMessage(i)
    BY <1>6 DEF SeenMessage, AlreadyProcessed
  <2>2. ~SeenMessage(n)
    BY <1>6 DEF IInv, Typed, SeenMessage, AlreadyProcessed
  <2>3. Committed' = Committed
    BY <1>6 DEF Committed
  <2> QED BY <1>3, <1>6, <2>1, <2>2, <2>3 DEF IInv, SeenIsAccounted
<1> QED BY <1>5, <1>7, <1>8 DEF IInv

LEMMA StartPollHolds ==
  ASSUME IInv, StartPoll PROVE IInv'
<1>1. FetchSince \subseteq Mail /\ \A i \in FetchSince : ~SeenMessage(i)
  BY DEF FetchSince, Ingested, ListIds, Window
<1>2. Mail' = Mail
  BY DEF StartPoll, Mail
<1>3. Typed'
  BY <1>1, <1>2 DEF StartPoll, IInv, Typed, Date
<1>4. ThreadsAgree' /\ DraftsAgree'
  BY DEF StartPoll, IInv, ThreadsAgree, DraftsAgree, EnquiryOnRecord
<1>5. \A i : SeenMessage(i)' <=> SeenMessage(i)
  BY DEF StartPoll, SeenMessage, AlreadyProcessed
<1>6. Committed' = Committed
  BY DEF StartPoll, Committed
<1>7. BatchIsUnseen' /\ SeenIsAccounted'
  BY <1>1, <1>2, <1>5, <1>6 DEF StartPoll, IInv, BatchIsUnseen, SeenIsAccounted
<1> QED BY <1>3, <1>4, <1>7 DEF IInv

LEMMA HoldLapsesHolds ==
  ASSUME IInv, NEW i \in Mail, HoldLapses(i) PROVE IInv'
<1>1. Mail' = Mail
  BY DEF HoldLapses, Mail
<1>2. Typed'
  BY <1>1 DEF HoldLapses, IInv, Typed, Date
<1> QED BY <1>1, <1>2, SameStores DEF HoldLapses, IInv

-----------------------------------------------------------------------------
(* A message that a poll routes                                            *)

\* It is on no thread yet, and the request it is placed on holds no draft.
LEMMA RoutedIsNew ==
  ASSUME IInv, NEW i \in Mail, Routing(i)
  PROVE  /\ i \in batch /\ i \notin routed /\ i \notin Committed
         /\ \A r \in Ids : i \notin working.thread[r] /\ i \notin durable.thread[r]
<1>1. i \in batch /\ ~SeenMessage(i)
  BY DEF Routing, IsNext, IInv, BatchIsUnseen
<1>2. \A r \in Ids : i \notin working.thread[r]
  BY <1>1 DEF SeenMessage, AlreadyProcessed
<1>3. \A r \in Ids : i \notin durable.thread[r]
  BY <1>2 DEF IInv, ThreadsAgree
<1> QED BY <1>1, <1>2, <1>3, OnRecord DEF SeenMessage

LEMMA PlacedHoldsNoDraft ==
  ASSUME IInv, NEW i \in Mail, Reaches(i), ~IsAmbiguous(i)
  PROVE  /\ working.state[RequestOf(i)] # "NEEDS_INFO"
         /\ desk[RequestOf(i)].state # "NEEDS_INFO"
<1> DEFINE r == RequestOf(i)
<1>1. r \in Ids /\ (IsNew(i) => r = i)
  BY PlaceOf DEF IInv
<1>2. working.state[r] # "NEEDS_INFO"
  <2>1. CASE IsNew(i)
    <3>1. i \notin working.thread[r]
      BY <1>1, RoutedIsNew DEF Reaches
    <3>2. working.state[r] # "NONE" => r \in working.thread[r]
      BY <1>1 DEF IInv, ThreadsAgree, EnquiryOnRecord
    <3> QED BY <1>1, <2>1, <3>1, <3>2
  <2>2. CASE ~IsNew(i)
    BY <2>2 DEF Reaches, IsBlocked
  <2> QED BY <2>1, <2>2
<1>3. desk[r].state = "NEEDS_INFO" => working.state[r] = "NEEDS_INFO"
  BY <1>1 DEF IInv, DraftsAgree
<1> QED BY <1>2, <1>3

\* It is recorded on the thread of its request, which may be committed then.
LEMMA RecordKeepsThreads ==
  ASSUME IInv, NEW i \in Mail, Routing(i), NEW r \in Ids, r = RequestOf(i),
         working'.thread = [working.thread EXCEPT ![r] = @ \union {i}],
         \A q \in Ids : q # r => working'.state[q] = working.state[q],
         \/ durable'.thread = durable.thread
         \/ durable'.thread = [durable.thread EXCEPT ![r] = working'.thread[r]]
  PROVE  /\ ThreadsAgree' /\ Committed \subseteq Committed'
         /\ \A q \in Ids : working.thread[q] \subseteq working'.thread[q]
<1>1. working.thread \in [Ids -> SUBSET Ids] /\ durable.thread \in [Ids -> SUBSET Ids]
  BY DEF IInv, Typed, StoreType
<1>2. r \in working'.thread[r]
  <2>1. IsNew(i) => r = i
    BY PlaceOf DEF IInv
  <2>2. ~IsNew(i) => working.thread[r] # {}
    BY PlaceOf DEF IInv
  <2>3. working.thread[r] # {} => r \in working.thread[r]
    BY DEF IInv, ThreadsAgree, EnquiryOnRecord
  <2> QED BY <1>1, <2>1, <2>2, <2>3
<1>3. \A q \in Ids : /\ working.thread[q] \subseteq working'.thread[q]
                     /\ q # r => working'.thread[q] = working.thread[q]
                     /\ q = r => working'.thread[q] = working.thread[q] \union {i}
  BY <1>1
<1>4. \A q \in Ids : /\ q # r => durable'.thread[q] = durable.thread[q]
                     /\ durable'.thread[r] \in {durable.thread[r], working'.thread[r]}
  BY <1>1
<1>5. \A q \in Ids : durable.thread[q] \subseteq durable'.thread[q]
  BY <1>3, <1>4 DEF IInv, ThreadsAgree
<1>6. \A q \in Ids : durable'.thread[q] \subseteq working'.thread[q]
  BY <1>3, <1>4 DEF IInv, ThreadsAgree
<1>7. \A p, q \in Ids : p # q => working'.thread[p] \cap working'.thread[q] = {}
  BY <1>3, RoutedIsNew DEF IInv, ThreadsAgree
<1>8. \A q \in Ids : durable'.thread[q] # {} => q \in durable'.thread[q]
  BY <1>2, <1>4 DEF IInv, ThreadsAgree
<1>9. EnquiryOnRecord'
  BY <1>2, <1>3 DEF IInv, ThreadsAgree, EnquiryOnRecord
<1> QED BY <1>3, <1>5, <1>6, <1>7, <1>8, <1>9, OnRecord, OnRecordNext DEF ThreadsAgree

LEMMA RecordKeepsSeen ==
  ASSUME IInv, NEW i \in Mail, Routing(i), NEW r \in Ids, Mail' = Mail,
         working'.thread = [working.thread EXCEPT ![r] = @ \union {i}],
         routed' = routed \/ routed' = routed \union {i},
         Committed \subseteq Committed', dropped \subseteq dropped',
         \A q \in Ids : desk[q].state = "NEEDS_INFO" => desk'[q] = desk[q],
         \/ i \in Committed' \union dropped'
         \/ \E q \in Ids : desk'[q].state = "NEEDS_INFO" /\ desk'[q].enquiry = i
  PROVE  SeenIsAccounted' /\ (batch' \subseteq batch \ {i} => BatchIsUnseen')
<1>1. working.thread \in [Ids -> SUBSET Ids]
  BY DEF IInv, Typed, StoreType
<1>2. \A j : SeenMessage(j)' => SeenMessage(j) \/ j = i
  BY <1>1 DEF SeenMessage, AlreadyProcessed
<1>3. SeenIsAccounted'
  BY <1>2 DEF IInv, SeenIsAccounted
<1>4. batch' \subseteq batch \ {i} => BatchIsUnseen'
  BY <1>2 DEF IInv, BatchIsUnseen
<1> QED BY <1>3, <1>4

\* What is deferred, held or refused is recorded on no thread.
LEMMA DeferHolds ==
  ASSUME IInv, NEW i \in Mail, Defer(i) PROVE IInv'
<1>1. Mail' = Mail /\ batch' \subseteq batch
  BY DEF Defer, Routing, Keeps, Mail
<1>2. Typed'
  BY <1>1 DEF Defer, Keeps, IInv, Typed, Date
<1>3. ThreadsAgree' /\ DraftsAgree'
  BY DEF Defer, Keeps, IInv, ThreadsAgree, DraftsAgree, EnquiryOnRecord
<1>4. (\A j : SeenMessage(j)' <=> SeenMessage(j)) /\ Committed' = Committed
  BY DEF Defer, SeenMessage, AlreadyProcessed, Committed
<1>5. BatchIsUnseen' /\ SeenIsAccounted'
  BY <1>1, <1>4 DEF Defer, IInv, BatchIsUnseen, SeenIsAccounted
<1> QED BY <1>2, <1>3, <1>5 DEF IInv

LEMMA HoldAfterFailureHolds ==
  ASSUME IInv, NEW i \in Mail, NEW mails \in {0, 1}, HoldAfterFailure(i, mails) PROVE IInv'
<1>1. Mail' = Mail /\ batch' \subseteq batch
  BY DEF HoldAfterFailure, IsTurn, Reaches, Routing, Keeps, Mail
<1>2. Typed'
  <2>1. sent' \in [Ids -> Nat] /\ lost' \in Nat /\ faults' \in Nat
    <3>1. sent \in [Ids -> Nat] /\ lost \in Nat /\ faults \in Nat
      BY DEF IInv, Typed
    <3>2. sent' = [sent EXCEPT ![i] = @ + mails] /\ lost' = lost + mails /\ faults' = faults + 1
      BY DEF HoldAfterFailure
    <3> QED BY <3>1, <3>2, SentGrows
  <2> QED BY <1>1, <2>1 DEF HoldAfterFailure, Keeps, IInv, Typed, Date
<1>3. ThreadsAgree' /\ DraftsAgree'
  BY DEF HoldAfterFailure, Keeps, IInv, ThreadsAgree, DraftsAgree, EnquiryOnRecord
<1>4. (\A j : SeenMessage(j)' <=> SeenMessage(j)) /\ Committed' = Committed
  BY DEF HoldAfterFailure, SeenMessage, AlreadyProcessed, Committed
<1>5. BatchIsUnseen' /\ SeenIsAccounted'
  BY <1>1, <1>4 DEF HoldAfterFailure, IInv, BatchIsUnseen, SeenIsAccounted
<1> QED BY <1>2, <1>3, <1>5 DEF IInv

LEMMA RefuseAmbiguousHolds ==
  ASSUME IInv, NEW i \in Mail, RefuseAmbiguous(i) PROVE IInv'
<1>1. Mail' = Mail /\ batch' = batch \ {i}
  BY DEF RefuseAmbiguous, Reaches, Routing, Keeps, Mail
<1>2. Typed'
  BY <1>1 DEF RefuseAmbiguous, Keeps, IInv, Typed, Date
<1>3. ThreadsAgree' /\ DraftsAgree'
  BY DEF RefuseAmbiguous, Keeps, IInv, ThreadsAgree, DraftsAgree, EnquiryOnRecord
<1>4. (\A j : SeenMessage(j)' <=> SeenMessage(j) \/ j = i) /\ Committed' = Committed
  BY DEF RefuseAmbiguous, SeenMessage, AlreadyProcessed, Committed
<1>5. BatchIsUnseen' /\ SeenIsAccounted'
  BY <1>1, <1>4 DEF RefuseAmbiguous, IInv, BatchIsUnseen, SeenIsAccounted
<1> QED BY <1>2, <1>3, <1>5 DEF IInv

\* Seen only: the request and its view stay, and the thread may be committed.
LEMMA SeenKeeps ==
  ASSUME IInv, NEW i \in Mail, IsSeenOnly(i), NEW r \in Ids, r = RequestOf(i), desk' = desk,
         working' = Record(working, r, i),
         durable' \in Refused(working', r) \union {CommitThread(working', r)}
  PROVE  /\ working' \in StoreType /\ durable' \in StoreType
         /\ working'.thread = [working.thread EXCEPT ![r] = @ \union {i}]
         /\ \A q \in Ids : working'.thread[q] \subseteq Mail
         /\ ThreadsAgree' /\ DraftsAgree' /\ Committed \subseteq Committed'
<1>1. Routing(i) /\ i \in Ids
  BY DateOf DEF IsSeenOnly, Reaches, IInv
<1>2. /\ working' \in StoreType /\ working'.state = working.state
      /\ working'.thread = [working.thread EXCEPT ![r] = @ \union {i}]
  BY <1>1, RecordOf DEF IInv, Typed
<1>3. working.thread \in [Ids -> SUBSET Ids] /\ durable.thread \in [Ids -> SUBSET Ids]
  BY DEF IInv, Typed, StoreType
<1>4. /\ durable' \in StoreType
      /\ \A q \in Ids : durable'.state[q] # "NEEDS_INFO"
      /\ \/ durable'.thread = durable.thread
         \/ durable'.thread = [durable.thread EXCEPT ![r] = working'.thread[r]]
  <2>1. working.state[r] # "NEEDS_INFO"
    BY PlacedHoldsNoDraft DEF IsSeenOnly
  <2>2. PICK w \in StoreType : w = working' /\ w.state[r] # "NEEDS_INFO"
    BY <1>2, <2>1
  <2> QED BY <2>2, WrittenOf
<1>5. ThreadsAgree' /\ Committed \subseteq Committed'
      /\ \A p \in Ids : working.thread[p] \subseteq working'.thread[p]
  BY <1>1, <1>2, <1>4, RecordKeepsThreads
<1>6. \A q \in Ids : working'.thread[q] \subseteq Mail
  BY <1>2, <1>3 DEF IInv, Typed
<1>7. DraftsAgree'
  BY <1>2, <1>4, <1>5 DEF IInv, DraftsAgree
<1> QED BY <1>2, <1>4, <1>5, <1>6, <1>7

LEMMA RecordAsSeenHolds ==
  ASSUME IInv, NEW i \in Mail, RecordAsSeen(i) PROVE IInv' /\ Committed \subseteq Committed'
<1>0. PICK r \in Ids : r = RequestOf(i)
  BY PlaceOf DEF IInv
<1>1. Routing(i) /\ Mail' = Mail /\ batch' = batch \ {i}
  BY DEF RecordAsSeen, IsSeenOnly, Reaches, Routing, Keeps, Mail
<1>2. /\ IsSeenOnly(i) /\ desk' = desk /\ working' = Record(working, r, i)
      /\ durable' \in {CommitThread(working', r), CommitRequest(working', r)}
      /\ routed' = routed \union {i} /\ dropped' = dropped
  BY <1>0 DEF RecordAsSeen
<1>3. /\ working' \in StoreType /\ durable' \in StoreType
      /\ working'.thread = [working.thread EXCEPT ![r] = @ \union {i}]
      /\ \A q \in Ids : working'.thread[q] \subseteq Mail
      /\ ThreadsAgree' /\ DraftsAgree' /\ Committed \subseteq Committed'
  BY <1>0, <1>2, SeenKeeps DEF Refused
<1>4. Typed'
  BY <1>1, <1>2, <1>3 DEF RecordAsSeen, Keeps, IInv, Typed, Date
<1>5. i \in Committed'
  <2>1. PICK w \in StoreType : w = working'
    BY <1>3
  <2>2. durable'.thread = [durable.thread EXCEPT ![r] = w.thread[r]]
    <3>1. durable' = CommitThread(w, r) \/ durable' = CommitRequest(w, r)
      BY <1>2, <2>1
    <3>2. /\ CommitThread(w, r).thread = [durable.thread EXCEPT ![r] = w.thread[r]]
          /\ CommitRequest(w, r).thread = [durable.thread EXCEPT ![r] = w.thread[r]]
      BY CommitOf DEF IInv
    <3> QED BY <3>1, <3>2
  <2>3. i \in working'.thread[r]
    BY <1>3 DEF IInv, Typed, StoreType
  <2>4. i \in durable'.thread[r]
    BY <2>1, <2>2, <2>3 DEF IInv, Typed, StoreType
  <2> QED BY <2>4, OnRecordNext
<1>6. BatchIsUnseen' /\ SeenIsAccounted'
  BY <1>1, <1>2, <1>3, <1>5, RecordKeepsSeen
<1> QED BY <1>3, <1>4, <1>6 DEF IInv

LEMMA SeenNotRecordedHolds ==
  ASSUME IInv, NEW i \in Mail, SeenNotRecorded(i) PROVE IInv' /\ Committed \subseteq Committed'
<1>0. PICK r \in Ids : r = RequestOf(i)
  BY PlaceOf DEF IInv
<1>1. Routing(i) /\ Mail' = Mail /\ batch' = {}
  BY DEF SeenNotRecorded, EndsPoll, IsSeenOnly, Reaches, Mail
<1>2. /\ IsSeenOnly(i) /\ desk' = desk /\ working' = Record(working, r, i)
      /\ durable' \in {durable, CommitThread(working', r)}
      /\ routed' = routed /\ dropped' = dropped \union {i}
  BY <1>0 DEF SeenNotRecorded, EndsPoll
<1>3. /\ working' \in StoreType /\ durable' \in StoreType
      /\ working'.thread = [working.thread EXCEPT ![r] = @ \union {i}]
      /\ \A q \in Ids : working'.thread[q] \subseteq Mail
      /\ ThreadsAgree' /\ DraftsAgree' /\ Committed \subseteq Committed'
  BY <1>0, <1>2, SeenKeeps DEF Refused
<1>4. Typed'
  <2>1. faults' \in Nat
    BY DEF SeenNotRecorded, EndsPoll, IInv, Typed
  <2> QED BY <1>1, <1>2, <1>3, <2>1 DEF SeenNotRecorded, EndsPoll, IInv, Typed, Date
<1>5. BatchIsUnseen' /\ SeenIsAccounted'
  BY <1>1, <1>2, <1>3, RecordKeepsSeen
<1> QED BY <1>3, <1>4, <1>5 DEF IInv

\* A turn leaves the stores, the view and the drafts as they should be.
LEMMA TurnKeeps ==
  ASSUME IInv, NEW i \in Mail, Reaches(i), ~IsAmbiguous(i), NEW s \in States,
         NEW r \in Ids, r = RequestOf(i),
         working' = AfterTurn(i, s), desk' = Shown(i, s),
         durable' \in StoreType, \A q \in Ids : durable'.state[q] # "NEEDS_INFO",
         \/ durable'.thread = durable.thread
         \/ durable'.thread = [durable.thread EXCEPT ![r] = working'.thread[r]]
  PROVE  /\ working' \in StoreType /\ desk' \in [Ids -> ViewType]
         /\ working'.thread = [working.thread EXCEPT ![r] = @ \union {i}]
         /\ \A q \in Ids : working'.thread[q] \subseteq Mail
         /\ ThreadsAgree' /\ DraftsAgree' /\ Committed \subseteq Committed'
         /\ \A q \in Ids : desk[q].state = "NEEDS_INFO" => desk'[q] = desk[q]
<1>1. Routing(i) /\ i \in Ids /\ Typed
  BY DateOf DEF Reaches, IInv
<1>2. working.thread \in [Ids -> SUBSET Ids] /\ durable.thread \in [Ids -> SUBSET Ids]
      /\ durable.state \in [Ids -> States] /\ working.state \in [Ids -> States]
  BY <1>1 DEF Typed, StoreType
<1>3. /\ working' \in StoreType
      /\ working'.state = [working.state EXCEPT ![r] = s]
      /\ working'.thread = [working.thread EXCEPT ![r] = @ \union {i}]
  BY <1>1, TurnOf
<1>5. /\ desk' \in [Ids -> ViewType]
      /\ desk'[r].state = s /\ desk'[r].turn = i
      /\ desk'[r].enquiry \in {i, desk[r].enquiry}
      /\ \A q \in Ids : q # r => desk'[q] = desk[q]
  BY <1>1, ShownOf
<1>6. ThreadsAgree' /\ Committed \subseteq Committed'
      /\ \A q \in Ids : working.thread[q] \subseteq working'.thread[q]
  BY <1>1, <1>2, <1>3, RecordKeepsThreads
<1>7. DraftsAgree'
  <2>1. ASSUME NEW q \in Ids, q # r
        PROVE  /\ desk'[q].enquiry # 0 => desk'[q].enquiry \in working'.thread[q]
               /\ desk'[q].state = "NEEDS_INFO" =>
                    /\ working'.state[q] = "NEEDS_INFO"
                    /\ desk'[q].turn # 0 => desk'[q].turn \in working'.thread[q]
    <3>1. /\ working'.state[q] = working.state[q] /\ working'.thread[q] = working.thread[q]
          /\ desk'[q] = desk[q]
      BY <1>2, <1>3, <1>5, <2>1
    <3> QED BY <3>1 DEF IInv, DraftsAgree
  <2>2. i \in working'.thread[r] /\ working'.state[r] = s
    BY <1>2, <1>3
  <2>3. desk'[r].enquiry # 0 => desk'[r].enquiry \in working'.thread[r]
    <3>1. desk[r].enquiry # 0 => desk[r].enquiry \in working.thread[r]
      BY DEF IInv, DraftsAgree
    <3>2. working.thread[r] \subseteq working'.thread[r]
      BY <1>6
    <3> QED BY <1>5, <2>2, <3>1, <3>2
  <2> QED BY <1>5, <2>1, <2>2, <2>3 DEF DraftsAgree
<1>8. \A q \in Ids : working'.thread[q] \subseteq Mail
  BY <1>1, <1>2, <1>3 DEF Typed
<1>9. \A q \in Ids : desk[q].state = "NEEDS_INFO" => desk'[q] = desk[q]
  BY <1>5, PlacedHoldsNoDraft
<1> QED BY <1>3, <1>5, <1>6, <1>7, <1>8, <1>9

LEMMA RouteToDraftHolds ==
  ASSUME IInv, NEW i \in Mail, RouteToDraft(i) PROVE IInv' /\ Committed \subseteq Committed'
<1>0. PICK r \in Ids : r = RequestOf(i)
  BY PlaceOf DEF IInv
<1>1. Reaches(i) /\ ~IsAmbiguous(i) /\ Routing(i) /\ Mail' = Mail /\ batch' = batch \ {i}
  BY DEF RouteToDraft, IsTurn, Reaches, Routing, Keeps, Mail
<1>2. /\ "NEEDS_INFO" \in States
      /\ working' = AfterTurn(i, "NEEDS_INFO") /\ desk' = Shown(i, "NEEDS_INFO")
      /\ durable' = durable \/ durable' = CommitThread(working', r)
  BY <1>0 DEF RouteToDraft, States
<1>3. /\ durable' \in StoreType /\ durable'.state = durable.state
      /\ \/ durable'.thread = durable.thread
         \/ durable'.thread = [durable.thread EXCEPT ![r] = working'.thread[r]]
  <2>1. PICK w \in StoreType : w = working'
    BY <1>2, TurnOf DEF IInv
  <2>2. /\ CommitThread(w, r) \in StoreType
        /\ CommitThread(w, r).state = durable.state
        /\ CommitThread(w, r).thread = [durable.thread EXCEPT ![r] = w.thread[r]]
    BY CommitOf DEF IInv
  <2> QED BY <1>2, <2>1, <2>2 DEF IInv, Typed
<1>4. /\ working' \in StoreType /\ desk' \in [Ids -> ViewType]
      /\ working'.thread = [working.thread EXCEPT ![r] = @ \union {i}]
      /\ \A q \in Ids : working'.thread[q] \subseteq Mail
      /\ ThreadsAgree' /\ DraftsAgree' /\ Committed \subseteq Committed'
      /\ \A q \in Ids : desk[q].state = "NEEDS_INFO" => desk'[q] = desk[q]
  <2>1. \A q \in Ids : durable'.state[q] # "NEEDS_INFO"
    BY <1>3 DEF IInv, DraftsAgree
  <2> QED BY <1>0, <1>1, <1>2, <1>3, <2>1, TurnKeeps
<1>5. dropped' = (IF desk'[r].enquiry = i THEN dropped ELSE dropped \union {i})
      /\ routed' = routed \union {i}
  BY <1>0 DEF RouteToDraft
<1>6. Typed'
  BY <1>1, <1>3, <1>4, <1>5 DEF RouteToDraft, Keeps, IInv, Typed, Date
<1>7. BatchIsUnseen' /\ SeenIsAccounted'
  <2>1. desk'[r].state = "NEEDS_INFO"
    BY <1>0, <1>2, ShownOf DEF IInv
  <2>2. i \in Committed' \union dropped'
        \/ \E q \in Ids : desk'[q].state = "NEEDS_INFO" /\ desk'[q].enquiry = i
    BY <1>5, <2>1
  <2> QED BY <1>1, <1>4, <1>5, <2>2, RecordKeepsSeen
<1> QED BY <1>4, <1>6, <1>7 DEF IInv

\* A turn that ends without a draft, whatever of it is written.
LEMMA AdvancedKeeps ==
  ASSUME IInv, NEW i \in Mail, NEW o \in Outcomes, Advanced(i, o), NEW r \in Ids, r = RequestOf(i),
         durable' \in Refused(working', r)
  PROVE  /\ Reaches(i) /\ Routing(i) /\ i \in Ids
         /\ working' \in StoreType /\ durable' \in StoreType /\ desk' \in [Ids -> ViewType]
         /\ sent' \in [Ids -> Nat] /\ o.state # "NEEDS_INFO" /\ desk'[r].state = o.state
         /\ working'.thread = [working.thread EXCEPT ![r] = @ \union {i}]
         /\ \A q \in Ids : working'.thread[q] \subseteq Mail
         /\ ThreadsAgree' /\ DraftsAgree' /\ Committed \subseteq Committed'
         /\ \A q \in Ids : desk[q].state = "NEEDS_INFO" => desk'[q] = desk[q]
<1>1. Reaches(i) /\ ~IsAmbiguous(i) /\ Routing(i) /\ i \in Ids
  BY DateOf DEF Advanced, IsTurn, Reaches, IInv
<1>2. PICK s \in States : s = o.state
  BY DEF Outcomes
<1>3. s # "NEEDS_INFO" /\ working' = AfterTurn(i, s) /\ desk' = Shown(i, s)
  BY <1>2 DEF Advanced
<1>4. /\ durable' \in StoreType
      /\ \A q \in Ids : durable'.state[q] # "NEEDS_INFO"
      /\ \/ durable'.thread = durable.thread
         \/ durable'.thread = [durable.thread EXCEPT ![r] = working'.thread[r]]
  <2>1. /\ working' \in StoreType
        /\ working'.state = [working.state EXCEPT ![r] = s]
    BY <1>3, TurnOf DEF IInv
  <2>2. working.state \in [Ids -> States]
    BY DEF IInv, Typed, StoreType
  <2>3. PICK w \in StoreType : w = working' /\ w.state[r] # "NEEDS_INFO"
    BY <1>3, <2>1, <2>2
  <2> QED BY <2>3, WrittenOf
<1>5. /\ working' \in StoreType /\ desk' \in [Ids -> ViewType]
      /\ working'.thread = [working.thread EXCEPT ![r] = @ \union {i}]
      /\ \A q \in Ids : working'.thread[q] \subseteq Mail
      /\ ThreadsAgree' /\ DraftsAgree' /\ Committed \subseteq Committed'
      /\ \A q \in Ids : desk[q].state = "NEEDS_INFO" => desk'[q] = desk[q]
  BY <1>1, <1>3, <1>4, TurnKeeps
<1>6. sent' \in [Ids -> Nat]
  <2>1. sent \in [Ids -> Nat] /\ o.mails \in {0, 1}
    BY DEF IInv, Typed, Outcomes
  <2>2. sent' = [sent EXCEPT ![i] = @ + o.mails]
    BY DEF Advanced
  <2> QED BY <2>1, <2>2, SentGrows
<1>7. desk'[r].state = o.state
  BY <1>2, <1>3, ShownOf DEF IInv
<1> QED BY <1>1, <1>2, <1>3, <1>4, <1>5, <1>6, <1>7

LEMMA RouteAndCommitHolds ==
  ASSUME IInv, NEW i \in Mail, NEW o \in Outcomes, RouteAndCommit(i, o)
  PROVE  IInv' /\ Committed \subseteq Committed' /\ i \in Committed'
<1>0. PICK r \in Ids : r = RequestOf(i)
  BY PlaceOf DEF IInv
<1>1. /\ Advanced(i, o) /\ durable' = CommitRequest(working', r)
      /\ dropped' = dropped /\ routed' = routed \union {i}
  BY <1>0 DEF RouteAndCommit
<1>2. /\ Reaches(i) /\ Routing(i) /\ i \in Ids
      /\ working' \in StoreType /\ durable' \in StoreType /\ desk' \in [Ids -> ViewType]
      /\ sent' \in [Ids -> Nat]
      /\ working'.thread = [working.thread EXCEPT ![r] = @ \union {i}]
      /\ \A q \in Ids : working'.thread[q] \subseteq Mail
      /\ ThreadsAgree' /\ DraftsAgree' /\ Committed \subseteq Committed'
      /\ \A q \in Ids : desk[q].state = "NEEDS_INFO" => desk'[q] = desk[q]
  BY <1>0, <1>1, AdvancedKeeps DEF Refused
<1>3. Mail' = Mail /\ batch' = batch \ {i}
  BY <1>2 DEF RouteAndCommit, Routing, Keeps, Mail
<1>4. Typed'
  BY <1>1, <1>2, <1>3 DEF RouteAndCommit, Keeps, IInv, Typed, Date
<1>5. i \in Committed'
  <2>1. PICK w \in StoreType : w = working'
    BY <1>2
  <2>2. durable'.thread = [durable.thread EXCEPT ![r] = w.thread[r]]
    BY <1>1, <2>1, CommitOf DEF IInv
  <2>3. i \in working'.thread[r]
    BY <1>2 DEF IInv, Typed, StoreType
  <2>4. i \in durable'.thread[r]
    BY <2>1, <2>2, <2>3 DEF IInv, Typed, StoreType
  <2> QED BY <2>4, OnRecordNext
<1>6. BatchIsUnseen' /\ SeenIsAccounted'
  BY <1>1, <1>2, <1>3, <1>5, RecordKeepsSeen
<1> QED BY <1>2, <1>4, <1>5, <1>6 DEF IInv

LEMMA CommitRefusedHolds ==
  ASSUME IInv, NEW i \in Mail, NEW o \in Outcomes, CommitRefused(i, o)
  PROVE  IInv' /\ Committed \subseteq Committed'
<1>0. PICK r \in Ids : r = RequestOf(i)
  BY PlaceOf DEF IInv
<1>1. /\ Advanced(i, o) /\ durable' \in Refused(working', r)
      /\ dropped' = dropped \union {i} /\ routed' = routed /\ batch' = {} /\ Mail' = Mail
  BY <1>0 DEF CommitRefused, EndsPoll, Mail
<1>2. /\ Reaches(i) /\ Routing(i) /\ i \in Ids
      /\ working' \in StoreType /\ durable' \in StoreType /\ desk' \in [Ids -> ViewType]
      /\ sent' \in [Ids -> Nat]
      /\ working'.thread = [working.thread EXCEPT ![r] = @ \union {i}]
      /\ \A q \in Ids : working'.thread[q] \subseteq Mail
      /\ ThreadsAgree' /\ DraftsAgree' /\ Committed \subseteq Committed'
      /\ \A q \in Ids : desk[q].state = "NEEDS_INFO" => desk'[q] = desk[q]
  BY <1>0, <1>1, AdvancedKeeps
<1>3. Typed'
  <2>1. lost' \in Nat /\ faults' \in Nat
    <3>1. lost \in Nat /\ faults \in Nat /\ o.mails \in {0, 1}
      BY DEF IInv, Typed, Outcomes
    <3>2. lost' = lost + o.mails /\ faults' = faults + 1
      BY DEF CommitRefused, EndsPoll
    <3> QED BY <3>1, <3>2
  <2> QED BY <1>1, <1>2, <2>1 DEF CommitRefused, EndsPoll, IInv, Typed, Date
<1>4. BatchIsUnseen' /\ SeenIsAccounted'
  BY <1>1, <1>2, RecordKeepsSeen
<1> QED BY <1>2, <1>3, <1>4 DEF IInv

-----------------------------------------------------------------------------
(* The end of a poll                                                       *)

\* The new cutoff is the old one or the date of a message, and passes nothing
\* that is waiting.
LEMMA WatermarkIsADate ==
  ASSUME Typed, NEW committed, NEW draft,
         \A r \in Ids : draft[r].enquiry \in Mail \union {0}
  PROVE  LET w == AdvancedWatermark(committed, draft)
         IN  /\ w \in Int
             /\ w = watermark \/ \E i \in Mail : w = Date(i)
             /\ scope = {} => w = watermark
             /\ scope # {} => \A d \in Uncommitted(committed, draft) : w <= d
<1> DEFINE w == AdvancedWatermark(committed, draft)
           waiting == Uncommitted(committed, draft)
           dates == {Date(i) : i \in scope} \union {watermark}
<1>1. watermark \in Int /\ scope \subseteq Mail
  BY DEF Typed
<1>2. PICK b \in Int : \A i \in Mail : b <= Date(i)
  BY DEF Typed
<1>3. MaxMail + Overlap \in Int /\ \A i \in Mail : Date(i) \in Int /\ Date(i) <= MaxMail + Overlap
  <2>1. MaxMail \in Int /\ Overlap \in Int
    BY MailboxBounds
  <2>2. ASSUME NEW i \in Mail PROVE Date(i) \in Int /\ Date(i) <= MaxMail + Overlap
    BY <2>1, DateOf DEF Ids
  <2> QED BY <2>1, <2>2
<1>4. \A x \in waiting : \E i \in Mail : x = Date(i)
  BY <1>1 DEF Uncommitted
<1>5. CASE scope # {} /\ waiting # {}
  <2>1. waiting \in SUBSET Int /\ \A x \in waiting : b <= x
    BY <1>2, <1>3, <1>4
  <2>2. \E d \in waiting : \A e \in waiting : d <= e
    <3> HIDE DEF waiting
    <3> QED BY <1>5, <2>1, LeastInteger
  <2>3. w = CHOOSE d \in waiting : \A e \in waiting : d <= e
    BY <1>5 DEF AdvancedWatermark
  <2>4. w \in waiting /\ \A e \in waiting : w <= e
    <3> HIDE DEF waiting, w
    <3> QED BY <2>2, <2>3
  <2> QED BY <1>4, <1>5, <2>1, <2>4
<1>6. CASE scope # {} /\ waiting = {}
  <2> DEFINE top == IF watermark <= MaxMail + Overlap THEN MaxMail + Overlap ELSE watermark
  <2>1. top \in Int /\ dates \in SUBSET Int /\ dates # {} /\ \A x \in dates : x <= top
    BY <1>1, <1>3
  <2>2. \E d \in dates : \A e \in dates : e <= d
    <3> HIDE DEF dates, top
    <3> QED BY <2>1, GreatestInteger
  <2>3. w = CHOOSE d \in dates : \A e \in dates : e <= d
    BY <1>6 DEF AdvancedWatermark
  <2>4. w \in dates
    <3> HIDE DEF dates, w
    <3> QED BY <2>2, <2>3
  <2> QED BY <1>1, <1>6, <2>1, <2>4
<1>7. CASE scope = {}
  BY <1>1, <1>7 DEF AdvancedWatermark
<1> QED BY <1>5, <1>6, <1>7

\* What the deadlines and the rate search leave of a request.
LEMMA FinishedOf ==
  ASSUME IInv, NEW overdue \in SUBSET Overdue, NEW shown \in SUBSET overdue,
         NEW recorded \in SUBSET shown, NEW unsearchable \in SUBSET Searchable,
         NEW raised \in BOOLEAN, FinishPoll(overdue, recorded, shown, unsearchable, raised)
  PROVE  /\ working' \in StoreType /\ durable' \in StoreType /\ desk' \in [Ids -> ViewType]
         /\ working'.thread = working.thread
         /\ \A r \in Ids :
              /\ working'.state[r] = IF r \in unsearchable THEN "NEEDS_INFO"
                                     ELSE IF r \in overdue THEN "MANUAL_REVIEW" ELSE working.state[r]
              /\ durable'.state[r] = IF r \in recorded THEN "MANUAL_REVIEW" ELSE durable.state[r]
              /\ durable'.thread[r] = IF r \in recorded THEN working.thread[r] ELSE durable.thread[r]
              /\ desk'[r].enquiry = desk[r].enquiry
              /\ desk'[r].state = "NEEDS_INFO" =>
                   \/ r \in unsearchable /\ desk'[r].turn = 0
                   \/ r \notin shown /\ desk'[r] = desk[r]
              /\ desk[r].state = "NEEDS_INFO" => desk'[r] = desk[r]
<1>1. working \in StoreType /\ durable \in StoreType /\ desk \in [Ids -> ViewType]
  BY DEF IInv, Typed
<1>2. ASSUME NEW r \in Ids
      PROVE  /\ r \in overdue => working.state[r] = "WAITING"
             /\ r \in unsearchable => working.state[r] = "VALIDATED"
             /\ desk[r].state = "NEEDS_INFO" => working.state[r] = "NEEDS_INFO"
  BY DEF Overdue, Searchable, IInv, DraftsAgree
<1>3. /\ working' \in StoreType /\ working'.thread = working.thread
      /\ \A r \in Ids :
           working'.state[r] = IF r \in unsearchable THEN "NEEDS_INFO"
                               ELSE IF r \in overdue THEN "MANUAL_REVIEW" ELSE working.state[r]
  BY <1>1 DEF FinishPoll, AskedAgain, Escalated, StoreType, States
<1>4. /\ durable' \in StoreType
      /\ \A r \in Ids :
           /\ durable'.state[r] = IF r \in recorded THEN "MANUAL_REVIEW" ELSE durable.state[r]
           /\ durable'.thread[r] = IF r \in recorded THEN working.thread[r] ELSE durable.thread[r]
  BY <1>1 DEF FinishPoll, Escalated, StoreType, States
<1>5. desk' = [r \in Ids |->
                  IF r \in shown /\ desk[r].state # "NONE"
                  THEN [desk[r] EXCEPT !.state = "MANUAL_REVIEW"]
                  ELSE IF r \in unsearchable
                  THEN [desk[r] EXCEPT !.state = "NEEDS_INFO", !.turn = 0]
                  ELSE desk[r]]
  BY DEF FinishPoll
<1>6. \A v \in ViewType :
        /\ [v EXCEPT !.state = "MANUAL_REVIEW"] \in ViewType
        /\ [v EXCEPT !.state = "MANUAL_REVIEW"].state = "MANUAL_REVIEW"
        /\ [v EXCEPT !.state = "MANUAL_REVIEW"].enquiry = v.enquiry
        /\ [v EXCEPT !.state = "NEEDS_INFO", !.turn = 0] \in ViewType
        /\ [v EXCEPT !.state = "NEEDS_INFO", !.turn = 0].turn = 0
        /\ [v EXCEPT !.state = "NEEDS_INFO", !.turn = 0].enquiry = v.enquiry
  BY DEF ViewType, States
<1>7. desk' \in [Ids -> ViewType]
  BY <1>1, <1>5, <1>6
<1>8. ASSUME NEW r \in Ids
      PROVE  /\ desk'[r].enquiry = desk[r].enquiry
             /\ desk'[r].state = "NEEDS_INFO" =>
                  \/ r \in unsearchable /\ desk'[r].turn = 0
                  \/ r \notin shown /\ desk'[r] = desk[r]
             /\ desk[r].state = "NEEDS_INFO" => desk'[r] = desk[r]
  <2>1. desk[r] \in ViewType
    BY <1>1
  <2>2. CASE r \in shown /\ desk[r].state # "NONE"
    BY <1>2, <1>5, <1>6, <2>1, <2>2
  <2>3. CASE ~(r \in shown /\ desk[r].state # "NONE") /\ r \in unsearchable
    BY <1>2, <1>5, <1>6, <2>1, <2>3
  <2>4. CASE ~(r \in shown /\ desk[r].state # "NONE") /\ r \notin unsearchable
    BY <1>5, <2>4
  <2> QED BY <2>2, <2>3, <2>4
<1> QED BY <1>3, <1>4, <1>7, <1>8

LEMMA FinishPollHolds ==
  ASSUME IInv, NEW overdue \in SUBSET Overdue, NEW shown \in SUBSET overdue,
         NEW recorded \in SUBSET shown, NEW unsearchable \in SUBSET Searchable,
         NEW raised \in BOOLEAN, FinishPoll(overdue, recorded, shown, unsearchable, raised)
  PROVE  IInv' /\ Committed \subseteq Committed'
<1>1. /\ working' \in StoreType /\ durable' \in StoreType /\ desk' \in [Ids -> ViewType]
      /\ working'.thread = working.thread
      /\ \A r \in Ids :
           /\ working'.state[r] = IF r \in unsearchable THEN "NEEDS_INFO"
                                  ELSE IF r \in overdue THEN "MANUAL_REVIEW" ELSE working.state[r]
           /\ durable'.state[r] = IF r \in recorded THEN "MANUAL_REVIEW" ELSE durable.state[r]
           /\ durable'.thread[r] = IF r \in recorded THEN working.thread[r] ELSE durable.thread[r]
           /\ desk'[r].enquiry = desk[r].enquiry
           /\ desk'[r].state = "NEEDS_INFO" =>
                \/ r \in unsearchable /\ desk'[r].turn = 0
                \/ r \notin shown /\ desk'[r] = desk[r]
           /\ desk[r].state = "NEEDS_INFO" => desk'[r] = desk[r]
  BY FinishedOf
<1>2. ASSUME NEW r \in Ids
      PROVE  /\ r \in overdue => working.state[r] = "WAITING"
             /\ r \in unsearchable => working.state[r] = "VALIDATED"
  BY DEF Overdue, Searchable
<1>3. /\ Mail' = Mail /\ routed' = routed /\ dropped' = dropped /\ scope' = {} /\ batch' = {}
  BY DEF FinishPoll, Mail
<1>4. watermark' \in Int
  <2>1. ASSUME NEW r \in Ids PROVE desk'[r].enquiry \in Mail \union {0}
    BY <1>1 DEF IInv, Typed, DraftsAgree
  <2>2. AdvancedWatermark(UNION {durable'.thread[r] : r \in Ids}, desk') \in Int
    BY <2>1, WatermarkIsADate DEF IInv
  <2> QED BY <2>2 DEF FinishPoll, IInv, Typed
<1>5. Typed'
  <2>1. faults' \in Nat
    <3>1. faults \in Nat
      BY DEF IInv, Typed
    <3>2. faults' = faults + 1 \/ faults' = faults
      BY DEF FinishPoll
    <3> QED BY <3>1, <3>2
  <2> QED BY <1>1, <1>3, <1>4, <2>1 DEF FinishPoll, IInv, Typed, Date
<1>6. ThreadsAgree'
  <2>1. \A r \in Ids : durable'.thread[r] \subseteq working'.thread[r]
    BY <1>1 DEF IInv, ThreadsAgree
  <2>2. \A r \in Ids : working'.state[r] # "NONE" \/ working'.thread[r] # {} => r \in working'.thread[r]
    BY <1>1, <1>2 DEF IInv, ThreadsAgree, EnquiryOnRecord
  <2>3. \A r \in Ids : durable'.thread[r] # {} => r \in durable'.thread[r]
    BY <1>1, <1>2 DEF IInv, ThreadsAgree, EnquiryOnRecord
  <2> QED BY <1>1, <2>1, <2>2, <2>3 DEF IInv, ThreadsAgree, EnquiryOnRecord
<1>7. DraftsAgree'
  <2>1. ASSUME NEW r \in Ids
        PROVE  /\ durable'.state[r] # "NEEDS_INFO"
               /\ desk'[r].enquiry # 0 => desk'[r].enquiry \in working'.thread[r]
    BY <1>1 DEF IInv, DraftsAgree
  <2>2. ASSUME NEW r \in Ids, desk'[r].state = "NEEDS_INFO"
        PROVE  /\ working'.state[r] = "NEEDS_INFO"
               /\ desk'[r].turn # 0 => desk'[r].turn \in working'.thread[r]
    <3>1. CASE r \in unsearchable /\ desk'[r].turn = 0
      BY <1>1, <3>1
    <3>2. CASE r \notin shown /\ desk'[r] = desk[r]
      <4>1. working.state[r] = "NEEDS_INFO" /\ (desk[r].turn # 0 => desk[r].turn \in working.thread[r])
        BY <2>2, <3>2 DEF IInv, DraftsAgree
      <4>2. r \notin overdue /\ r \notin unsearchable
        BY <1>2, <4>1
      <4> QED BY <1>1, <3>2, <4>1, <4>2
    <3> QED BY <1>1, <2>2, <3>1, <3>2
  <2> QED BY <2>1, <2>2 DEF DraftsAgree
<1>8. Committed \subseteq Committed'
  <2>1. \A r \in Ids : durable.thread[r] \subseteq durable'.thread[r]
    BY <1>1 DEF IInv, ThreadsAgree
  <2> QED BY <2>1, OnRecord, OnRecordNext
<1>9. BatchIsUnseen' /\ SeenIsAccounted'
  <2>1. \A i : SeenMessage(i)' <=> SeenMessage(i)
    BY <1>1, <1>3 DEF SeenMessage, AlreadyProcessed
  <2> QED BY <1>1, <1>3, <1>8, <2>1 DEF IInv, BatchIsUnseen, SeenIsAccounted
<1> QED BY <1>5, <1>6, <1>7, <1>8, <1>9 DEF IInv

-----------------------------------------------------------------------------
(* The operator, and restarts                                              *)

\* A draft is of a message of its request, and settled it is not.
LEMMA DraftTurn ==
  ASSUME IInv, NEW r \in Ids, desk[r].state = "NEEDS_INFO", desk[r].turn # 0
  PROVE  desk[r].turn \in Ids /\ desk[r].turn \in working.thread[r] /\ desk[r].turn \notin Settled
<1>1. desk[r].turn \in working.thread[r]
  BY DEF IInv, DraftsAgree
<1>2. desk[r].turn \in Ids
  BY <1>1 DEF IInv, Typed, StoreType
<1>3. desk[r].turn \notin Settled
  BY DEF Settled
<1> QED BY <1>1, <1>2, <1>3

\* The mail of a draft is counted for its message, or not at all.
LEMMA MailCounted ==
  ASSUME IInv, NEW r \in Ids PROVE MailOf(r) \in [Ids -> Nat]
<1>1. sent \in [Ids -> Nat]
  BY DEF IInv, Typed
<1> QED BY <1>1, SentGrows DEF MailOf

\* A draft that is spent, whatever is written of its request.
LEMMA ReleasedKeeps ==
  ASSUME IInv, NEW r \in Ids, Released(r), durable' \in Refused(working', r), dropped \subseteq dropped',
         \A i \in Mail : i \in working.thread[r] => i \in Committed' \union dropped'
  PROVE  /\ desk[r].state = "NEEDS_INFO" /\ ~polling /\ Mail' = Mail
         /\ working' \in StoreType /\ durable' \in StoreType /\ desk' \in [Ids -> ViewType]
         /\ sent' \in [Ids -> Nat] /\ working'.thread = working.thread
         /\ desk'[r].state = "WAITING" /\ \A q \in Ids : q # r => desk'[q] = desk[q]
         /\ ThreadsAgree' /\ DraftsAgree' /\ Committed \subseteq Committed'
         /\ BatchIsUnseen' /\ SeenIsAccounted'
<1>1. /\ desk[r].state = "NEEDS_INFO" /\ ~polling /\ "WAITING" \in States
      /\ Mail' = Mail /\ routed' = routed /\ batch' = batch
  BY DEF Released, HoldsDraft, States, Mail
<1>2. /\ working' \in StoreType /\ working'.thread = working.thread
      /\ working'.state = [working.state EXCEPT ![r] = "WAITING"]
  BY <1>1, SavedOf DEF Released, IInv, Typed
<1>3. /\ working.state \in [Ids -> States] /\ working.thread \in [Ids -> SUBSET Ids]
      /\ durable.thread \in [Ids -> SUBSET Ids]
  BY DEF IInv, Typed, StoreType
<1>4. /\ durable' \in StoreType
      /\ \A q \in Ids : durable'.state[q] # "NEEDS_INFO"
      /\ \/ durable'.thread = durable.thread
         \/ durable'.thread = [durable.thread EXCEPT ![r] = working.thread[r]]
  <2>1. PICK w \in StoreType : w = working' /\ w.state[r] # "NEEDS_INFO"
    BY <1>2, <1>3
  <2> QED BY <1>2, <2>1, WrittenOf
<1>5. \A q \in Ids : /\ durable'.thread[q] \in {durable.thread[q], working.thread[q]}
                     /\ durable.thread[q] \subseteq durable'.thread[q]
                     /\ q # r => durable'.thread[q] = durable.thread[q]
  BY <1>3, <1>4 DEF IInv, ThreadsAgree
<1>6. /\ desk' \in [Ids -> ViewType]
      /\ \A q \in Ids : q # r => desk'[q] = desk[q]
      /\ desk'[r].state = "WAITING" /\ desk'[r].enquiry = desk[r].enquiry
  <2>1. desk \in [Ids -> ViewType]
    BY DEF IInv, Typed
  <2>2. desk' = [desk EXCEPT ![r] = [desk[r] EXCEPT !.state = "WAITING"]]
    BY DEF Released
  <2>3. LET v == [desk[r] EXCEPT !.state = "WAITING"]
        IN  v \in ViewType /\ v.state = "WAITING" /\ v.enquiry = desk[r].enquiry
    BY <1>1, <2>1 DEF ViewType
  <2> QED BY <2>1, <2>2, <2>3
<1>7. r \in working.thread[r]
  <2>1. working.state[r] = "NEEDS_INFO"
    BY <1>1 DEF IInv, DraftsAgree
  <2> QED BY <2>1 DEF IInv, ThreadsAgree, EnquiryOnRecord
<1>8. ThreadsAgree'
  <2>1. \A q \in Ids : durable'.thread[q] \subseteq working'.thread[q]
    BY <1>2, <1>5 DEF IInv, ThreadsAgree
  <2>2. \A q \in Ids : working'.state[q] # "NONE" \/ working'.thread[q] # {} => q \in working'.thread[q]
    BY <1>2, <1>3, <1>7 DEF IInv, ThreadsAgree, EnquiryOnRecord
  <2>3. \A q \in Ids : durable'.thread[q] # {} => q \in durable'.thread[q]
    BY <1>5, <1>7 DEF IInv, ThreadsAgree
  <2> QED BY <1>2, <2>1, <2>2, <2>3 DEF IInv, ThreadsAgree, EnquiryOnRecord
<1>9. DraftsAgree'
  <2>1. ASSUME NEW q \in Ids
        PROVE  /\ desk'[q].enquiry # 0 => desk'[q].enquiry \in working'.thread[q]
               /\ desk'[q].state = "NEEDS_INFO" =>
                    /\ working'.state[q] = "NEEDS_INFO"
                    /\ desk'[q].turn # 0 => desk'[q].turn \in working'.thread[q]
    BY <1>2, <1>3, <1>6 DEF IInv, DraftsAgree
  <2> QED BY <1>4, <2>1 DEF DraftsAgree
<1>10. Committed \subseteq Committed'
  BY <1>5, OnRecord, OnRecordNext
<1>11. BatchIsUnseen' /\ SeenIsAccounted'
  <2>1. \A i : SeenMessage(i)' <=> SeenMessage(i)
    BY <1>1, <1>2 DEF SeenMessage, AlreadyProcessed
  <2>2. ASSUME NEW i \in Mail, SeenMessage(i)
        PROVE  \/ i \in Committed' \union dropped'
               \/ \E q \in Ids : desk'[q].state = "NEEDS_INFO" /\ desk'[q].enquiry = i
    <3>1. CASE i \in Committed \union dropped
      BY <1>10, <3>1
    <3>2. ASSUME NEW q \in Ids, desk[q].state = "NEEDS_INFO", desk[q].enquiry = i
          PROVE  \/ i \in Committed' \union dropped'
                 \/ desk'[q].state = "NEEDS_INFO" /\ desk'[q].enquiry = i
      <4>1. CASE q = r
        <5>1. i # 0 /\ i \in working.thread[r]
          BY <3>2, <4>1, DateOf DEF IInv, DraftsAgree, Ids
        <5> QED BY <5>1
      <4>2. CASE q # r
        BY <1>6, <3>2, <4>2
      <4> QED BY <4>1, <4>2
    <3> QED BY <2>2, <3>1, <3>2 DEF IInv, SeenIsAccounted
  <2> QED BY <1>1, <2>1, <2>2 DEF IInv, BatchIsUnseen, SeenIsAccounted
<1>12. sent' \in [Ids -> Nat]
  BY MailCounted DEF Released
<1> QED BY <1>1, <1>2, <1>4, <1>6, <1>8, <1>9, <1>10, <1>11, <1>12

LEMMA ApproveClarificationHolds ==
  ASSUME IInv, NEW r \in Ids, ApproveClarification(r)
  PROVE  /\ IInv' /\ Committed \subseteq Committed'
         /\ working.thread[r] \subseteq Committed' /\ working'.thread = working.thread
         /\ desk'[r].state = "WAITING" /\ \A q \in Ids : q # r => desk'[q] = desk[q]
<1>1. /\ Released(r) /\ durable' \in Refused(working', r) /\ dropped' = dropped
      /\ durable' = CommitRequest(working', r)
  BY DEF ApproveClarification, Refused
<1>2. working.thread[r] \subseteq Committed'
  <2>1. working' \in StoreType /\ working'.thread = working.thread
    BY <1>1, SavedOf DEF Released, IInv, Typed, States
  <2>2. PICK w \in StoreType : w = working'
    BY <2>1
  <2>3. durable'.thread = [durable.thread EXCEPT ![r] = w.thread[r]]
    BY <1>1, <2>2, CommitOf DEF IInv
  <2>4. durable'.thread[r] = working.thread[r]
    BY <2>1, <2>2, <2>3 DEF IInv, Typed, StoreType
  <2> QED BY <2>4, OnRecordNext
<1>3. /\ ~polling /\ Mail' = Mail
      /\ working' \in StoreType /\ durable' \in StoreType /\ desk' \in [Ids -> ViewType]
      /\ sent' \in [Ids -> Nat] /\ working'.thread = working.thread
      /\ desk'[r].state = "WAITING" /\ \A q \in Ids : q # r => desk'[q] = desk[q]
      /\ ThreadsAgree' /\ DraftsAgree' /\ Committed \subseteq Committed'
      /\ BatchIsUnseen' /\ SeenIsAccounted'
  BY <1>1, <1>2, ReleasedKeeps
<1>4. Typed'
  BY <1>1, <1>3 DEF ApproveClarification, Released, IInv, Typed, Date
<1> QED BY <1>2, <1>3, <1>4 DEF IInv

LEMMA ReleaseNotRecordedHolds ==
  ASSUME IInv, NEW r \in Ids, ReleaseNotRecorded(r)
  PROVE  /\ IInv' /\ Committed \subseteq Committed'
         /\ desk'[r].state = "WAITING" /\ \A q \in Ids : q # r => desk'[q] = desk[q]
<1>1. /\ Released(r) /\ durable' \in Refused(working', r)
      /\ dropped' = dropped \union (working.thread[r] \ Committed)
  BY DEF ReleaseNotRecorded
<1>2. Committed \subseteq Committed'
  <2>1. working' \in StoreType /\ working'.thread = working.thread
        /\ working'.state = [working.state EXCEPT ![r] = "WAITING"]
    BY <1>1, SavedOf DEF Released, IInv, Typed, States
  <2>2. working.state \in [Ids -> States] /\ durable.thread \in [Ids -> SUBSET Ids]
    BY DEF IInv, Typed, StoreType
  <2>3. PICK w \in StoreType : w = working' /\ w.state[r] # "NEEDS_INFO"
    BY <2>1, <2>2
  <2>4. \/ durable'.thread = durable.thread
        \/ durable'.thread = [durable.thread EXCEPT ![r] = working.thread[r]]
    BY <1>1, <2>1, <2>3, WrittenOf
  <2>5. \A q \in Ids : durable.thread[q] \subseteq durable'.thread[q]
    BY <2>2, <2>4 DEF IInv, ThreadsAgree
  <2> QED BY <2>5, OnRecord, OnRecordNext
<1>3. \A i \in Mail : i \in working.thread[r] => i \in Committed' \union dropped'
  BY <1>1, <1>2
<1>4. /\ ~polling /\ Mail' = Mail
      /\ working' \in StoreType /\ durable' \in StoreType /\ desk' \in [Ids -> ViewType]
      /\ sent' \in [Ids -> Nat] /\ working'.thread = working.thread
      /\ desk'[r].state = "WAITING" /\ \A q \in Ids : q # r => desk'[q] = desk[q]
      /\ ThreadsAgree' /\ DraftsAgree' /\ BatchIsUnseen' /\ SeenIsAccounted'
  BY <1>1, <1>3, ReleasedKeeps
<1>5. Typed'
  <2>1. dropped' \in SUBSET Mail /\ lost' \in Nat /\ faults' \in Nat
    BY <1>1, <1>4 DEF ReleaseNotRecorded, IInv, Typed
  <2> QED BY <1>1, <1>4, <2>1 DEF Released, IInv, Typed, Date
<1> QED BY <1>2, <1>4, <1>5 DEF IInv

LEMMA ReleaseReportedRefusedHolds ==
  ASSUME IInv, NEW r \in Ids, ReleaseReportedRefused(r) PROVE IInv'
<1>1. /\ UNCHANGED <<durable, working, desk, routed, dropped, batch>> /\ Mail' = Mail
  BY DEF ReleaseReportedRefused, Mail
<1>2. Typed'
  <2>1. sent' \in [Ids -> Nat] /\ lost' \in Nat /\ faults' \in Nat
    BY MailCounted DEF ReleaseReportedRefused, IInv, Typed
  <2> QED BY <1>1, <2>1 DEF ReleaseReportedRefused, IInv, Typed, Date
<1> QED BY <1>1, <1>2, SameStores DEF IInv

\* A new process over the durable threads agrees with them, and holds no draft.
LEMMA RestartFromHolds ==
  ASSUME IInv, NEW store \in StoreType, RestartFrom(store),
         store.thread = durable.thread, \A r \in Ids : store.state[r] # "NEEDS_INFO",
         UNCHANGED <<inbox, watermark, dropped>>, sent' \in [Ids -> Nat], lost' \in Nat
  PROVE  IInv' /\ Committed' = Committed /\ \A r \in Ids : desk'[r].state # "NEEDS_INFO"
<1>1. /\ durable' = store /\ working' = Seeded(store) /\ desk' = Restored(store)
      /\ routed' = {} /\ held' = {} /\ scope' = {} /\ batch' = {} /\ polling' = FALSE
      /\ faults' = faults + 1
  BY DEF RestartFrom
<1>2. Mail' = Mail /\ Committed' = Committed
  BY <1>1 DEF Mail, Committed
<1>3. /\ working' \in StoreType /\ working'.thread = durable.thread
      /\ \A r \in Ids : working'.state[r] = IF durable.thread[r] = {} THEN "NONE" ELSE store.state[r]
  BY <1>1 DEF Seeded, StoreType, States
<1>4. /\ desk' \in [Ids -> ViewType]
      /\ \A r \in Ids : desk'[r].state = store.state[r] /\ desk'[r].enquiry = 0
  BY <1>1 DEF Restored, StoreType, ViewType
<1>5. Typed'
  <2>1. faults' \in Nat
    BY <1>1 DEF IInv, Typed
  <2>2. \A r \in Ids : working'.thread[r] \subseteq Mail
    BY <1>3 DEF IInv, Typed, ThreadsAgree
  <2> QED BY <1>1, <1>2, <1>3, <1>4, <2>1, <2>2 DEF IInv, Typed, Date
<1>6. ThreadsAgree'
  <2>1. \A r, q \in Ids : r # q => durable.thread[r] \cap durable.thread[q] = {}
    BY DEF IInv, ThreadsAgree
  <2>2. \A r \in Ids : durable.thread[r] # {} => r \in durable.thread[r]
    BY DEF IInv, ThreadsAgree
  <2>3. durable'.thread = durable.thread
    BY <1>1
  <2> QED BY <1>3, <2>1, <2>2, <2>3 DEF ThreadsAgree, EnquiryOnRecord
<1>7. DraftsAgree'
  BY <1>1, <1>4 DEF DraftsAgree
<1>8. \A i : SeenMessage(i)' => i \in Committed
  BY <1>1, <1>3, OnRecord DEF SeenMessage, AlreadyProcessed
<1>9. BatchIsUnseen' /\ SeenIsAccounted'
  BY <1>1, <1>2, <1>8 DEF BatchIsUnseen, SeenIsAccounted
<1> QED BY <1>2, <1>4, <1>5, <1>6, <1>7, <1>9 DEF IInv

LEMMA RestartHolds ==
  ASSUME IInv, Restart
  PROVE  IInv' /\ Committed' = Committed /\ \A r \in Ids : desk'[r].state # "NEEDS_INFO"
<1>1. durable \in StoreType /\ sent' \in [Ids -> Nat] /\ lost' \in Nat
  BY DEF Restart, IInv, Typed
<1>2. \A r \in Ids : durable.state[r] # "NEEDS_INFO"
  BY DEF IInv, DraftsAgree
<1>3. RestartFrom(durable) /\ UNCHANGED <<inbox, watermark, dropped>>
  BY DEF Restart
<1> QED BY <1>1, <1>2, <1>3, RestartFromHolds

LEMMA SendThenCrashHolds ==
  ASSUME IInv, SendThenCrash
  PROVE  IInv' /\ Committed' = Committed /\ \A r \in Ids : desk'[r].state # "NEEDS_INFO"
<1>1. durable \in StoreType /\ lost' \in Nat /\ sent \in [Ids -> Nat]
  BY DEF SendThenCrash, IInv, Typed
<1>2. \A r \in Ids : durable.state[r] # "NEEDS_INFO"
  BY DEF IInv, DraftsAgree
<1>3. RestartFrom(durable) /\ UNCHANGED <<inbox, watermark, dropped>>
  BY DEF SendThenCrash
<1>4. \/ \E t : sent' = [sent EXCEPT ![t] = @ + 1]
      \/ \E r \in Ids : sent' = MailOf(r)
  BY DEF SendThenCrash
<1>5. sent' \in [Ids -> Nat]
  BY <1>1, <1>4, SentGrows, MailCounted
<1> QED BY <1>1, <1>2, <1>3, <1>5, RestartFromHolds

LEMMA CrashBetweenWritesHolds ==
  ASSUME IInv, CrashBetweenWrites
  PROVE  IInv' /\ Committed' = Committed /\ \A r \in Ids : desk'[r].state # "NEEDS_INFO"
<1>1. lost' \in Nat /\ sent \in [Ids -> Nat] /\ UNCHANGED <<inbox, watermark, dropped>>
  BY DEF CrashBetweenWrites, IInv, Typed
<1>2. PICK r \in Ids, s \in States : /\ s # "NEEDS_INFO"
                                     /\ RestartFrom(HalfCommitted(Saved(working, r, s), r))
  <2>1. CASE \E i \in Mail : \E o \in TurnOutcomes(i) :
               /\ o.state # "NEEDS_INFO"
               /\ RestartFrom(HalfCommitted(Saved(working, RequestOf(i), o.state), RequestOf(i)))
    BY <2>1, OutcomesOf, PlaceOf DEF IInv
  <2>2. CASE \E r \in Ids : RestartFrom(HalfCommitted(Saved(working, r, "WAITING"), r))
    BY <2>2 DEF States
  <2> QED BY <2>1, <2>2 DEF CrashBetweenWrites
<1>3. \/ \E t : \E n \in {0, 1} : sent' = [sent EXCEPT ![t] = @ + n]
      \/ \E q \in Ids : sent' = MailOf(q)
  BY OutcomesOf DEF CrashBetweenWrites
<1>4. sent' \in [Ids -> Nat]
  BY <1>1, <1>3, SentGrows, MailCounted
<1>5. Saved(working, r, s) \in StoreType /\ Saved(working, r, s).state[r] = s
  <2>1. working \in StoreType /\ working.state \in [Ids -> States]
    BY DEF IInv, Typed, StoreType
  <2>2. /\ Saved(working, r, s) \in StoreType
        /\ Saved(working, r, s).state = [working.state EXCEPT ![r] = s]
    BY <2>1, SavedOf
  <2> QED BY <2>1, <2>2
<1> DEFINE store == HalfCommitted(Saved(working, r, s), r)
<1>6. /\ store \in StoreType /\ store.thread = durable.thread
      /\ store.state = [durable.state EXCEPT ![r] = s]
  <2>1. PICK w \in StoreType : w = Saved(working, r, s)
    BY <1>5
  <2>2. /\ HalfCommitted(w, r) \in StoreType
        /\ HalfCommitted(w, r).state = [durable.state EXCEPT ![r] = w.state[r]]
        /\ HalfCommitted(w, r).thread = durable.thread
    BY CommitOf DEF IInv
  <2> QED BY <1>5, <2>1, <2>2
<1>7. \A q \in Ids : store.state[q] # "NEEDS_INFO"
  <2>1. durable.state \in [Ids -> States]
    BY DEF IInv, Typed, StoreType
  <2>2. \A q \in Ids : durable.state[q] # "NEEDS_INFO"
    BY DEF IInv, DraftsAgree
  <2> HIDE DEF store
  <2> QED BY <1>2, <1>6, <2>1, <2>2
<1> QED BY <1>1, <1>2, <1>4, <1>6, <1>7, RestartFromHolds

-----------------------------------------------------------------------------
(* The inductive invariant                                                 *)

LEMMA PlaceHolds ==
  ASSUME IInv, NEW i \in Mail, Place(i) PROVE IInv'
BY DeferHolds, HoldAfterFailureHolds, RefuseAmbiguousHolds, RecordAsSeenHolds, SeenNotRecordedHolds,
   RouteToDraftHolds, RouteAndCommitHolds, CommitRefusedHolds DEF Place

LEMMA StepHolds == IInv /\ [Next]_vars => IInv'
<1> SUFFICES ASSUME IInv, [Next]_vars PROVE IInv'
  OBVIOUS
<1>1. ASSUME NEW kind \in Kinds, NEW drift \in Drifts, NEW headers \in Headers(Len(inbox)),
             Arrive(kind, drift, headers)
      PROVE  IInv'
  BY <1>1, ArriveHolds
<1>2. CASE StartPoll
  BY <1>2, StartPollHolds
<1>3. ASSUME NEW i \in Mail, Place(i) PROVE IInv'
  BY <1>3, PlaceHolds
<1>4. CASE Finish
  BY <1>4, FinishPollHolds DEF Finish
<1>5. ASSUME NEW i \in Mail, HoldLapses(i) PROVE IInv'
  BY <1>5, HoldLapsesHolds
<1>6. ASSUME NEW r \in Ids,
             ApproveClarification(r) \/ ReleaseNotRecorded(r) \/ ReleaseReportedRefused(r)
      PROVE  IInv'
  BY <1>6, ApproveClarificationHolds, ReleaseNotRecordedHolds, ReleaseReportedRefusedHolds
<1>7. CASE Restart \/ SendThenCrash \/ CrashBetweenWrites
  BY <1>7, RestartHolds, SendThenCrashHolds, CrashBetweenWritesHolds
<1>8. CASE UNCHANGED vars
  <2>1. Mail' = Mail /\ Committed' = Committed /\ \A i : SeenMessage(i)' <=> SeenMessage(i)
    BY <1>8 DEF vars, Mail, Committed, SeenMessage, AlreadyProcessed
  <2>2. Typed'
    BY <1>8, <2>1 DEF vars, IInv, Typed, Date
  <2>3. ThreadsAgree' /\ DraftsAgree'
    BY <1>8 DEF vars, IInv, ThreadsAgree, DraftsAgree, EnquiryOnRecord
  <2>4. BatchIsUnseen' /\ SeenIsAccounted'
    BY <1>8, <2>1 DEF vars, IInv, BatchIsUnseen, SeenIsAccounted
  <2> QED BY <2>2, <2>3, <2>4 DEF IInv
<1> QED BY <1>1, <1>2, <1>3, <1>4, <1>5, <1>6, <1>7, <1>8 DEF Next

(* IInv holds in every state the mailbox reaches.                          *)
THEOREM Invariance == Spec => []IInv
BY InitHolds, StepHolds, PTL DEF Spec

(* The mailbox, the stores, the poll and the views keep their shapes, for  *)
(* any number of messages, faults and polls and any clocks within the      *)
(* overlap; the durable threads are part of the working ones.              *)
THEOREM TypeCorrect == Spec => []TypeOK
<1>1. IInv => TypeOK
  BY DEF IInv, Typed, ThreadsAgree, TypeOK, ViewType
<1> QED BY <1>1, Invariance, PTL

(* No answer is ever read as an enquiry, and after a crash no enquiry is   *)
(* read as an answer: a request with a state has the mail that opened it.  *)
THEOREM EnquiryIsOnRecord == Spec => []EnquiryOnRecord
<1>1. IInv => EnquiryOnRecord
  BY DEF IInv, ThreadsAgree
<1> QED BY <1>1, Invariance, PTL

-----------------------------------------------------------------------------
(* Mailbox implements Answering                                            *)

\* What a step does to the settled mail, the mails sent and the lost answers.
Answered(i) ==
    /\ i \in Ids /\ i \notin Settled
    /\ sent' = [sent EXCEPT ![i] = @ + 1]

AnswersOnRecord(i) == Answered(i) /\ i \in Settled' /\ lost' = lost
LosesAnswer(i) == Answered(i) /\ lost' = lost + 1
OnlyCommits == sent' = sent /\ lost' = lost
LosesCommit == sent' = sent /\ lost' = lost + 1

Promised ==
    /\ Settled \subseteq Settled'
    /\ \/ \E i \in Ids : AnswersOnRecord(i) \/ LosesAnswer(i)
       \/ OnlyCommits
       \/ LosesCommit

\* The settled mail grows with the record, if no draft is of mail that was on it.
LEMMA SettledGrows ==
  ASSUME Committed \subseteq Committed',
         \A r \in Ids : desk'[r].state = "NEEDS_INFO" =>
            \/ desk[r].state = "NEEDS_INFO" /\ desk'[r].turn = desk[r].turn
            \/ desk'[r].turn \notin Committed
  PROVE  Settled \subseteq Settled'
BY DEF Settled

\* Nothing is added to a count that none is added to.
LEMMA SentSame ==
  ASSUME IInv, NEW i PROVE [sent EXCEPT ![i] = @ + 0] = sent
<1>1. sent \in [Ids -> Nat]
  BY DEF IInv, Typed
<1>2. \A q \in Ids : sent[q] + 0 = sent[q]
  BY <1>1
<1> QED BY <1>1, <1>2

\* A message that a poll routes is not settled, and its turn makes a draft of it or none.
LEMMA RoutedKeepsSettled ==
  ASSUME IInv, NEW i \in Mail, Routing(i), Committed \subseteq Committed',
         desk' = desk \/ \E s \in States : desk' = Shown(i, s)
  PROVE  i \in Ids /\ i \notin Settled /\ Settled \subseteq Settled'
<1>1. i \in Ids /\ i \notin Committed
  BY DateOf, RoutedIsNew DEF IInv
<1>2. \A r \in Ids : desk'[r].turn = i \/ desk'[r] = desk[r]
  BY ShownOf DEF IInv
<1>3. Settled \subseteq Settled'
  BY <1>1, <1>2, SettledGrows
<1> QED BY <1>1, <1>3 DEF Settled

LEMMA PlaceCommits ==
  ASSUME IInv, NEW i \in Mail, Place(i) PROVE Committed \subseteq Committed'
<1>1. CASE Defer(i) \/ RefuseAmbiguous(i) \/ \E mails \in {0, 1} : HoldAfterFailure(i, mails)
  BY <1>1 DEF Defer, HoldAfterFailure, RefuseAmbiguous, Committed
<1> QED BY <1>1, RecordAsSeenHolds, SeenNotRecordedHolds, RouteToDraftHolds, RouteAndCommitHolds,
           CommitRefusedHolds DEF Place

LEMMA PlaceIsPromised ==
  ASSUME IInv, NEW i \in Mail, Place(i) PROVE Promised
<1>1. Routing(i)
  BY DEF Place, Defer, HoldAfterFailure, RefuseAmbiguous, RecordAsSeen, SeenNotRecorded, IsSeenOnly,
         RouteToDraft, RouteAndCommit, CommitRefused, Advanced, IsTurn, Reaches
<1>2. Committed \subseteq Committed'
  BY PlaceCommits
<1>3. desk' = desk \/ \E s \in States : desk' = Shown(i, s)
  BY OutcomesOf DEF Place, Defer, HoldAfterFailure, RefuseAmbiguous, RecordAsSeen, SeenNotRecorded,
         RouteToDraft, RouteAndCommit, CommitRefused, Advanced, States
<1>4. i \in Ids /\ i \notin Settled /\ Settled \subseteq Settled'
  BY <1>1, <1>2, <1>3, RoutedKeepsSettled
<1>5. CASE Defer(i) \/ RefuseAmbiguous(i) \/ RecordAsSeen(i) \/ SeenNotRecorded(i) \/ RouteToDraft(i)
  <2>1. sent' = sent /\ lost' = lost
    BY <1>5 DEF Defer, RefuseAmbiguous, RecordAsSeen, SeenNotRecorded, RouteToDraft
  <2> QED BY <1>4, <2>1 DEF Promised, OnlyCommits
<1>6. ASSUME NEW n \in {0, 1}, sent' = [sent EXCEPT ![i] = @ + n], lost' = lost + n PROVE Promised
  <2>1. CASE n = 1
    BY <1>4, <1>6, <2>1 DEF Promised, LosesAnswer, Answered
  <2>2. CASE n = 0
    <3>1. lost \in Nat
      BY DEF IInv, Typed
    <3>2. sent' = sent /\ lost' = lost
      BY <1>6, <2>2, <3>1, SentSame
    <3> QED BY <1>4, <3>2 DEF Promised, OnlyCommits
  <2> QED BY <2>1, <2>2
<1>7. ASSUME NEW mails \in {0, 1}, HoldAfterFailure(i, mails) PROVE Promised
  BY <1>6, <1>7 DEF HoldAfterFailure
<1>8. ASSUME NEW o \in Outcomes, CommitRefused(i, o) PROVE Promised
  <2>1. o.mails \in {0, 1}
    BY DEF Outcomes
  <2> QED BY <1>6, <1>8, <2>1 DEF CommitRefused, Advanced
<1>9. ASSUME NEW o \in Outcomes, RouteAndCommit(i, o) PROVE Promised
  <2>1. o.mails \in {0, 1} /\ sent' = [sent EXCEPT ![i] = @ + o.mails] /\ lost' = lost
    BY <1>9 DEF RouteAndCommit, Advanced, Outcomes
  <2>2. CASE o.mails = 0
    BY <1>4, <2>1, <2>2, SentSame DEF Promised, OnlyCommits
  <2>3. CASE o.mails = 1
    <3>1. i \in Committed' /\ IInv'
      BY <1>9, RouteAndCommitHolds
    <3>2. PICK r \in Ids : r = RequestOf(i)
      BY PlaceOf DEF IInv
    <3>3. /\ desk'[r].state # "NEEDS_INFO" /\ \A q \in Ids : q # r => desk'[q] = desk[q]
      <4>1. PICK s \in States : s = o.state
        BY DEF Outcomes
      <4>2. s # "NEEDS_INFO" /\ desk' = Shown(i, s)
        BY <1>9, <4>1 DEF RouteAndCommit, Advanced
      <4> QED BY <3>2, <4>2, ShownOf DEF IInv
    <3>4. \A q \in Ids : desk'[q].state = "NEEDS_INFO" => desk'[q].turn # i
      <4>1. i # 0 /\ \A q \in Ids : i \notin working.thread[q]
        BY <1>1, <1>4, RoutedIsNew DEF Ids
      <4>2. \A q \in Ids : desk[q].state = "NEEDS_INFO" /\ desk[q].turn # 0 => desk[q].turn \in working.thread[q]
        BY DEF IInv, DraftsAgree
      <4> QED BY <3>3, <4>1, <4>2
    <3>5. i \in Settled'
      BY <3>1, <3>4 DEF Settled
    <3> QED BY <1>4, <2>1, <2>3, <3>5 DEF Promised, AnswersOnRecord, Answered
  <2> QED BY <2>1, <2>2, <2>3
<1> QED BY <1>5, <1>7, <1>8, <1>9 DEF Place

\* The mail of a draft is for a message that is not settled, or for none.
LEMMA MailIsPromised ==
  ASSUME IInv, NEW r \in Ids, HoldsDraft(r), Settled \subseteq Settled', sent' = MailOf(r),
         \/ lost' = lost + 1
         \/ lost' = lost /\ (desk[r].turn # 0 => desk[r].turn \in Settled')
  PROVE  Promised
<1> DEFINE t == desk[r].turn
<1>1. CASE t = 0
  BY <1>1 DEF MailOf, Promised, OnlyCommits, LosesCommit
<1>2. CASE t # 0
  <2>1. t \in Ids /\ t \notin Settled
    BY <1>2, DraftTurn DEF HoldsDraft
  <2>2. sent' = [sent EXCEPT ![t] = @ + 1]
    BY <1>2 DEF MailOf
  <2>3. AnswersOnRecord(t) \/ LosesAnswer(t)
    BY <1>2, <2>1, <2>2 DEF AnswersOnRecord, LosesAnswer, Answered
  <2> QED BY <2>1, <2>3 DEF Promised
<1> QED BY <1>1, <1>2

LEMMA ApproveIsPromised ==
  ASSUME IInv, NEW r \in Ids, ApproveClarification(r) PROVE Promised
<1> DEFINE t == desk[r].turn
<1>1. /\ Committed \subseteq Committed' /\ working.thread[r] \subseteq Committed'
      /\ desk'[r].state = "WAITING" /\ \A q \in Ids : q # r => desk'[q] = desk[q]
  BY ApproveClarificationHolds
<1>2. HoldsDraft(r) /\ lost' = lost /\ sent' = MailOf(r)
  BY DEF ApproveClarification, Released
<1>3. Settled \subseteq Settled'
  BY <1>1, SettledGrows
<1>4. t # 0 => t \in Settled'
  <2>1. t # 0 => t \in working.thread[r]
    BY <1>2, DraftTurn DEF HoldsDraft
  <2>2. ASSUME t # 0, NEW q \in Ids, q # r, desk[q].state = "NEEDS_INFO" PROVE desk[q].turn # t
    <3>1. desk[q].turn # 0 => desk[q].turn \in working.thread[q]
      BY <2>2 DEF IInv, DraftsAgree
    <3>2. working.thread[q] \cap working.thread[r] = {}
      BY <2>2 DEF IInv, ThreadsAgree
    <3> QED BY <2>1, <2>2, <3>1, <3>2
  <2>3. t # 0 => \A q \in Ids : desk'[q].state = "NEEDS_INFO" => desk'[q].turn # t
    BY <1>1, <2>2
  <2> QED BY <1>1, <2>1, <2>3 DEF Settled
<1> QED BY <1>2, <1>3, <1>4, MailIsPromised

\* A release whose commit is refused, and one reported refused: the answer is lost.
LEMMA ReleaseIsPromised ==
  ASSUME IInv, NEW r \in Ids, ReleaseNotRecorded(r) \/ ReleaseReportedRefused(r) PROVE Promised
<1>1. HoldsDraft(r) /\ sent' = MailOf(r) /\ lost' = lost + 1
  BY DEF ReleaseNotRecorded, Released, ReleaseReportedRefused
<1>2. Settled \subseteq Settled'
  <2>1. CASE ReleaseNotRecorded(r)
    BY <2>1, ReleaseNotRecordedHolds, SettledGrows
  <2>2. CASE ReleaseReportedRefused(r)
    BY <2>2 DEF ReleaseReportedRefused, Settled, Committed
  <2> QED BY <2>1, <2>2
<1> QED BY <1>1, <1>2, MailIsPromised

\* A crash loses the commit that was due, with the answer it was for if any.
LEMMA CrashIsPromised ==
  ASSUME IInv, SendThenCrash \/ CrashBetweenWrites PROVE Promised
<1>1. lost' = lost + 1
  BY DEF SendThenCrash, CrashBetweenWrites
<1>2. Settled \subseteq Settled'
  BY SendThenCrashHolds, CrashBetweenWritesHolds, SettledGrows
<1>3. \/ \E i \in Mail : \E n \in {0, 1} : Routing(i) /\ sent' = [sent EXCEPT ![i] = @ + n]
      \/ \E r \in Ids : HoldsDraft(r) /\ sent' = MailOf(r)
  BY OutcomesOf DEF SendThenCrash, CrashBetweenWrites, IsTurn, Reaches
<1>4. ASSUME NEW i \in Mail, NEW n \in {0, 1}, Routing(i), sent' = [sent EXCEPT ![i] = @ + n]
      PROVE  Promised
  <2>1. i \in Ids /\ i \notin Settled
    BY <1>4, DateOf, RoutedIsNew DEF IInv, Settled
  <2>2. CASE n = 1
    BY <1>1, <1>2, <1>4, <2>1, <2>2 DEF Promised, LosesAnswer, Answered
  <2>3. CASE n = 0
    BY <1>1, <1>2, <1>4, <2>3, SentSame DEF Promised, LosesCommit
  <2> QED BY <2>2, <2>3
<1>5. ASSUME NEW r \in Ids, HoldsDraft(r), sent' = MailOf(r) PROVE Promised
  BY <1>1, <1>2, <1>5, MailIsPromised
<1> QED BY <1>3, <1>4, <1>5

LEMMA StepIsPromised == IInv /\ [Next]_vars => Promised
<1> SUFFICES ASSUME IInv, [Next]_vars PROVE Promised
  OBVIOUS
<1>1. ASSUME UNCHANGED <<durable, desk, sent, lost>> PROVE Promised
  BY <1>1 DEF Promised, OnlyCommits, Settled, Committed
<1>2. ASSUME NEW kind \in Kinds, NEW drift \in Drifts, NEW headers \in Headers(Len(inbox)),
             Arrive(kind, drift, headers)
      PROVE  Promised
  BY <1>1, <1>2 DEF Arrive
<1>3. CASE StartPoll
  BY <1>1, <1>3 DEF StartPoll
<1>4. ASSUME NEW i \in Mail, Place(i) PROVE Promised
  BY <1>4, PlaceIsPromised
<1>5. CASE Finish
  <2>1. ASSUME NEW overdue \in SUBSET Overdue, NEW shown \in SUBSET overdue,
               NEW recorded \in SUBSET shown, NEW unsearchable \in SUBSET Searchable,
               NEW raised \in BOOLEAN,
               FinishPoll(overdue, recorded, shown, unsearchable, raised)
        PROVE  Promised
    <3>1. Committed \subseteq Committed' /\ sent' = sent /\ lost' = lost
      BY <2>1, FinishPollHolds DEF FinishPoll
    <3>2. 0 \notin Committed
      <4>1. durable.thread \in [Ids -> SUBSET Ids] /\ 0 \notin Ids
        BY DEF IInv, Typed, StoreType, Ids
      <4> QED BY <4>1, OnRecord
    <3>3. ASSUME NEW r \in Ids, desk'[r].state = "NEEDS_INFO"
          PROVE  \/ desk[r].state = "NEEDS_INFO" /\ desk'[r].turn = desk[r].turn
                 \/ desk'[r].turn \notin Committed
      <4>1. desk'[r].turn = 0 \/ desk'[r] = desk[r]
        BY <2>1, <3>3, FinishedOf
      <4> QED BY <3>2, <3>3, <4>1
    <3>4. Settled \subseteq Settled'
      BY <3>1, <3>3, SettledGrows
    <3> QED BY <3>1, <3>4 DEF Promised, OnlyCommits
  <2> QED BY <1>5, <2>1 DEF Finish
<1>6. ASSUME NEW i \in Mail, HoldLapses(i) PROVE Promised
  BY <1>1, <1>6 DEF HoldLapses
<1>7. ASSUME NEW r \in Ids,
             ApproveClarification(r) \/ ReleaseNotRecorded(r) \/ ReleaseReportedRefused(r)
      PROVE  Promised
  BY <1>7, ApproveIsPromised, ReleaseIsPromised
<1>8. CASE Restart
  <2>1. Settled \subseteq Settled' /\ sent' = sent /\ lost' = lost
    BY <1>8, RestartHolds, SettledGrows DEF Restart
  <2> QED BY <2>1 DEF Promised, OnlyCommits
<1>9. CASE SendThenCrash \/ CrashBetweenWrites
  BY <1>9, CrashIsPromised
<1>10. CASE UNCHANGED vars
  BY <1>1, <1>10 DEF vars
<1> QED BY <1>2, <1>3, <1>4, <1>5, <1>6, <1>7, <1>8, <1>9, <1>10 DEF Next

(* The mailbox implements Answering, for any number of messages, faults    *)
(* and polls: across re-reads, restarts, holds, refused commits and sends  *)
(* wrongly reported refused no settled message is answered, with the       *)
(* notice that it could not be read or otherwise, and an answer that is    *)
(* not counted as lost settles its message.                                *)
THEOREM MailboxAnswersOnce == Spec => AnsweredOnce
<1>1. Init => Answers!Init
  <2>1. Init => Settled = {}
    BY DEF Init, EmptyStore, Committed, Settled
  <2> QED BY <2>1 DEF Init, Answers!Init
<1>2. Promised => Answers!Next
  BY DEF Promised, AnswersOnRecord, LosesAnswer, OnlyCommits, LosesCommit, Answered,
         Answers!Next, Answers!Answer, Answers!LoseAnswer, Answers!Commit, Answers!LoseCommit,
         Answers!Sends
<1>3. IInv /\ [Next]_vars => [Answers!Next]_(Answers!vars)
  BY <1>2, StepIsPromised
<1> QED BY <1>1, <1>3, Invariance, PTL DEF Spec, AnsweredOnce, Answers!Spec

\* Whatever keeps the promise keeps count of what it answered.
LEMMA AnswerInvStep == Answers!AnswerInv /\ [Answers!Next]_(Answers!vars) => Answers!AnswerInv'
<1> SUFFICES ASSUME Answers!AnswerInv, [Answers!Next]_(Answers!vars)
             PROVE  Answers!AnswerInv'
  OBVIOUS
<1> USE DEF Answers!AnswerInv
<1>1. ASSUME NEW i \in Ids, Answers!Answer(i) PROVE Answers!AnswerInv'
  BY <1>1 DEF Answers!Answer, Answers!Sends
<1>2. ASSUME NEW i \in Ids, Answers!LoseAnswer(i) PROVE Answers!AnswerInv'
  BY <1>2 DEF Answers!LoseAnswer, Answers!Sends
<1>3. CASE Answers!Commit
  BY <1>3 DEF Answers!Commit
<1>4. CASE Answers!LoseCommit
  BY <1>4 DEF Answers!LoseCommit
<1>5. CASE UNCHANGED Answers!vars
  BY <1>5 DEF Answers!vars
<1> QED BY <1>1, <1>2, <1>3, <1>4, <1>5 DEF Answers!Next

LEMMA AnswersCounted == Spec => []Answers!AnswerInv
<1>1. Answers!Init => Answers!AnswerInv
  BY DEF Answers!Init, Answers!AnswerInv
<1> QED BY <1>1, AnswerInvStep, MailboxAnswersOnce, PTL DEF AnsweredOnce, Answers!Spec

(* One message makes the desk write to its client at most once, plus once  *)
(* for each answer of which the record was lost, whatever the polls        *)
(* re-read, the clients send and the process forgets.                      *)
THEOREM DeskWritesOnce == Spec => []Answers!OneMailPerMessage
<1>1. Answers!AnswerInv => Answers!OneMailPerMessage
  BY DEF Answers!AnswerInv, Answers!OneMailPerMessage
<1> QED BY <1>1, AnswersCounted, PTL

(* The answers of a settled message do not grow: a re-read of the mailbox  *)
(* by a later process writes to no client.                                 *)
THEOREM RecordedNotAnswered == Spec => Answers!RecordedIsNotAnswered
<1> DEFINE Kept == \A i \in Settled : sent'[i] = sent[i]
<1>1. ASSUME Answers!AnswerInv, Answers!Next, NEW j \in Settled
      PROVE  sent'[j] = sent[j]
  <2>1. ASSUME NEW i \in Ids, Answers!Sends(i) PROVE sent'[j] = sent[j]
    BY <1>1, <2>1 DEF Answers!Sends, Answers!AnswerInv
  <2> QED BY <1>1, <2>1 DEF Answers!Next, Answers!Answer, Answers!LoseAnswer, Answers!Commit, Answers!LoseCommit
<1>2. Answers!AnswerInv /\ [Answers!Next]_(Answers!vars) => [Kept]_(Answers!vars)
  BY <1>1
<1> QED BY <1>2, AnswersCounted, MailboxAnswersOnce, PTL
        DEF AnsweredOnce, Answers!Spec, Answers!RecordedIsNotAnswered

-----------------------------------------------------------------------------
(* Unsettled mail is read again                                            *)

LEMMA StepCommits == IInv /\ [Next]_vars => Committed \subseteq Committed'
<1> SUFFICES ASSUME IInv, [Next]_vars PROVE Committed \subseteq Committed'
  OBVIOUS
<1>1. ASSUME UNCHANGED durable PROVE Committed \subseteq Committed'
  BY <1>1 DEF Committed
<1>2. CASE Finish
  BY <1>2, FinishPollHolds DEF Finish
<1>3. ASSUME NEW r \in Ids,
             ApproveClarification(r) \/ ReleaseNotRecorded(r) \/ ReleaseReportedRefused(r)
      PROVE  Committed \subseteq Committed'
  BY <1>1, <1>3, ApproveClarificationHolds, ReleaseNotRecordedHolds DEF ReleaseReportedRefused
<1>4. CASE Restart \/ SendThenCrash \/ CrashBetweenWrites
  BY <1>4, RestartHolds, SendThenCrashHolds, CrashBetweenWritesHolds
<1> QED BY <1>1, <1>2, <1>3, <1>4, PlaceCommits DEF Next, Arrive, StartPoll, HoldLapses, vars

\* As long as the cutoff and the inbox stay, so does the window of the next read.
LEMMA SameWindow ==
  ASSUME IInv, WindowInv, Committed \subseteq Committed', dropped \subseteq dropped',
         UNCHANGED <<inbox, watermark, unread>>
  PROVE  UnsettledMailIsReadAgain' /\ CutoffIsPast'
<1>1. Mail' = Mail /\ \A i : IsClientMail(i)' <=> IsClientMail(i)
  BY DEF Mail, IsClientMail
<1> QED BY <1>1 DEF WindowInv, UnsettledMailIsReadAgain, CutoffIsPast

\* Nothing that was handled is forgotten while a poll runs.
LEMMA PlaceKeepsSeen ==
  ASSUME IInv, NEW i \in Mail, Place(i), polling'
  PROVE  \A j : SeenMessage(j) => SeenMessage(j)'
<1>1. working.thread \in [Ids -> SUBSET Ids] /\ working \in StoreType
  BY DEF IInv, Typed, StoreType
<1>2. PICK r \in Ids : r = RequestOf(i)
  BY PlaceOf DEF IInv
<1>3. i \in Ids
  BY DateOf DEF IInv
<1>4. routed \subseteq routed' /\ \A q \in Ids : working.thread[q] \subseteq working'.thread[q]
  <2>1. CASE working' = working /\ (routed' = routed \/ routed' = routed \union {i})
    BY <2>1
  <2>2. CASE RecordAsSeen(i)
    <3>1. working'.thread = [working.thread EXCEPT ![r] = @ \union {i}]
      BY <1>1, <1>2, <1>3, <2>2, RecordOf DEF RecordAsSeen
    <3> QED BY <1>1, <2>2, <3>1 DEF RecordAsSeen
  <2>3. ASSUME NEW s \in States, working' = AfterTurn(i, s), routed' = routed \union {i}
        PROVE  routed \subseteq routed' /\ \A q \in Ids : working.thread[q] \subseteq working'.thread[q]
    <3>1. working'.thread = [working.thread EXCEPT ![r] = @ \union {i}]
      BY <1>2, <2>3, TurnOf DEF IInv
    <3> QED BY <1>1, <2>3, <3>1
  <2>4. CASE RouteToDraft(i)
    BY <2>3, <2>4 DEF RouteToDraft, States
  <2>5. ASSUME NEW o \in Outcomes, RouteAndCommit(i, o)
        PROVE  routed \subseteq routed' /\ \A q \in Ids : working.thread[q] \subseteq working'.thread[q]
    BY <2>3, <2>5 DEF RouteAndCommit, Advanced, Outcomes
  <2>6. CASE SeenNotRecorded(i) \/ \E o \in Outcomes : CommitRefused(i, o)
    BY <2>6 DEF SeenNotRecorded, CommitRefused, EndsPoll
  <2> QED BY <2>1, <2>2, <2>4, <2>5, <2>6 DEF Place, Defer, HoldAfterFailure, RefuseAmbiguous
<1> QED BY <1>4 DEF SeenMessage, AlreadyProcessed

LEMMA ArriveKeepsWindow ==
  ASSUME IInv, WindowInv, NEW kind \in Kinds, NEW drift \in Drifts, NEW headers \in Headers(Len(inbox)),
         Arrive(kind, drift, headers)
  PROVE  WindowInv'
<1> DEFINE m == [kind |-> kind, drift |-> drift, irt |-> headers.irt, refs |-> headers.refs]
<1>1. PICK n \in Int : n = Len(inbox) + 1
  BY DEF IInv, Typed
<1>2. inbox \in Seq(MailType) /\ Len(inbox) \in Nat /\ inbox' = Append(inbox, m) /\ watermark \in Int
  BY DEF IInv, Typed, Arrive
<1>3. m \in MailType
  BY <1>2 DEF Headers, MailType
<1> HIDE DEF m
<1>4. Len(inbox') = n /\ Mail' = Mail \union {n} /\ \A i \in Mail : inbox'[i] = inbox[i]
  BY <1>1, <1>2, <1>3 DEF Mail
<1>5. Committed' = Committed /\ UNCHANGED <<dropped, unread, watermark, polling>> /\ ~polling
  BY DEF Arrive, Committed
<1>6. Overlap \in Nat
  BY MailboxBounds
<1>7. CutoffIsPast' /\ n >= watermark - Overlap
  BY <1>1, <1>2, <1>4, <1>5, <1>6 DEF WindowInv, CutoffIsPast
<1>8. UnsettledMailIsReadAgain'
  BY <1>4, <1>5, <1>7 DEF WindowInv, UnsettledMailIsReadAgain, IsClientMail
<1> QED BY <1>5, <1>7, <1>8 DEF WindowInv, ScopeCovers

LEMMA StartPollCovers ==
  ASSUME IInv, WindowInv, StartPoll PROVE WindowInv'
<1>1. /\ Mail' = Mail /\ Committed' = Committed /\ dropped' = dropped /\ watermark' = watermark
      /\ unread' = (unread \union Ingested(Window)) \ FetchSince /\ scope' = FetchSince
      /\ \A i : (IsClientMail(i)' <=> IsClientMail(i)) /\ (SeenMessage(i)' <=> SeenMessage(i))
  BY DEF StartPoll, Mail, Committed, IsClientMail, SeenMessage, AlreadyProcessed
<1>2. \A i \in FetchSince : i >= watermark - Overlap
  BY DEF FetchSince, Ingested, ListIds, Window
<1>3. UnsettledMailIsReadAgain'
  BY <1>1, <1>2 DEF WindowInv, UnsettledMailIsReadAgain
<1>4. ScopeCovers'
  <2> SUFFICES ASSUME NEW i \in Mail, IsClientMail(i), ~SeenMessage(i), i \notin dropped
               PROVE  i \in FetchSince \union unread'
    BY <1>1 DEF ScopeCovers
  <2>1. i \notin Committed
    BY OnRecord DEF SeenMessage, AlreadyProcessed, IInv, ThreadsAgree
  <2>2. i \in unread \/ i >= watermark - Overlap
    BY <2>1 DEF WindowInv, UnsettledMailIsReadAgain
  <2>3. i >= watermark - Overlap => i \in Ingested(Window)
    BY DEF Ingested, Window
  <2> QED BY <1>1, <2>2, <2>3
<1>5. CutoffIsPast'
  BY DEF StartPoll, WindowInv, CutoffIsPast
<1> QED BY <1>3, <1>4, <1>5 DEF WindowInv

\* The cutoff stops at what the poll read and at the enquiries of the drafts.
LEMMA FinishPollKeepsWindow ==
  ASSUME IInv, WindowInv, NEW overdue \in SUBSET Overdue, NEW shown \in SUBSET overdue,
         NEW recorded \in SUBSET shown, NEW unsearchable \in SUBSET Searchable,
         NEW raised \in BOOLEAN, FinishPoll(overdue, recorded, shown, unsearchable, raised)
  PROVE  WindowInv'
<1> DEFINE w == AdvancedWatermark(Committed', desk')
<1>1. /\ Mail' = Mail /\ Len(inbox') = Len(inbox) /\ dropped' = dropped /\ unread' = unread
      /\ \A i : IsClientMail(i)' <=> IsClientMail(i)
      /\ polling /\ ~polling'
  BY DEF FinishPoll, Mail, IsClientMail
<1>2. Committed \subseteq Committed'
  BY FinishPollHolds
<1>3. watermark' = watermark \/ watermark' = w
  BY DEF FinishPoll, Committed
<1>4. ASSUME NEW r \in Ids
      PROVE  /\ desk'[r].enquiry \in Mail \union {0}
             /\ desk[r].state = "NEEDS_INFO" => desk'[r] = desk[r]
  <2>1. desk'[r].enquiry = desk[r].enquiry /\ (desk[r].state = "NEEDS_INFO" => desk'[r] = desk[r])
    BY FinishedOf
  <2> QED BY <2>1 DEF IInv, Typed, DraftsAgree
<1>5. /\ w \in Int
      /\ w = watermark \/ \E i \in Mail : w = Date(i)
      /\ scope = {} => w = watermark
      /\ scope # {} => \A d \in Uncommitted(Committed', desk') : w <= d
  BY <1>4, WatermarkIsADate DEF IInv
<1>6. watermark \in Int /\ Overlap \in Nat /\ Len(inbox) \in Nat
  BY MailboxBounds DEF IInv, Typed
<1>7. CutoffIsPast'
  <2>1. ASSUME NEW i \in Mail PROVE Date(i) <= Len(inbox) + Overlap
    <3>1. i \in 1 .. Len(inbox)
      BY DEF Mail, IInv, Typed
    <3> QED BY <1>6, <3>1, DateOf DEF IInv
  <2> HIDE DEF w
  <2> QED BY <1>1, <1>3, <1>5, <2>1 DEF WindowInv, CutoffIsPast
<1>8. UnsettledMailIsReadAgain'
  <2> SUFFICES ASSUME NEW i \in Mail, IsClientMail(i), i \notin Committed' \union dropped \union unread
               PROVE  i >= watermark' - Overlap
    BY <1>1 DEF UnsettledMailIsReadAgain
  <2>1. i >= watermark - Overlap
    BY <1>2 DEF WindowInv, UnsettledMailIsReadAgain
  <2>2. Date(i) \in Uncommitted(Committed', desk')
    <3>1. i \in scope \/ SeenMessage(i)
      BY <1>1 DEF WindowInv, ScopeCovers
    <3>2. i \in scope \/ \E r \in Ids : desk[r].state = "NEEDS_INFO" /\ desk[r].enquiry = i
      BY <1>2, <3>1 DEF IInv, SeenIsAccounted
    <3>3. i \in scope \/ \E r \in Ids : desk'[r].state = "NEEDS_INFO" /\ desk'[r].enquiry = i
      BY <1>4, <3>2
    <3>4. i # 0
      BY DateOf DEF IInv, Ids
    <3> QED BY <3>3, <3>4 DEF Uncommitted
  <2>3. i \in Int /\ Date(i) \in Int /\ Date(i) <= i + Overlap
    BY DateOf DEF IInv
  <2>4. w = watermark \/ w <= Date(i)
    BY <1>5, <2>2
  <2> HIDE DEF w
  <2> QED BY <1>3, <1>5, <1>6, <2>1, <2>3, <2>4
<1> QED BY <1>1, <1>7, <1>8 DEF WindowInv, ScopeCovers

LEMMA WindowStep == IInv /\ WindowInv /\ [Next]_vars => WindowInv'
<1> SUFFICES ASSUME IInv, WindowInv, [Next]_vars PROVE WindowInv'
  OBVIOUS
<1>0. Committed \subseteq Committed'
  BY StepCommits
<1>1. ASSUME ~polling', dropped \subseteq dropped', UNCHANGED <<inbox, watermark, unread>>
      PROVE  WindowInv'
  BY <1>0, <1>1, SameWindow DEF WindowInv, ScopeCovers
<1>2. ASSUME NEW i \in Mail, Place(i) PROVE WindowInv'
  <2>1. dropped \subseteq dropped' /\ UNCHANGED <<inbox, watermark, unread>>
    BY <1>2 DEF Place, Defer, HoldAfterFailure, RefuseAmbiguous, RecordAsSeen, SeenNotRecorded,
                RouteToDraft, RouteAndCommit, CommitRefused, EndsPoll, Keeps
  <2>2. polling' => scope' = scope /\ polling
    BY <1>2 DEF Place, Defer, HoldAfterFailure, RefuseAmbiguous, RecordAsSeen, SeenNotRecorded,
                RouteToDraft, RouteAndCommit, CommitRefused, EndsPoll, Keeps
  <2>3. UnsettledMailIsReadAgain' /\ CutoffIsPast'
    BY <1>0, <2>1, SameWindow
  <2>4. Mail' = Mail /\ \A j : IsClientMail(j)' <=> IsClientMail(j)
    BY <2>1 DEF Mail, IsClientMail
  <2>5. ScopeCovers'
    BY <1>2, <2>1, <2>2, <2>4, PlaceKeepsSeen DEF WindowInv, ScopeCovers
  <2> QED BY <2>3, <2>5 DEF WindowInv
<1>3. ASSUME UNCHANGED <<inbox, watermark, unread, dropped, scope, polling, routed, working>>
      PROVE  WindowInv'
  <2>1. Mail' = Mail /\ \A j : (IsClientMail(j)' <=> IsClientMail(j)) /\ (SeenMessage(j)' <=> SeenMessage(j))
    BY <1>3 DEF Mail, IsClientMail, SeenMessage, AlreadyProcessed
  <2> QED BY <1>0, <1>3, <2>1, SameWindow DEF WindowInv, ScopeCovers
<1>4. ASSUME NEW kind \in Kinds, NEW drift \in Drifts, NEW headers \in Headers(Len(inbox)),
             Arrive(kind, drift, headers)
      PROVE  WindowInv'
  BY <1>4, ArriveKeepsWindow
<1>5. CASE StartPoll
  BY <1>5, StartPollCovers
<1>6. CASE Finish
  BY <1>6, FinishPollKeepsWindow DEF Finish
<1>7. ASSUME NEW i \in Mail, HoldLapses(i) PROVE WindowInv'
  BY <1>3, <1>7 DEF HoldLapses
<1>8. ASSUME NEW r \in Ids,
             ApproveClarification(r) \/ ReleaseNotRecorded(r) \/ ReleaseReportedRefused(r)
      PROVE  WindowInv'
  BY <1>1, <1>8 DEF ApproveClarification, ReleaseNotRecorded, ReleaseReportedRefused, Released, HoldsDraft
<1>9. CASE Restart \/ SendThenCrash \/ CrashBetweenWrites
  BY <1>1, <1>9 DEF Restart, SendThenCrash, CrashBetweenWrites, RestartFrom
<1>10. CASE UNCHANGED vars
  BY <1>3, <1>10 DEF vars
<1> QED BY <1>2, <1>4, <1>5, <1>6, <1>7, <1>8, <1>9, <1>10 DEF Next

(* The cutoff never passes mail that still has to be handled: a client's   *)
(* message that is not on record, was not dropped, and was not left to a   *)
(* later read by a cap, is in the window of the next read, by this process *)
(* or by the one that replaces it.                                         *)
THEOREM UnsettledMailIsInTheWindow == Spec => []UnsettledMailIsReadAgain
<1>1. Init => WindowInv
  BY MailboxBounds DEF Init, WindowInv, UnsettledMailIsReadAgain, ScopeCovers, CutoffIsPast, Mail
<1>2. IInv /\ WindowInv /\ [Next]_vars => WindowInv'
  BY WindowStep
<1>3. WindowInv => UnsettledMailIsReadAgain
  BY DEF WindowInv
<1> QED BY <1>1, <1>2, <1>3, Invariance, PTL DEF Spec
=============================================================================

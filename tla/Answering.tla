----------------------------- MODULE Answering -----------------------------
(***************************************************************************)
(* What the desk promises its clients, whatever it does with its stores:   *)
(* a message is answered while it is not on durable record, and an answer  *)
(* that is not lost puts it there.  Mailbox implements this.               *)
(***************************************************************************)
EXTENDS Naturals

CONSTANT Messages

VARIABLES
    committed,  \* messages on durable record
    answers,    \* mails sent to the client because of each message
    lost        \* answers reported failed, or whose commit failed

vars == <<committed, answers, lost>>

Init ==
    /\ committed = {}
    /\ answers = [i \in Messages |-> 0]
    /\ lost = 0

Sends(i) ==
    /\ i \notin committed
    /\ answers' = [answers EXCEPT ![i] = @ + 1]

(* The answer goes out, and its message is committed with it.              *)
Answer(i) ==
    /\ Sends(i)
    /\ committed \subseteq committed' /\ i \in committed'
    /\ UNCHANGED lost

(* The answer goes out, and whoever sent it does not get to know that it   *)
(* did, or that it is on record.                                           *)
LoseAnswer(i) ==
    /\ Sends(i)
    /\ lost' = lost + 1
    /\ committed \subseteq committed'

(* Messages that need no answer are committed too.                         *)
Commit ==
    /\ committed \subseteq committed'
    /\ UNCHANGED <<answers, lost>>

(* A commit is lost that no answer waited for.                             *)
LoseCommit ==
    /\ lost' = lost + 1
    /\ committed \subseteq committed'
    /\ UNCHANGED answers

Next ==
    \/ \E i \in Messages : Answer(i) \/ LoseAnswer(i)
    \/ Commit
    \/ LoseCommit

Spec == Init /\ [][Next]_vars

(***************************************************************************)
(* Properties                                                              *)
(***************************************************************************)

(* However often the mailbox is re-read, across restarts and holds, one    *)
(* message makes the desk write to its client at most once, plus once for  *)
(* each answer of which the record was lost.                               *)
OneMailPerMessage == \A i \in Messages : answers[i] <= 1 + lost

(* An uncommitted message was answered by lost answers only.               *)
AnswerInv ==
    /\ answers \in [Messages -> Nat]
    /\ lost \in Nat
    /\ \A i \in Messages : answers[i] <= lost + (IF i \in committed THEN 1 ELSE 0)

(* Whatever is on record is never answered again.                          *)
RecordedIsNotAnswered == [][\A i \in committed : answers'[i] = answers[i]]_vars
=============================================================================

----------------------------- MODULE MCMailbox -----------------------------
(* The instance of Mailbox that TLC checks.                                *)
EXTENDS Mailbox

(* Conversations of three messages in which every kind of message occurs:  *)
(* an enquiry answered at once or in two mails, one that states nothing a  *)
(* shipment can have, and one behind mail that is none.                    *)
MCScripts == {<<"partial", "full", "partial">>,
              <<"invalid", "full", "chatter">>,
              <<"automated", "foreign", "partial">>}
=============================================================================

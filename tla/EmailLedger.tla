------------------------------ MODULE EmailLedger ------------------------------
(***************************************************************************)
(* What the ledger of reminder emails promises, whatever happens to the    *)
(* sweep that works on it: a schedule reaches one recipient at most, and   *)
(* an email recorded as sent, or suppressed because the work changed, is   *)
(* final: it is never mailed again and never becomes anything else.        *)
(***************************************************************************)
EXTENDS Naturals

CONSTANTS Schedule,        \* what an email can be about
          User,            \* whom it can be for
          MaxMails         \* bounds the mails the provider accepts for one key

Key == Schedule \X User

VARIABLES status,          \* EmailDelivery.status ("none": no row)
          mails            \* mails the provider accepted

ledgerVars == <<status, mails>>

Init ==
    /\ status = [k \in Key |-> "none"]
    /\ mails = [k \in Key |-> 0]

\* A claimed schedule gets its row.
Open(k) ==
    /\ \A j \in Key : j[1] = k[1] => status[j] = "none"
    /\ status' = [status EXCEPT ![k] = "pending"]
    /\ UNCHANGED mails

\* The provider accepts the mail, before anybody knows that it did.
Mail(k) ==
    /\ status[k] \in {"pending", "failed"}
    /\ mails[k] < MaxMails
    /\ mails' = [mails EXCEPT ![k] = mails[k] + 1]
    /\ UNCHANGED status

\* The outcome of an attempt: "sent" only after the provider accepted a mail.
Settle(k, outcome) ==
    /\ status[k] \in {"pending", "failed"}
    /\ outcome \in {"sent", "failed"}
    /\ outcome = "sent" => mails[k] > 0
    /\ status' = [status EXCEPT ![k] = outcome]
    /\ UNCHANGED mails

\* A failed email is given up because the work changed.
Suppress(k) ==
    /\ status[k] = "failed"
    /\ status' = [status EXCEPT ![k] = "suppressed"]
    /\ UNCHANGED mails

Next == \E k \in Key :
            \/ Open(k)
            \/ Mail(k)
            \/ \E outcome \in {"sent", "failed"} : Settle(k, outcome)
            \/ Suppress(k)

Spec == Init /\ [][Next]_ledgerVars
===============================================================================

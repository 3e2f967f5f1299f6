-------------------------------- MODULE Support -------------------------------
(***************************************************************************)
(* Support tickets: a customer's tab, the customer's and the operators'    *)
(* requests, each a read of the ticket and a later write, and the rows.    *)
(*                                                                         *)
(* The operators' console is another program: its requests come at any     *)
(* time and nobody looks at their answers here.  The notice of an          *)
(* operator's reply is a row written with the message under a key of its   *)
(* own and is delivered by Dispatch; its e-mail is not waited for.  What   *)
(* is said is left out, and so are the lists, which only read.             *)
(***************************************************************************)
EXTENDS Naturals, FiniteSets

CONSTANTS
    Ticket,         \* rows of support tickets
    Caller,         \* requests under way
    NoTicket,       \* no ticket: the list and the overview, which have the forms
    MaxWords,       \* bound: messages of a ticket
    MaxCloses       \* bound: times a ticket is closed

ASSUME SupportAssumption == /\ NoTicket \notin Ticket
                            /\ MaxWords \in Nat \ {0} /\ MaxCloses \in Nat

VARIABLES
    tickets,        \* the rows, with their messages counted
    calls,          \* the requests
    helpPage        \* the customer's tab

supportVars == <<tickets, calls, helpPage>>

TicketStatus == {"open", "waiting_on_customer", "resolved", "closed"}
\* closes: history, how often it was closed.
TicketRow == [status : {"none"} \cup TicketStatus, words : 0 .. MaxWords, closes : 0 .. MaxCloses]

\* `by': the component that asked is still "here", has "left" the screen, or
\* there is "none" to hear the answer.  `status' and `closes': as last read.
CallState == [op : {"none", "create", "feedback", "read", "reply", "resolve", "answer"},
              at : {"sent", "loaded", "written", "answered"}, ticket : Ticket \cup {NoTicket},
              status : {"none"} \cup TicketStatus, closes : 0 .. MaxCloses, by : {"here", "left", "none"}]
NoCall == [op |-> "none", at |-> "sent", ticket |-> NoTicket, status |-> "none", closes |-> 0, by |-> "none"]

\* `url': the ticket of the address.  `of', `status': the ticket the thread
\* shows.  The three texts: whether anything is written in that field.
Screen == [url : Ticket \cup {NoTicket}, of : Ticket \cup {NoTicket}, status : {"none"} \cup TicketStatus,
           failed : BOOLEAN, reply : BOOLEAN, message : BOOLEAN, feedback : BOOLEAN]
Blank == [url |-> NoTicket, of |-> NoTicket, status |-> "none",
          failed |-> FALSE, reply |-> FALSE, message |-> FALSE, feedback |-> FALSE]

SupportTypeOK ==
    /\ tickets \in [Ticket -> TicketRow]
    /\ calls \in [Caller -> CallState]
    /\ helpPage \in Screen

SupportInit ==
    /\ tickets = [t \in Ticket |-> [status |-> "none", words |-> 0, closes |-> 0]]
    /\ calls = [c \in Caller |-> NoCall]
    /\ helpPage = Blank

-----------------------------------------------------------------------------
Spare(c) == calls[c].op = "none"
Sends(c, op, t) == calls' = [calls EXCEPT ![c] = [NoCall EXCEPT !.op = op, !.ticket = t, !.by = "here"]]
Waits(op) == \E c \in Caller : calls[c].op = op /\ calls[c].by = "here"

\* The calls of components that leave the screen.
Leaving == [c \in Caller |-> IF calls[c].by = "here" THEN [calls[c] EXCEPT !.by = "left"] ELSE calls[c]]

(* The customer's tab. *)

WriteTicket ==
    /\ helpPage.url = NoTicket /\ ~helpPage.message
    /\ helpPage' = [helpPage EXCEPT !.message = TRUE]
    /\ UNCHANGED <<tickets, calls>>

\* The button rests while the ticket is sent.
OpenRequest(c) ==
    /\ helpPage.url = NoTicket /\ helpPage.message /\ ~Waits("create") /\ Spare(c)
    /\ Sends(c, "create", NoTicket)
    /\ UNCHANGED <<tickets, helpPage>>

WriteFeedback ==
    /\ helpPage.url = NoTicket /\ ~helpPage.feedback
    /\ helpPage' = [helpPage EXCEPT !.feedback = TRUE]
    /\ UNCHANGED <<tickets, calls>>

SendFeedback(c) ==
    /\ helpPage.url = NoTicket /\ helpPage.feedback /\ ~Waits("feedback") /\ Spare(c)
    /\ Sends(c, "feedback", NoTicket)
    /\ UNCHANGED <<tickets, helpPage>>

\* Another address.  From the forms a new thread is mounted; from a thread the
\* same one goes on, with what it shows and what is written in it.
Shown(t) == IF helpPage.url = NoTicket THEN [Blank EXCEPT !.url = t] ELSE [helpPage EXCEPT !.url = t]
ShowTicket(c, t) ==
    /\ tickets[t].status # "none" /\ helpPage.url # t /\ Spare(c)
    /\ helpPage' = Shown(t)
    /\ calls' = [(IF helpPage.url = NoTicket THEN Leaving ELSE calls)
                    EXCEPT ![c] = [NoCall EXCEPT !.op = "read", !.ticket = t, !.by = "here"]]
    /\ UNCHANGED tickets

ShowList ==
    /\ helpPage.url # NoTicket
    /\ helpPage' = Blank
    /\ calls' = Leaving
    /\ UNCHANGED tickets

\* A thread that has a ticket to show, and did not fail once.
Replies == helpPage.of # NoTicket /\ ~helpPage.failed /\ helpPage.status # "closed"

WriteReply ==
    /\ Replies /\ ~helpPage.reply
    /\ helpPage' = [helpPage EXCEPT !.reply = TRUE]
    /\ UNCHANGED <<tickets, calls>>

\* It goes to the ticket of the address.
SendReply(c) ==
    /\ Replies /\ helpPage.reply /\ ~Waits("reply") /\ Spare(c)
    /\ Sends(c, "reply", helpPage.url)
    /\ UNCHANGED <<tickets, helpPage>>

MarkSolved(c) ==
    /\ Replies /\ helpPage.status # "resolved" /\ Spare(c)
    /\ Sends(c, "resolve", helpPage.url)
    /\ UNCHANGED <<tickets, helpPage>>

(* The customer's requests. *)

CreateTicket(c, t) ==
    /\ calls[c].op \in {"create", "feedback"} /\ calls[c].at = "sent" /\ tickets[t].status = "none"
    /\ tickets' = [tickets EXCEPT ![t].status = "open", ![t].words = 1]
    /\ calls' = [calls EXCEPT ![c].at = "written", ![c].ticket = t]
    /\ UNCHANGED helpPage

\* Mutant: a reply is taken whatever the status.
LoadAnyTicket(c) ==
    /\ calls[c].op \in {"read", "reply", "resolve"} /\ calls[c].at = "sent"
    /\ calls' = [calls EXCEPT ![c].at = IF calls[c].op = "read" THEN "written" ELSE "loaded",
                              ![c].closes = tickets[calls[c].ticket].closes]
    /\ UNCHANGED <<tickets, helpPage>>

\* Their own ticket is read; a reply to a closed one is refused, and one that
\* is settled is not resolved again.
LoadOwnTicket(c) ==
    /\ calls[c].op \in {"read", "reply", "resolve"} /\ calls[c].at = "sent"
    /\ LET t == calls[c].ticket
           status == tickets[t].status IN
       /\ calls[c].op = "reply" => status # "closed"
       /\ IF calls[c].op = "read" \/ (calls[c].op = "resolve" /\ status \in {"resolved", "closed"})
          THEN calls' = [calls EXCEPT ![c].at = "written"]
          ELSE calls' = [calls EXCEPT ![c].at = "loaded", ![c].closes = tickets[t].closes]
    /\ UNCHANGED <<tickets, helpPage>>

ReplyToMyTicket(c) ==
    /\ calls[c].op = "reply" /\ calls[c].at = "loaded" /\ tickets[calls[c].ticket].words < MaxWords
    /\ tickets' = [tickets EXCEPT ![calls[c].ticket].status = "open", ![calls[c].ticket].words = @ + 1]
    /\ calls' = [calls EXCEPT ![c].at = "written", ![c].closes = 0]
    /\ UNCHANGED helpPage

ResolveMyTicket(c) ==
    /\ calls[c].op = "resolve" /\ calls[c].at = "loaded"
    /\ tickets' = [tickets EXCEPT ![calls[c].ticket].status = "resolved"]
    /\ calls' = [calls EXCEPT ![c].at = "written", ![c].closes = 0]
    /\ UNCHANGED helpPage

\* The answer of each is the ticket as it is then.
LoadWithMessages(c) ==
    /\ calls[c].at = "written"
    /\ calls' = [calls EXCEPT ![c].at = "answered", ![c].status = tickets[calls[c].ticket].status]
    /\ UNCHANGED <<tickets, helpPage>>

\* The answer comes.  Every thread paints what it gets, for whatever address it
\* asked; a ticket that was opened is shown, wherever the tab has gone since.
Answered(c) ==
    /\ calls[c].at = "answered" /\ calls[c].by # "none"
    /\ LET call == calls[c]
           painted == [helpPage EXCEPT !.of = call.ticket, !.status = call.status]
           here == call.by = "here" IN
       \/ /\ call.op \in {"read", "resolve"}
          /\ helpPage' = IF here THEN painted ELSE helpPage
          /\ calls' = [calls EXCEPT ![c] = NoCall]
       \/ /\ call.op = "reply"
          /\ helpPage' = IF here THEN [painted EXCEPT !.reply = FALSE] ELSE helpPage
          /\ calls' = [calls EXCEPT ![c] = NoCall]
       \/ /\ call.op = "feedback"
          /\ helpPage' = IF here THEN [helpPage EXCEPT !.feedback = FALSE] ELSE helpPage
          /\ calls' = [calls EXCEPT ![c] = NoCall]
       \/ /\ call.op = "create"
          /\ helpPage' = Shown(call.ticket)
          /\ calls' = [(IF helpPage.url = NoTicket THEN Leaving ELSE calls)
                          EXCEPT ![c] = [NoCall EXCEPT !.op = "read", !.ticket = call.ticket, !.by = "here"]]
    /\ UNCHANGED tickets

\* The call fails, or its answer is lost while the server goes on: what is
\* written stays, and a thread whose read failed shows only that.
CallFails(c) ==
    /\ calls[c].by # "none"
    /\ helpPage' = IF calls[c].by = "here" /\ calls[c].op = "read" THEN [helpPage EXCEPT !.failed = TRUE] ELSE helpPage
    /\ calls' = [calls EXCEPT ![c].by = "none"]
    /\ UNCHANGED tickets

\* A request nobody waits for ends: refused, answered, or lost with the server.
EndCall(c) ==
    /\ ~Spare(c) /\ calls[c].by = "none"
    /\ calls' = [calls EXCEPT ![c] = NoCall]
    /\ UNCHANGED <<tickets, helpPage>>

(* The operators' requests. *)

\* A ticket that becomes `status', with the history of its closings.
CountsClose(row, status) == IF status = "closed" /\ row.status # "closed" THEN row.closes + 1 ELSE row.closes
Becoming(row, status) == [row EXCEPT !.status = status, !.closes = CountsClose(row, status)]

LoadToReply(c, t) ==
    /\ Spare(c) /\ tickets[t].status \notin {"none", "closed"}
    /\ calls' = [calls EXCEPT ![c] = [NoCall EXCEPT !.op = "answer", !.at = "loaded", !.ticket = t,
                                                    !.closes = tickets[t].closes]]
    /\ UNCHANGED <<tickets, helpPage>>

ReplyToTicket(c, status) ==
    /\ calls[c].op = "answer" /\ calls[c].at = "loaded"
    /\ LET t == calls[c].ticket IN
       /\ tickets[t].words < MaxWords /\ CountsClose(tickets[t], status) <= MaxCloses
       /\ tickets' = [tickets EXCEPT ![t] = [Becoming(tickets[t], status) EXCEPT !.words = @ + 1]]
    /\ calls' = [calls EXCEPT ![c] = NoCall]
    /\ UNCHANGED helpPage

UpdateTicketStatus(t, status) ==
    /\ tickets[t].status # "none" /\ CountsClose(tickets[t], status) <= MaxCloses
    /\ tickets' = [tickets EXCEPT ![t] = Becoming(tickets[t], status)]
    /\ UNCHANGED <<calls, helpPage>>

-----------------------------------------------------------------------------
TicketPage(c) ==
    \/ OpenRequest(c) \/ SendFeedback(c) \/ SendReply(c) \/ MarkSolved(c)
    \/ Answered(c) \/ CallFails(c)
    \/ \E t \in Ticket : ShowTicket(c, t)

TicketService(c) ==
    \/ LoadOwnTicket(c) \/ ReplyToMyTicket(c) \/ ResolveMyTicket(c) \/ LoadWithMessages(c) \/ EndCall(c)
    \/ \E t \in Ticket : CreateTicket(c, t) \/ LoadToReply(c, t)
    \/ \E status \in TicketStatus : ReplyToTicket(c, status)

SupportNext ==
    \/ WriteTicket \/ WriteFeedback \/ WriteReply \/ ShowList
    \/ \E c \in Caller : TicketPage(c) \/ TicketService(c)
    \/ \E t \in Ticket, status \in TicketStatus : UpdateTicketStatus(t, status)

SupportSpec == SupportInit /\ [][SupportNext]_supportVars

-----------------------------------------------------------------------------
\* A closed ticket takes no more messages and stays closed until an operator
\* changes its status, but for a request that read it before it was closed and
\* writes after (support.controller.ts:84-91, adminSupport.controller.ts:101-110).
ClosedBefore(c, t) == calls[c].ticket = t /\ calls[c].at = "loaded" /\ calls[c].closes < tickets[t].closes
StaysClosed ==
    [][\A t \in Ticket : tickets[t].status = "closed" =>
          \/ tickets'[t] = tickets[t]
          \/ tickets'[t].words = tickets[t].words /\ UNCHANGED calls
          \/ \E c \in Caller : ClosedBefore(c, t) /\ calls'[c] # calls[c]]_supportVars
===============================================================================

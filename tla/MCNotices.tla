------------------------------ MODULE MCNotices ------------------------------
(***************************************************************************)
(* Small instances of Dispatch and Inbox for TLC, one beside the other: a  *)
(* scenario, chosen at the start, says which of them moves and what may    *)
(* happen in it.                                                           *)
(*   dispatching   two instances, three notifications, a batch of one      *)
(*   registering   one notification, a browser shared by two accounts      *)
(*   reading       the badge and the inbox                                 *)
(***************************************************************************)
EXTENDS Dispatch, Inbox, TLC

CONSTANTS
    Receiver,   \* whom the notifications are for
    Instance    \* who dispatches when registering

VARIABLE scenario

noticesVars == <<dispatchVars, inboxVars, scenario>>

NoticesInit ==
    /\ DispatchInit /\ InboxInit
    /\ scenario \in {"dispatching", "registering", "reading"}

OnlyFor(u) == \A n \in Note : note'[n].to \in {u, Nobody}
OnlyFirst  == \A n \in Note : note'[n].stage # "old" /\ (n > 1 => note'[n].stage = "unborn")

\* Older items while nothing else is marked; only loads and counts outlive their page.
FewCalls ==
    \A c \in Call :
      /\ call'[c].kind = "older" => ~inbox'.marking
      /\ call'[c].kind \in {"older", "mark", "all"} => call'[c].here

\* An empty dispatch, which changes nothing, need not be taken again and again.
HasWork(d) == dispatcher[d].at # "idle" \/ Pending # {}

FirstReadElsewhere ==
    \A n \in Item : (row'[n] = "read" /\ row[n] # "read") => n = 1 \/ call' # call

Allowed ==
    CASE scenario = "dispatching" -> OnlyFor(Receiver) /\ UNCHANGED <<browser, pushOn>>
      [] scenario = "registering" ->
           /\ OnlyFor(Receiver) /\ OnlyFirst /\ UNCHANGED failures
           /\ \A d \in Dispatcher : d # Instance \/ ~HasWork(d) => UNCHANGED dispatcher[d]
           /\ \A b \in Browser : browser'[b].leaving = "off" => browser'[b].user = Receiver
      [] OTHER -> UNCHANGED dispatchVars /\ FewCalls /\ FirstReadElsewhere

NoticesNext ==
    /\ \/ DispatchNext /\ UNCHANGED inboxVars
       \/ scenario = "reading" /\ InboxNext /\ UNCHANGED dispatchVars
    /\ Allowed
    /\ UNCHANGED scenario

\* The fairness of both components, for what moves in the scenario.
Dispatches(d) ==
    /\ scenario # "reading" /\ (scenario = "registering" => d = Instance /\ HasWork(d))
    /\ DispatchStep(d)
Reads(action) == scenario = "reading" /\ action

NoticesSpec ==
    /\ NoticesInit /\ [][NoticesNext]_noticesVars
    /\ \A d \in Dispatcher : WF_dispatchVars(Dispatches(d))
    /\ SF_inboxVars(Reads(\E c \in Call : RefreshUnread(c)))
    /\ \A c \in Call : WF_inboxVars(Reads(Completes(c)))

===============================================================================

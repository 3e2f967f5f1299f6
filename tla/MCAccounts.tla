------------------------------ MODULE MCAccounts ------------------------------
(***************************************************************************)
(* Small instances of Session, Registration, OperatorConsole, Newsletter,  *)
(* Import and Support for TLC.  They share no state, so a behaviour        *)
(* follows one scenario, chosen at the start, and leaves the rest as it    *)
(* began: the run explores the sum of their state spaces and not the       *)
(* product.                                                                *)
(***************************************************************************)
EXTENDS Session, Registration, OperatorConsole, Newsletter, Import, Support, TLC

VARIABLE scenario

accountVars == <<sessionVars, registrationVars, consoleVars, newsletterVars,
                 importVars, supportVars, scenario>>

\* What a page may do in each of the two scenarios that are about sessions.
PageOps == [rotating  |-> {"none", "ask", "login", "logout"},
            passwords |-> {"none", "login", "reset", "change"}]

AccountsInit ==
    /\ SessionInit /\ RegistrationInit /\ ConsoleInit /\ NewsletterInit /\ ImportInit
    /\ SupportInit
    /\ scenario \in {"rotating", "passwords", "registering", "operating", "mailing", "importing",
                    "helping"}
    /\ scenario # "importing" => mongo.users = NoUsers /\ mongo.tasks = NoTasks

InSession == /\ SessionNext
             /\ \A t \in Tab : page'[t].op \in PageOps[scenario]
             /\ scenario = "rotating" => account' = account

\* Address 1 subscribes by an account, the others by the website.
ByRoute == \A a \in Address :
             /\ a # 1 => holder'[a] = "none"
             /\ a = 1 => \A f \in Form : form'[f].address = 1 => form'[f].op # "visit"

\* Feedback opens the first ticket; a second one is read, answered to no more
\* and never closed.
Opened == {t \in Ticket : tickets'[t].status # "none"}
Briefly == /\ helpPage'.feedback => Opened = {} /\ ~helpPage'.message
           /\ Cardinality(Opened) > 1 => \A t \in Opened : tickets'[t].words = 1 /\ tickets'[t].closes = 0

AccountsNext ==
    /\ \/ scenario \in DOMAIN PageOps /\ InSession
       \/ scenario = "registering" /\ RegistrationNext
       \/ scenario = "operating" /\ ConsoleNext
       \/ scenario = "mailing" /\ NewsletterNext /\ ByRoute
       \/ scenario = "importing" /\ ImportNext
       \/ scenario = "helping" /\ SupportNext /\ Briefly
    /\ scenario \notin DOMAIN PageOps => UNCHANGED sessionVars
    /\ scenario # "registering" => UNCHANGED registrationVars
    /\ scenario # "operating" => UNCHANGED consoleVars
    /\ scenario # "mailing" => UNCHANGED newsletterVars
    /\ scenario # "importing" => UNCHANGED importVars
    /\ scenario # "helping" => UNCHANGED supportVars
    /\ UNCHANGED scenario

AccountsSpec == AccountsInit /\ [][AccountsNext]_accountVars

\* One set of values stands for the processes of each module, another for its
\* rows, so that there are few symmetries to try.
Symmetric == Permutations(Page) \cup Permutations(SessionId)
===============================================================================

------------------------------ MODULE TaskFilters ------------------------------
(***************************************************************************)
(* The search and filters over a list of tasks.  Filters live in the URL;  *)
(* the search box keeps a draft of its own and writes it after a pause.    *)
(* The URL changes at once, what the page renders of it a moment later     *)
(* (useSearchParams follows history.replaceState in a transition), and     *)
(* links, the back button and "Clear filters" change it from outside.      *)
(***************************************************************************)
EXTENDS FiniteSets

CONSTANTS
    Term,       \* what may be searched for
    NoTerm,     \* an empty search
    Choice,     \* values of the other filters, told apart as one filter
    NoChoice    \* that filter not set

VARIABLES
    url,        \* the query of the URL
    rendered,   \* the query the page was last rendered with
    box,        \* the search box
    chosen,     \* ghost: the query the person asked for
    raced       \* ghost: the box was typed into around a change from outside

filterVars == <<url, rendered, box, chosen, raced>>

Terms == Term \cup {NoTerm}
Query == [q : Terms, filter : Choice \cup {NoChoice}]
Unfiltered == [q |-> NoTerm, filter |-> NoChoice]

\* `written': what the box last wrote to the URL or took from it; `timer': the
\* pause after typing is running.
Box == [draft : Terms, written : Terms, timer : BOOLEAN]

FiltersTypeOK == /\ {url, rendered, chosen} \subseteq Query
                 /\ box \in Box /\ raced \in BOOLEAN
                 /\ box.timer = (box.draft # box.written)

Unsettled == box.timer \/ rendered # url

-----------------------------------------------------------------------------
\* Every keystroke starts the pause again, unless nothing is left to write.
TypeTerm(term) ==
    /\ term # box.draft
    /\ box' = [box EXCEPT !.draft = term, !.timer = term # box.written]
    /\ chosen' = [chosen EXCEPT !.q = term]
    /\ raced' = (raced \/ (url.q # rendered.q /\ url.q # box.written))
    /\ UNCHANGED <<url, rendered>>

\* setParams reads the URL when it is called and changes its own parameters.
Changed(key, value) == [url EXCEPT ![key] = value]

WriteTerm ==
    /\ box.timer
    /\ url' = Changed("q", box.draft)
    /\ box' = [box EXCEPT !.written = box.draft, !.timer = FALSE]
    /\ UNCHANGED <<rendered, chosen, raced>>

ChooseFilter(c) ==
    /\ c # rendered.filter
    /\ url' = Changed("filter", c)
    /\ chosen' = [chosen EXCEPT !.filter = c]
    /\ UNCHANGED <<rendered, box, raced>>

\* The whole query changes: "Clear filters", a link, or the back button.
ChangeOutside(query) ==
    /\ query # url
    /\ url' = query /\ chosen' = query
    /\ raced' = (raced \/ Unsettled)
    /\ UNCHANGED <<rendered, box>>

ClearFilters == rendered # Unfiltered /\ ChangeOutside(Unfiltered)

\* The box takes over a search that changed, if it is not the one it wrote.
AdoptsAny(q) == q # rendered.q

Adopts(q) == q # rendered.q /\ q # box.written

RenderQuery ==
    /\ rendered # url
    /\ rendered' = url
    /\ box' = IF Adopts(url.q) THEN [draft |-> url.q, written |-> url.q, timer |-> FALSE] ELSE box
    /\ UNCHANGED <<url, chosen, raced>>

-----------------------------------------------------------------------------
\* The page opens with the query of a link.
FiltersInit ==
    /\ url \in Query /\ rendered = url /\ chosen = url
    /\ box = [draft |-> url.q, written |-> url.q, timer |-> FALSE]
    /\ raced = FALSE

FiltersNext ==
    \/ \E term \in Terms : TypeTerm(term)
    \/ WriteTerm
    \/ \E c \in Choice \cup {NoChoice} : ChooseFilter(c)
    \/ ClearFilters
    \/ \E query \in Query : ChangeOutside(query)
    \/ RenderQuery

FiltersSpec == FiltersInit /\ [][FiltersNext]_filterVars

-----------------------------------------------------------------------------
\* Once the pause is over and the page rendered, the URL and the box hold what
\* the person typed and chose: no write of the box drops a filter chosen
\* meanwhile, and none comes back to overwrite what was typed after it
\* (TaskFilterBar.tsx:51-54, useTaskFilters.ts:59-63).  Typing just before a
\* change from outside, or before that change is rendered, is excepted.
FiltersAsChosen == ~Unsettled /\ ~raced => url = chosen /\ box.draft = chosen.q
===============================================================================

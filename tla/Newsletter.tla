------------------------------ MODULE Newsletter ------------------------------
(***************************************************************************)
(* The newsletter: who is subscribed to it, by which route, and how the    *)
(* sweeps of several server instances mail a published post in batches.    *)
(*                                                                         *)
(* Sources (under src/server/src): services/newsletterService.ts,          *)
(* controllers/newsletter.controller.ts and                                *)
(* controllers/adminNewsletter.controller.ts.                              *)
(*                                                                         *)
(* Left out: what a post says and its corrections, the audit records, and  *)
(* the time for which a confirmation link is good.                         *)
(***************************************************************************)
EXTENDS Naturals, FiniteSets, FiniteSetsExt

CONSTANTS
    MaxAddress,   \* email addresses are 1 .. MaxAddress, in the order of their row ids
    Post,         \* newsletter posts
    Sweep,        \* sweeps running at the same time, one per server instance
    Form,         \* subscription requests in flight at the same time
    BatchSize,    \* NEWSLETTER_BATCH_SIZE
    MaxBroken     \* bounds the sweeps that die

ASSUME NewsletterAssumption ==
    /\ MaxAddress \in Nat /\ MaxBroken \in Nat /\ BatchSize \in Nat \ {0}

VARIABLES
    holder,      \* the account of each address
    subscriber,  \* the NewsletterSubscriber row of each address
    invited,     \* the addresses a confirmation link was mailed to
    post,        \* the NewsletterPost rows
    delivery,    \* the NewsletterDelivery rows
    form,        \* the subscription requests in flight
    sweep,       \* the sweeps
    tries,       \* how often a post was handed to the provider for an address
    since,       \* history: who was subscribed when a post was published and stayed so
    broken       \* sweeps that died

newsletterVars == <<holder, subscriber, invited, post, delivery, form, sweep, tries, since, broken>>
readers  == <<holder, subscriber, invited, form, since>>
sweeping == <<delivery, sweep, tries, broken>>

-------------------------------------------------------------------------------

Address == 1 .. MaxAddress

\* `linked': the row's userId is the account of its address.
SubscriberRow == [status : {"none", "pending", "subscribed", "unsubscribed"}, linked : BOOLEAN]
Unknown       == [status |-> "none", linked |-> FALSE]

PostRow == [status : {"unborn", "draft", "published", "deleted"}, email : BOOLEAN,
            completed : BOOLEAN]
NoPost  == [status |-> "unborn", email |-> FALSE, completed |-> FALSE]

\* What a request read: whether there was a row.
NoForm == [op |-> "none", address |-> 0, found |-> FALSE]

\* `posts' and `batch' are what the sweep read and has not come to; `short': the batch
\* was not full, so nobody was left.
Asleep == [at |-> "asleep", posts |-> {}, post |-> 0, batch |-> {}, short |-> FALSE,
           now |-> 0, outcome |-> "pending"]

NewsletterTypeOK ==
    /\ holder \in [Address -> {"none", "unverified", "verified"}]
    /\ subscriber \in [Address -> SubscriberRow]
    /\ invited \subseteq Address
    /\ post \in [Post -> PostRow]
    /\ delivery \in [Post \X Address -> {"none", "pending", "sent", "failed"}]
    /\ \A f \in Form : form[f] # NoForm =>
         form[f].op \in {"visit", "on", "off"} /\ form[f].address \in Address
    /\ \A w \in Sweep :
         /\ sweep[w].at \in {"asleep", "posts", "claiming", "sending", "answered"}
         /\ sweep[w].posts \subseteq Post /\ sweep[w].batch \subseteq Address
         /\ sweep[w].at \in {"sending", "answered"} =>
              delivery[sweep[w].post, sweep[w].now] = "pending"
    /\ \A p \in Post : since[p] # {} => post[p].status = "published"

NewsletterInit ==
    /\ holder = [a \in Address |-> "none"]
    /\ subscriber = [a \in Address |-> Unknown]
    /\ invited = {}
    /\ post = [p \in Post |-> NoPost]
    /\ delivery = [d \in Post \X Address |-> "none"]
    /\ form = [f \in Form |-> NoForm]
    /\ sweep = [w \in Sweep |-> Asleep]
    /\ tries = [d \in Post \X Address |-> 0]
    /\ since = [p \in Post |-> {}]
    /\ broken = 0

-------------------------------------------------------------------------------
(* Subscribing and unsubscribing *)

Subscribed(a) == subscriber[a].status = "subscribed"

\* The row of a becomes r; who is not subscribed any more has not stayed so.
Becomes(a, r) ==
    /\ subscriber' = [subscriber EXCEPT ![a] = r]
    /\ since' = IF r.status = "subscribed" THEN since
                ELSE [p \in Post |-> since[p] \ {a}]

\* recordSignupOptIn, as the account is created with the box ticked or not.
SignUp(a, optIn) ==
    /\ holder[a] = "none"
    /\ holder' = [holder EXCEPT ![a] = "unverified"]
    /\ IF optIn
       THEN Becomes(a, [status |-> IF subscriber[a] = Unknown THEN "pending"
                                   ELSE subscriber[a].status,
                        linked |-> TRUE])
       ELSE UNCHANGED <<subscriber, since>>
    /\ UNCHANGED <<invited, post, form, sweeping>>

\* confirmSignupOptIn, once the address is verified.
ConfirmSignupOptIn(a) ==
    /\ holder[a] = "unverified"
    /\ holder' = [holder EXCEPT ![a] = "verified"]
    /\ IF subscriber[a].linked /\ subscriber[a].status = "pending"
       THEN Becomes(a, [status |-> "subscribed", linked |-> TRUE])
       ELSE UNCHANGED <<subscriber, since>>
    /\ UNCHANGED <<invited, post, form, sweeping>>

\* subscribeVisitor and setAccountSubscription read the row and write in another
\* statement.  A visitor's address that is subscribed needs nothing.
ReadSubscriber(f, op, a) ==
    /\ form[f] = NoForm
    /\ IF op = "visit" THEN ~Subscribed(a) ELSE holder[a] = "verified"
    /\ form' = [form EXCEPT ![f] = [op |-> op, address |-> a, found |-> subscriber[a] # Unknown]]
    /\ UNCHANGED <<holder, subscriber, invited, since, post, sweeping>>

\* The write is by id, whatever the row has become; one that was created meanwhile
\* makes the request fail, for the address is unique.
WriteSubscriber(f) ==
    LET q == form[f]
        a == q.address
        status == CASE q.op = "visit" -> "pending"
                    [] q.op = "on"    -> "subscribed"
                    [] OTHER          -> "unsubscribed"
        creates == q.op # "off" /\ subscriber[a] = Unknown
    IN
    /\ q # NoForm
    /\ IF q.found \/ creates
       THEN Becomes(a, [status |-> status, linked |-> subscriber[a].linked \/ q.op # "visit"])
       ELSE UNCHANGED <<subscriber, since>>
    /\ invited' = IF q.op = "visit" /\ (q.found \/ creates) THEN invited \cup {a} ELSE invited
    /\ form' = [form EXCEPT ![f] = NoForm]
    /\ UNCHANGED <<holder, post, sweeping>>

\* The link of the confirmation email.
ConfirmSubscriber(a) ==
    /\ a \in invited
    /\ Becomes(a, [subscriber[a] EXCEPT !.status = "subscribed"])
    /\ UNCHANGED <<holder, invited, form, post, sweeping>>

\* The link in every newsletter email.
Unsubscribe(a) ==
    /\ \E p \in Post : tries[p, a] > 0
    /\ Becomes(a, [subscriber[a] EXCEPT !.status = "unsubscribed"])
    /\ UNCHANGED <<holder, invited, form, post, sweeping>>

-------------------------------------------------------------------------------
(* Posts *)

CreatePost(p) ==
    /\ post[p].status = "unborn"
    /\ post' = [post EXCEPT ![p].status = "draft"]
    /\ UNCHANGED <<readers, sweeping>>

DeleteDraft(p) ==
    /\ post[p].status = "draft"
    /\ post' = [post EXCEPT ![p].status = "deleted"]
    /\ UNCHANGED <<readers, sweeping>>

PublishPost(p, email) ==
    /\ post[p].status = "draft"
    /\ post' = [post EXCEPT ![p] = [status |-> "published", email |-> email, completed |-> FALSE]]
    /\ since' = [since EXCEPT ![p] = {a \in Address : Subscribed(a)}]
    /\ UNCHANGED <<holder, subscriber, invited, form, sweeping>>

-------------------------------------------------------------------------------
(* runNewsletterSweep and sendPostToBatch *)

Turns(w, state) == sweep' = [sweep EXCEPT ![w] = state]

StartSweep(w) ==
    LET posts == {p \in Post : post[p].status = "published" /\ post[p].email /\ ~post[p].completed}
    IN
    /\ sweep[w] = Asleep /\ posts # {}
    /\ Turns(w, [Asleep EXCEPT !.at = "posts", !.posts = posts])
    /\ UNCHANGED <<readers, post, delivery, tries, broken>>

Waiting(p) == {a \in Address : Subscribed(a) /\ delivery[p, a] = "none"}
FirstOf(S) == {a \in S : Cardinality({b \in S : b <= a}) <= BatchSize}

\* Mutant: a full batch counts as the last one.
LastBatch(batch) == Cardinality(batch) <= BatchSize

NobodyLeft(batch) == Cardinality(batch) < BatchSize

\* The posts in the order they were published, which is left open here.
ReadBatch(w, p) ==
    LET batch == FirstOf(Waiting(p)) IN
    /\ sweep[w].at = "posts" /\ p \in sweep[w].posts
    /\ Turns(w, [sweep[w] EXCEPT !.at = "claiming", !.posts = sweep[w].posts \ {p},
                                 !.post = p, !.batch = batch, !.short = NobodyLeft(batch)])
    /\ UNCHANGED <<readers, post, delivery, tries, broken>>

\* The row that claims an address is unique: another sweep may have been first.
ClaimRecipient(w) ==
    LET p == sweep[w].post
        a == Min(sweep[w].batch)
        rest == [sweep[w] EXCEPT !.batch = sweep[w].batch \ {a}]
    IN
    /\ sweep[w].at = "claiming" /\ sweep[w].batch # {}
    /\ IF delivery[p, a] = "none"
       THEN /\ delivery' = [delivery EXCEPT ![<<p, a>>] = "pending"]
            /\ Turns(w, [rest EXCEPT !.at = "sending", !.now = a])
       ELSE /\ UNCHANGED delivery
            /\ Turns(w, rest)
    /\ UNCHANGED <<readers, post, tries, broken>>

\* The provider takes the mail or not; whatever fails from here on, the row says so
\* and it is not tried again.
MailPost(w, outcome) ==
    LET d == <<sweep[w].post, sweep[w].now>> IN
    /\ sweep[w].at = "sending"
    /\ tries' = [tries EXCEPT ![d] = tries[d] + 1]
    /\ Turns(w, [sweep[w] EXCEPT !.at = "answered", !.outcome = outcome])
    /\ UNCHANGED <<readers, post, delivery, broken>>

RecordMail(w) ==
    /\ sweep[w].at = "answered"
    /\ delivery' = [delivery EXCEPT ![<<sweep[w].post, sweep[w].now>>] = sweep[w].outcome]
    /\ Turns(w, [sweep[w] EXCEPT !.at = "claiming", !.now = 0, !.outcome = "pending"])
    /\ UNCHANGED <<readers, post, tries, broken>>

FinishPost(w) ==
    LET p == sweep[w].post IN
    /\ sweep[w].at = "claiming" /\ sweep[w].batch = {}
    /\ post' = IF sweep[w].short THEN [post EXCEPT ![p].completed = TRUE] ELSE post
    /\ Turns(w, IF sweep[w].posts = {} THEN Asleep
                ELSE [Asleep EXCEPT !.at = "posts", !.posts = sweep[w].posts])
    /\ UNCHANGED <<readers, delivery, tries, broken>>

\* The process dies or a query fails: the next sweep starts over.
SweepDies(w) ==
    /\ sweep[w] # Asleep /\ broken < MaxBroken
    /\ broken' = broken + 1
    /\ Turns(w, Asleep)
    /\ UNCHANGED <<readers, post, delivery, tries>>

-------------------------------------------------------------------------------

ReaderStep ==
    \/ \E a \in Address : \/ \E optIn \in BOOLEAN : SignUp(a, optIn)
                          \/ ConfirmSignupOptIn(a) \/ ConfirmSubscriber(a) \/ Unsubscribe(a)
    \/ \E f \in Form : \/ \E op \in {"visit", "on", "off"}, a \in Address : ReadSubscriber(f, op, a)
                       \/ WriteSubscriber(f)

PostStep(p) ==
    CreatePost(p) \/ DeleteDraft(p) \/ \E email \in BOOLEAN : PublishPost(p, email)

SweepStep(w) ==
    \/ StartSweep(w) \/ \E p \in Post : ReadBatch(w, p)
    \/ ClaimRecipient(w) \/ \E outcome \in {"sent", "failed"} : MailPost(w, outcome)
    \/ RecordMail(w) \/ FinishPost(w) \/ SweepDies(w)

NewsletterNext ==
    \/ ReaderStep
    \/ \E p \in Post : PostStep(p)
    \/ \E w \in Sweep : SweepStep(w)

NewsletterSpec == NewsletterInit /\ [][NewsletterNext]_newsletterVars

-------------------------------------------------------------------------------
(* What must hold *)

\* Whatever sweeps overlap or die and whoever comes and goes meanwhile, a post is mailed
\* to an address at most once ("overlapping sweeps or a retry never email anyone twice",
\* newsletterService.ts:115-117), and one marked completed left out nobody who was
\* subscribed when it was published and stayed so.
EveryoneOnce ==
    \A p \in Post, a \in Address :
      /\ tries[p, a] <= 1
      /\ (post[p].completed /\ a \in since[p]) => delivery[p, a] # "none"
===============================================================================

----------------------------- MODULE NoticeProofs -----------------------------
(***************************************************************************)
(* Proofs about what goes out to people and comes back from them: the      *)
(* newsletter, the dispatch of notifications, and the inbox, for any       *)
(* numbers of addresses, posts, notifications, browsers and processes, any *)
(* batch size, and any of them that die.                                   *)
(***************************************************************************)
EXTENDS Newsletter, Dispatch, Inbox, Integers, FiniteSetTheorems, WellFoundedInduction, TLAPS

-------------------------------------------------------------------------------
(* The least element, and the batch an ORDER BY with a LIMIT returns *)

\* A set of naturals that is not empty has a least element.
LEMMA LeastExists ==
  ASSUME NEW S \in SUBSET Nat, S # {}
  PROVE  \E x \in S : \A y \in S : x <= y
<1> DEFINE R == OpToRel(<, Nat)
<1>1. IsWellFoundedOn(R, Nat)
  BY NatLessThanWellFounded
<1> HIDE DEF R
<1>2. PICK x \in S : \A y \in S : ~ (<<y, x>> \in R)
  BY <1>1, WFMin
<1>3. \A y \in S : ~ (y < x)
  BY <1>2 DEF R, OpToRel
<1> QED
  BY <1>2, <1>3

\* Min returns it.
LEMMA MinLeast ==
  ASSUME NEW S \in SUBSET Nat, S # {}
  PROVE  Min(S) \in S /\ \A y \in S : Min(S) <= y
  BY LeastExists DEF Min

\* A batch of the k first elements that is not full is the whole set.
LEMMA ShortBatch ==
  ASSUME NEW k \in Nat, NEW n \in Nat, NEW S \in SUBSET (1 .. n),
         Cardinality({x \in S : Cardinality({y \in S : y <= x}) <= k}) < k
  PROVE  {x \in S : Cardinality({y \in S : y <= x}) <= k} = S
<1> DEFINE upTo(x) == {y \in S : y <= x}
           batch == {x \in S : Cardinality(upTo(x)) <= k}
           late  == S \ batch
<1>1. IsFiniteSet(S) /\ S \in SUBSET Nat
  <2>1. 1 \in Int /\ n \in Int
    OBVIOUS
  <2>2. IsFiniteSet(1 .. n)
    BY <2>1, FS_Interval
  <2>3. IsFiniteSet(S)
    BY <2>2, FS_Subset
  <2>4. S \in SUBSET Nat
    OBVIOUS
  <2> QED
    BY <2>3, <2>4
<1>2. \A x \in S : IsFiniteSet(upTo(x)) /\ Cardinality(upTo(x)) \in Nat
  BY <1>1, FS_Subset, FS_CardinalityType
<1>3. SUFFICES ASSUME late # {} PROVE FALSE
  OBVIOUS
<1>4. PICK z \in late : \A y \in late : z <= y
  BY <1>1, <1>3, LeastExists
<1>5. Cardinality(upTo(z)) > k
  BY <1>2, <1>4
<1>6. upTo(z) \ {z} \in SUBSET batch
  <2> SUFFICES ASSUME NEW y \in S, y <= z, y # z PROVE y \in batch
    OBVIOUS
  <2>1. y \in Nat /\ z \in Nat
    BY <1>1, <1>4
  <2>2. ~ (z <= y)
    BY <2>1
  <2> QED
    BY <1>4, <2>2
<1>7. IsFiniteSet(batch) /\ Cardinality(batch) \in Nat
  BY <1>1, FS_Subset, FS_CardinalityType
<1>8. Cardinality(upTo(z) \ {z}) = Cardinality(upTo(z)) - 1
  BY <1>1, <1>2, <1>4, FS_RemoveElement
<1>9. Cardinality(upTo(z) \ {z}) <= Cardinality(batch)
  BY <1>6, <1>7, FS_Subset
<1> QED
  BY <1>2, <1>4, <1>5, <1>7, <1>8, <1>9

-------------------------------------------------------------------------------
(* Newsletter: mailed once, to everyone who stayed *)

-------------------------------------------------------------------------------
(* What every step keeps *)

SweepRow == [at : {"asleep", "posts", "claiming", "sending", "answered"},
             posts : SUBSET Post, post : Post \cup {0}, batch : SUBSET Address,
             short : BOOLEAN, now : 0 .. MaxAddress, outcome : {"pending", "sent", "failed"}]
FormRow  == [op : {"none", "visit", "on", "off"}, address : 0 .. MaxAddress, found : BOOLEAN]

\* The rows are well-formed, and so are the sweeps.
RowsOK ==
    /\ subscriber \in [Address -> SubscriberRow]
    /\ post \in [Post -> PostRow]
    /\ delivery \in [Post \X Address -> {"none", "pending", "sent", "failed"}]
    /\ tries \in [Post \X Address -> Nat]
    /\ since \in [Post -> SUBSET Address]
    /\ sweep \in [Sweep -> SweepRow]

\* A request is about an address.
FormsOK ==
    /\ form \in [Form -> FormRow]
    /\ \A f \in Form : form[f] # NoForm => form[f].address \in Address

Busy(w) == sweep[w].at \in {"claiming", "sending", "answered"}
Holds(w) == sweep[w].at \in {"sending", "answered"}

\* Sweeps work on published posts only.
OnPublished ==
    \A w \in Sweep :
      /\ sweep[w].at # "asleep" => \A p \in sweep[w].posts : post[p].status = "published"
      /\ Busy(w) => sweep[w].post \in Post /\ post[sweep[w].post].status = "published"

\* Who mails a post to an address has claimed it, and nobody has mailed it before.
ClaimedFirst ==
    \A w \in Sweep : Holds(w) =>
      /\ sweep[w].now \in Address
      /\ delivery[<<sweep[w].post, sweep[w].now>>] # "none"
      /\ sweep[w].at = "sending" => tries[<<sweep[w].post, sweep[w].now>>] = 0

\* A claim is one sweep's.
ClaimedByOne ==
    \A w, v \in Sweep :
      (Holds(w) /\ Holds(v) /\ sweep[w].post = sweep[v].post /\ sweep[w].now = sweep[v].now)
        => w = v

MailedAtMostOnce ==
    \A d \in Post \X Address : tries[d] <= 1 /\ (delivery[d] = "none" => tries[d] = 0)

\* Who stayed subscribed is subscribed, and the post was published.
Stayed ==
    \A p \in Post : \A a \in since[p] : Subscribed(a) /\ post[p].status = "published"

\* A sweep that found nobody beyond its batch has its batch and those who were
\* reached before.
NobodyBeyond ==
    \A w \in Sweep : Busy(w) /\ sweep[w].short =>
      \A a \in since[sweep[w].post] :
        a \in sweep[w].batch \/ delivery[<<sweep[w].post, a>>] # "none"

CompletedReached ==
    \A p \in Post : post[p].completed => \A a \in since[p] : delivery[<<p, a>>] # "none"

NewsletterInv ==
    /\ RowsOK /\ FormsOK /\ OnPublished /\ ClaimedFirst /\ ClaimedByOne
    /\ MailedAtMostOnce /\ Stayed /\ NobodyBeyond /\ CompletedReached

-------------------------------------------------------------------------------
(* Rows *)

\* Zero is no address.
LEMMA AddressRange == 0 \in 0 .. MaxAddress /\ \A a \in Address : a \in 0 .. MaxAddress /\ a # 0
  BY NewsletterAssumption DEF Address

\* A sweep that sleeps is a sweep.
LEMMA AsleepRow == Asleep \in SweepRow /\ Asleep.at = "asleep"
  BY NewsletterAssumption DEF Asleep, SweepRow, Address

\* So is one that takes posts,
LEMMA PostsRow ==
  ASSUME NEW r \in SweepRow, NEW posts \in SUBSET Post
  PROVE  LET q == [r EXCEPT !.at = "posts", !.posts = posts]
         IN  q \in SweepRow /\ q.at = "posts" /\ q.posts = posts
  BY DEF SweepRow

\* one that leaves an address to another,
LEMMA RestRow ==
  ASSUME NEW r \in SweepRow, NEW batch \in SUBSET Address
  PROVE  LET q == [r EXCEPT !.batch = batch]
         IN  /\ q \in SweepRow /\ q.batch = batch
             /\ q.at = r.at /\ q.posts = r.posts /\ q.post = r.post /\ q.short = r.short
             /\ q.now = r.now
  BY DEF SweepRow

\* one that claims it,
LEMMA SendingRow ==
  ASSUME NEW r \in SweepRow, NEW a \in Address
  PROVE  LET q == [r EXCEPT !.at = "sending", !.now = a]
         IN  /\ q \in SweepRow /\ q.at = "sending" /\ q.now = a
             /\ q.batch = r.batch /\ q.posts = r.posts /\ q.post = r.post /\ q.short = r.short
<1>1. a \in 0 .. MaxAddress
  BY AddressRange
<1> QED
  BY <1>1 DEF SweepRow

\* one that has an answer,
LEMMA AnsweredRow ==
  ASSUME NEW r \in SweepRow, NEW outcome \in {"sent", "failed"}
  PROVE  LET q == [r EXCEPT !.at = "answered", !.outcome = outcome]
         IN  /\ q \in SweepRow /\ q.at = "answered" /\ q.now = r.now
             /\ q.batch = r.batch /\ q.posts = r.posts /\ q.post = r.post /\ q.short = r.short
<1> DEFINE q == [r EXCEPT !.at = "answered", !.outcome = outcome]
<1>1. q \in SweepRow
  BY DEF SweepRow
<1>2. q.at = "answered" /\ q.now = r.now
  BY DEF SweepRow
<1>3. q.batch = r.batch /\ q.posts = r.posts /\ q.post = r.post /\ q.short = r.short
  BY DEF SweepRow
<1> QED
  BY <1>1, <1>2, <1>3

\* and one that goes on with its batch.
LEMMA OnwardRow ==
  ASSUME NEW r \in SweepRow
  PROVE  LET q == [r EXCEPT !.at = "claiming", !.now = 0, !.outcome = "pending"]
         IN  /\ q \in SweepRow /\ q.at = "claiming"
             /\ q.batch = r.batch /\ q.posts = r.posts /\ q.post = r.post /\ q.short = r.short
  BY AddressRange DEF SweepRow

\* A short batch is everyone who was waiting.
LEMMA ShortIsAll ==
  ASSUME NEW W \in SUBSET Address, NobodyLeft(FirstOf(W))
  PROVE  FirstOf(W) = W
  BY ShortBatch, NewsletterAssumption DEF NobodyLeft, FirstOf, Address
-------------------------------------------------------------------------------
(* Readers, requests and posts *)

\* The initial states.
LEMMA InitInv == ASSUME NewsletterInit PROVE NewsletterInv
<1>1. Unknown \in SubscriberRow /\ NoPost \in PostRow /\ NoPost.completed = FALSE
  <2>1. Unknown \in SubscriberRow
    BY DEF Unknown, SubscriberRow
  <2>2. NoPost \in PostRow /\ NoPost.completed = FALSE
    BY DEF NoPost, PostRow
  <2> QED
    BY <2>1, <2>2
<1>2. NoForm \in FormRow
  BY AddressRange DEF NoForm, FormRow
<1>3. RowsOK
  BY <1>1, AsleepRow DEF NewsletterInit, RowsOK
<1>4. FormsOK
  BY <1>2 DEF NewsletterInit, FormsOK
<1>5. OnPublished /\ ClaimedFirst /\ ClaimedByOne /\ NobodyBeyond
  BY AsleepRow DEF NewsletterInit, OnPublished, ClaimedFirst, ClaimedByOne, NobodyBeyond, Busy, Holds
<1>6. MailedAtMostOnce
  BY DEF NewsletterInit, MailedAtMostOnce
<1>7. Stayed
  BY DEF NewsletterInit, Stayed
<1>8. CompletedReached
  BY <1>1 DEF NewsletterInit, CompletedReached
<1> QED
  BY <1>3, <1>4, <1>5, <1>6, <1>7, <1>8 DEF NewsletterInv

\* What readers may do: nobody who left comes back to the history, and who is in it
\* is subscribed.
ReaderFrame ==
    /\ UNCHANGED <<post, delivery, sweep, tries>>
    /\ subscriber' \in [Address -> SubscriberRow]
    /\ since' \in [Post -> SUBSET Address]
    /\ \A p \in Post : since'[p] \subseteq since[p]
    /\ \A p \in Post : \A a \in since'[p] : subscriber'[a].status = "subscribed"

\* That, with well-formed requests, keeps the invariant.
LEMMA ReaderKeeps ==
  ASSUME NewsletterInv, ReaderFrame, FormsOK'
  PROVE  NewsletterInv'
<1>1. RowsOK'
  BY DEF NewsletterInv, RowsOK, ReaderFrame
<1>2. OnPublished' /\ ClaimedFirst' /\ ClaimedByOne' /\ MailedAtMostOnce'
  BY DEF NewsletterInv, OnPublished, ClaimedFirst, ClaimedByOne, MailedAtMostOnce, Busy, Holds,
         ReaderFrame
<1>3. Stayed'
  BY DEF NewsletterInv, Stayed, ReaderFrame, Subscribed
<1>4. NobodyBeyond'
  BY DEF NewsletterInv, NobodyBeyond, OnPublished, Busy, ReaderFrame
<1>5. CompletedReached'
  BY DEF NewsletterInv, CompletedReached, ReaderFrame
<1> QED
  BY <1>1, <1>2, <1>3, <1>4, <1>5 DEF NewsletterInv

\* A row that becomes another, or stays.
LEMMA BecomesFrame ==
  ASSUME NewsletterInv, NEW a \in Address, NEW r \in SubscriberRow,
         Becomes(a, r) \/ UNCHANGED <<subscriber, since>>,
         UNCHANGED <<post, delivery, sweep, tries>>
  PROVE  ReaderFrame
<1>0. /\ subscriber \in [Address -> SubscriberRow] /\ since \in [Post -> SUBSET Address]
      /\ \A p \in Post : \A b \in since[p] : subscriber[b].status = "subscribed"
  BY DEF NewsletterInv, RowsOK, Stayed, Subscribed
<1>1. CASE UNCHANGED <<subscriber, since>>
  BY <1>0, <1>1 DEF ReaderFrame
<1>2. CASE Becomes(a, r) /\ r.status = "subscribed"
  <2>1. subscriber' = [subscriber EXCEPT ![a] = r] /\ since' = since
    BY <1>2 DEF Becomes
  <2> QED
    BY <1>0, <1>2, <2>1 DEF ReaderFrame
<1>3. CASE Becomes(a, r) /\ r.status # "subscribed"
  <2>1. subscriber' = [subscriber EXCEPT ![a] = r] /\ since' = [p \in Post |-> since[p] \ {a}]
    BY <1>3 DEF Becomes
  <2> QED
    BY <1>0, <2>1 DEF ReaderFrame
<1> QED
  BY <1>1, <1>2, <1>3

\* Rows that change their status are rows.
LEMMA StatusRow ==
  ASSUME NEW r \in SubscriberRow, NEW status \in {"none", "pending", "subscribed", "unsubscribed"},
         NEW linked \in BOOLEAN
  PROVE  /\ [r EXCEPT !.status = status] \in SubscriberRow
         /\ [status |-> status, linked |-> linked] \in SubscriberRow
         /\ r.status \in {"none", "pending", "subscribed", "unsubscribed"}
         /\ r.linked \in BOOLEAN
  BY DEF SubscriberRow

\* Every reader's step keeps the invariant.
LEMMA ReaderStepKeeps ==
  ASSUME NewsletterInv, ReaderStep
  PROVE  NewsletterInv'
<1>0. /\ subscriber \in [Address -> SubscriberRow] /\ form \in [Form -> FormRow]
      /\ \A f \in Form : form[f] # NoForm => form[f].address \in Address
  BY DEF NewsletterInv, RowsOK, FormsOK
<1>a. ASSUME UNCHANGED form PROVE FormsOK'
  BY <1>a DEF NewsletterInv, FormsOK
<1>1. ASSUME NEW a \in Address, NEW optIn \in BOOLEAN, SignUp(a, optIn) PROVE NewsletterInv'
  <2> DEFINE status == IF subscriber[a] = Unknown THEN "pending" ELSE subscriber[a].status
             r == [status |-> status, linked |-> TRUE]
  <2>1. r \in SubscriberRow
    BY <1>0, StatusRow
  <2>2. Becomes(a, r) \/ UNCHANGED <<subscriber, since>>
    BY <1>1 DEF SignUp
  <2>3. UNCHANGED <<post, form, delivery, sweep, tries>>
    BY <1>1 DEF SignUp, sweeping
  <2> HIDE DEF r
  <2> QED
    BY <1>a, <2>1, <2>2, <2>3, BecomesFrame, ReaderKeeps
<1>2. ASSUME NEW a \in Address, ConfirmSignupOptIn(a) PROVE NewsletterInv'
  <2> DEFINE r == [status |-> "subscribed", linked |-> TRUE]
  <2>1. r \in SubscriberRow
    BY DEF SubscriberRow
  <2>2. Becomes(a, r) \/ UNCHANGED <<subscriber, since>>
    BY <1>2 DEF ConfirmSignupOptIn
  <2>3. UNCHANGED <<post, form, delivery, sweep, tries>>
    BY <1>2 DEF ConfirmSignupOptIn, sweeping
  <2> HIDE DEF r
  <2> QED
    BY <1>a, <2>1, <2>2, <2>3, BecomesFrame, ReaderKeeps
<1>3. ASSUME NEW a \in Address, ConfirmSubscriber(a) PROVE NewsletterInv'
  <2>1. [subscriber[a] EXCEPT !.status = "subscribed"] \in SubscriberRow
    BY <1>0, StatusRow
  <2>2. Becomes(a, [subscriber[a] EXCEPT !.status = "subscribed"])
    BY <1>3 DEF ConfirmSubscriber
  <2>3. UNCHANGED <<post, form, delivery, sweep, tries>>
    BY <1>3 DEF ConfirmSubscriber, sweeping
  <2> QED
    BY <1>a, <2>1, <2>2, <2>3, BecomesFrame, ReaderKeeps
<1>4. ASSUME NEW a \in Address, Unsubscribe(a) PROVE NewsletterInv'
  <2>1. [subscriber[a] EXCEPT !.status = "unsubscribed"] \in SubscriberRow
    BY <1>0, StatusRow
  <2>2. Becomes(a, [subscriber[a] EXCEPT !.status = "unsubscribed"])
    BY <1>4 DEF Unsubscribe
  <2>3. UNCHANGED <<post, form, delivery, sweep, tries>>
    BY <1>4 DEF Unsubscribe, sweeping
  <2> QED
    BY <1>a, <2>1, <2>2, <2>3, BecomesFrame, ReaderKeeps
<1>5. ASSUME NEW f \in Form, NEW op \in {"visit", "on", "off"}, NEW a \in Address,
             ReadSubscriber(f, op, a)
      PROVE  NewsletterInv'
  <2> DEFINE q == [op |-> op, address |-> a, found |-> subscriber[a] # Unknown]
  <2>1. q \in FormRow /\ q.address \in Address
    BY AddressRange DEF FormRow
  <2>2. form' = [form EXCEPT ![f] = q]
    BY <1>5 DEF ReadSubscriber
  <2>3. UNCHANGED <<subscriber, since, post, delivery, sweep, tries>>
    BY <1>5 DEF ReadSubscriber, sweeping
  <2> HIDE DEF q
  <2>4. FormsOK'
    BY <1>0, <2>1, <2>2 DEF FormsOK
  <2>5. ReaderFrame
    BY <2>3 DEF NewsletterInv, RowsOK, Stayed, Subscribed, ReaderFrame
  <2> QED
    BY <2>4, <2>5, ReaderKeeps
<1>6. ASSUME NEW f \in Form, WriteSubscriber(f) PROVE NewsletterInv'
  <2> DEFINE q == form[f]
             a == q.address
             status == CASE q.op = "visit" -> "pending"
                         [] q.op = "on"    -> "subscribed"
                         [] OTHER          -> "unsubscribed"
             linked == subscriber[a].linked \/ q.op # "visit"
             r == [status |-> status, linked |-> linked]
  <2>1. q # NoForm /\ a \in Address
    BY <1>0, <1>6 DEF WriteSubscriber
  <2>2. status \in {"none", "pending", "subscribed", "unsubscribed"} /\ linked \in BOOLEAN
    BY <1>0, <2>1 DEF SubscriberRow
  <2>3. Becomes(a, r) \/ UNCHANGED <<subscriber, since>>
    BY <1>6 DEF WriteSubscriber
  <2>4. form' = [form EXCEPT ![f] = NoForm] /\ UNCHANGED <<post, delivery, sweep, tries>>
    BY <1>6 DEF WriteSubscriber, sweeping
  <2> HIDE DEF status, linked
  <2>5. r \in SubscriberRow
    BY <2>2 DEF SubscriberRow
  <2>6. NoForm \in FormRow
    BY AddressRange DEF NoForm, FormRow
  <2>7. FormsOK'
    BY <1>0, <2>4, <2>6 DEF FormsOK
  <2> HIDE DEF r, a
  <2> QED
    BY <2>1, <2>3, <2>4, <2>5, <2>7, BecomesFrame, ReaderKeeps
<1> QED
  BY <1>1, <1>2, <1>3, <1>4, <1>5, <1>6 DEF ReaderStep

\* Posts that are drafted, deleted or published.  What a sweep works on is published
\* and so is none of these.
LEMMA PostStepKeeps ==
  ASSUME NewsletterInv, NEW p \in Post, PostStep(p)
  PROVE  NewsletterInv'
<1>0. /\ post \in [Post -> PostRow] /\ since \in [Post -> SUBSET Address]
      /\ post[p].status # "published"
      /\ UNCHANGED <<subscriber, form, delivery, sweep, tries>>
  BY DEF NewsletterInv, RowsOK, PostStep, CreatePost, DeleteDraft, PublishPost, readers, sweeping
<1>1. PICK entry \in PostRow : post' = [post EXCEPT ![p] = entry] /\ (entry.completed => post[p].completed)
  <2>1. ASSUME NEW status \in {"unborn", "draft", "published", "deleted"}
        PROVE  LET entry == [post[p] EXCEPT !.status = status]
               IN  entry \in PostRow /\ entry.completed = post[p].completed
    BY <1>0 DEF PostRow
  <2>2. CASE CreatePost(p)
    BY <2>1, <2>2 DEF CreatePost
  <2>3. CASE DeleteDraft(p)
    BY <2>1, <2>3 DEF DeleteDraft
  <2>4. ASSUME NEW email \in BOOLEAN, PublishPost(p, email)
        PROVE  LET entry == [status |-> "published", email |-> email, completed |-> FALSE]
               IN  entry \in PostRow /\ post' = [post EXCEPT ![p] = entry] /\ ~entry.completed
    BY <2>4 DEF PublishPost, PostRow
  <2> QED
    BY <2>2, <2>3, <2>4 DEF PostStep
<1>2. /\ since' \in [Post -> SUBSET Address]
      /\ \A z \in Post : z # p => since'[z] = since[z]
      /\ \A a \in since'[p] : a \in since[p] \/ (Subscribed(a) /\ post'[p].status = "published")
  <2>1. CASE UNCHANGED since
    BY <1>0, <2>1
  <2>2. ASSUME NEW email \in BOOLEAN, PublishPost(p, email)
        PROVE  /\ since' = [since EXCEPT ![p] = {a \in Address : Subscribed(a)}]
               /\ post'[p].status = "published"
    BY <1>0, <2>2 DEF PublishPost
  <2>3. CASE since' = [since EXCEPT ![p] = {a \in Address : Subscribed(a)}]
             /\ post'[p].status = "published"
    BY <1>0, <2>3
  <2> QED
    BY <2>1, <2>2, <2>3 DEF PostStep, CreatePost, DeleteDraft, readers
<1>3. \A a \in Address : a \notin since[p]
  BY <1>0 DEF NewsletterInv, Stayed
<1>4. RowsOK' /\ FormsOK'
  BY <1>0, <1>1, <1>2 DEF NewsletterInv, RowsOK, FormsOK
<1>5. ~post[p].completed => ~post'[p].completed
  BY <1>0, <1>1
<1>6. OnPublished'
  BY <1>0, <1>1 DEF NewsletterInv, OnPublished, Busy, RowsOK, SweepRow
<1>7. ClaimedFirst' /\ ClaimedByOne' /\ MailedAtMostOnce'
  BY <1>0 DEF NewsletterInv, ClaimedFirst, ClaimedByOne, MailedAtMostOnce, Holds
<1>8. Stayed'
  <2> SUFFICES ASSUME NEW z \in Post, NEW a \in since'[z]
               PROVE  Subscribed(a) /\ post'[z].status = "published"
    BY <1>0 DEF Stayed, Subscribed
  <2>1. CASE z = p
    BY <1>2, <1>3, <2>1
  <2>2. CASE z # p
    BY <1>0, <1>1, <1>2, <2>2 DEF NewsletterInv, Stayed
  <2> QED
    BY <2>1, <2>2
<1>9. NobodyBeyond'
  <2> SUFFICES ASSUME NEW w \in Sweep, Busy(w), sweep[w].short, NEW a \in since'[sweep[w].post]
               PROVE  a \in sweep[w].batch \/ delivery[<<sweep[w].post, a>>] # "none"
    BY <1>0 DEF NobodyBeyond, Busy
  <2>1. sweep[w].post \in Post /\ sweep[w].post # p
    BY <1>0 DEF NewsletterInv, OnPublished
  <2> QED
    BY <1>2, <2>1 DEF NewsletterInv, NobodyBeyond
<1>10. CompletedReached'
  <2> SUFFICES ASSUME NEW z \in Post, post'[z].completed, NEW a \in since'[z]
               PROVE  delivery[<<z, a>>] # "none"
    BY <1>0 DEF CompletedReached
  <2>1. CASE z # p
    BY <1>0, <1>1, <1>2, <2>1 DEF NewsletterInv, CompletedReached
  <2>2. CASE z = p
    <3>1. ~(PublishPost(p, TRUE) \/ PublishPost(p, FALSE))
      BY <1>0, <2>2 DEF PublishPost
    <3>2. since' = since
      BY <3>1 DEF PostStep, CreatePost, DeleteDraft, readers
    <3> QED
      BY <1>0, <1>3, <2>2, <3>2
  <2> QED
    BY <2>1, <2>2
<1> QED
  BY <1>4, <1>6, <1>7, <1>8, <1>9, <1>10 DEF NewsletterInv

-------------------------------------------------------------------------------
(* Sweeps *)

\* A sweep that turns to q and leaves the rows alone.
LEMMA TurnKeeps ==
  ASSUME NewsletterInv, NEW w \in Sweep, NEW q \in SweepRow, Turns(w, q),
         q.at \notin {"sending", "answered"},
         q.at # "asleep" => \A p \in q.posts : post[p].status = "published",
         q.at = "claiming" =>
           /\ q.post \in Post /\ post[q.post].status = "published"
           /\ q.short => \A a \in since[q.post] : a \in q.batch \/ delivery[<<q.post, a>>] # "none",
         UNCHANGED <<subscriber, form, since, post, delivery, tries>>
  PROVE  NewsletterInv'
<1>0. /\ sweep \in [Sweep -> SweepRow] /\ sweep' = [sweep EXCEPT ![w] = q]
      /\ sweep'[w] = q /\ \A v \in Sweep : v # w => sweep'[v] = sweep[v]
  BY DEF NewsletterInv, RowsOK, Turns
<1>1. RowsOK' /\ FormsOK'
  BY <1>0 DEF NewsletterInv, RowsOK, FormsOK
<1>2. OnPublished'
  BY <1>0 DEF NewsletterInv, OnPublished, Busy
<1>3. ClaimedFirst'
  BY <1>0 DEF NewsletterInv, ClaimedFirst, Holds
<1>4. ClaimedByOne'
  BY <1>0 DEF NewsletterInv, ClaimedByOne, Holds
<1>5. NobodyBeyond'
  BY <1>0 DEF NewsletterInv, NobodyBeyond, Busy
<1>6. MailedAtMostOnce' /\ CompletedReached'
  BY DEF NewsletterInv, MailedAtMostOnce, CompletedReached
<1>7. Stayed'
  BY DEF NewsletterInv, Stayed, Subscribed
<1> QED
  BY <1>1, <1>2, <1>3, <1>4, <1>5, <1>6, <1>7 DEF NewsletterInv

\* A sweep that begins.
LEMMA StartKeeps ==
  ASSUME NewsletterInv, NEW w \in Sweep, StartSweep(w)
  PROVE  NewsletterInv'
<1> DEFINE posts == {p \in Post : post[p].status = "published" /\ post[p].email /\ ~post[p].completed}
           q == [Asleep EXCEPT !.at = "posts", !.posts = posts]
<1>1. q \in SweepRow /\ q.at = "posts" /\ q.posts = posts
  BY AsleepRow, PostsRow
<1>2. Turns(w, q) /\ UNCHANGED <<subscriber, form, since, post, delivery, tries>>
  BY DEF StartSweep, readers
<1>3. \A p \in posts : post[p].status = "published"
  OBVIOUS
<1> HIDE DEF q, posts
<1> QED
  BY <1>1, <1>2, <1>3, TurnKeeps

\* A sweep that reads its batch: a short one has everyone who stayed and is not reached.
LEMMA ReadKeeps ==
  ASSUME NewsletterInv, NEW w \in Sweep, NEW p \in Post, ReadBatch(w, p)
  PROVE  NewsletterInv'
<1> DEFINE batch == FirstOf(Waiting(p))
           posts == sweep[w].posts \ {p}
           short == NobodyLeft(batch)
           q == [sweep[w] EXCEPT !.at = "claiming", !.posts = posts, !.post = p,
                                 !.batch = batch, !.short = short]
<1>0. /\ sweep[w] \in SweepRow /\ sweep[w].posts \in SUBSET Post
      /\ sweep[w].at = "posts" /\ p \in sweep[w].posts
      /\ \A z \in sweep[w].posts : post[z].status = "published"
  BY DEF NewsletterInv, RowsOK, SweepRow, OnPublished, ReadBatch
<1>1. Waiting(p) \in SUBSET Address /\ batch \in SUBSET Address
  BY DEF Waiting, FirstOf
<1>2. Turns(w, q) /\ UNCHANGED <<subscriber, form, since, post, delivery, tries>>
  BY DEF ReadBatch, readers
<1>3. short \in BOOLEAN
  BY DEF NobodyLeft
<1>4. short => \A a \in since[p] : a \in batch \/ delivery[<<p, a>>] # "none"
  <2> SUFFICES ASSUME short, NEW a \in since[p], delivery[<<p, a>>] = "none" PROVE a \in batch
    OBVIOUS
  <2>1. a \in Address /\ Subscribed(a)
    BY DEF NewsletterInv, RowsOK, Stayed
  <2>2. a \in Waiting(p)
    BY <2>1 DEF Waiting
  <2> QED
    BY <1>1, <2>2, ShortIsAll
<1> HIDE DEF batch, posts, short
<1>5. posts \in SUBSET Post /\ posts \subseteq sweep[w].posts
  BY <1>0 DEF posts
<1>a. q = [sweep[w] EXCEPT !.at = "claiming", !.posts = posts, !.post = p,
                           !.batch = batch, !.short = short]
  OBVIOUS
<1> HIDE DEF q
<1>6. /\ q \in SweepRow /\ q.at = "claiming" /\ q.posts = posts
      /\ q.post = p /\ q.batch = batch /\ q.short = short
  BY <1>0, <1>1, <1>3, <1>5, <1>a DEF SweepRow
<1> QED
  BY <1>0, <1>2, <1>4, <1>5, <1>6, TurnKeeps

\* The row that claims an address is in the batch, and its own or another's claim is
\* what the batch loses.
LEMMA ClaimKeeps ==
  ASSUME NewsletterInv, NEW w \in Sweep, ClaimRecipient(w)
  PROVE  NewsletterInv'
<1> DEFINE p == sweep[w].post
           a == Min(sweep[w].batch)
           batch == sweep[w].batch \ {a}
           rest == [sweep[w] EXCEPT !.batch = batch]
           sending == [rest EXCEPT !.at = "sending", !.now = a]
<1>0. /\ sweep \in [Sweep -> SweepRow] /\ sweep[w] \in SweepRow /\ sweep[w].at = "claiming"
      /\ p \in Post /\ post[p].status = "published"
      /\ \A z \in sweep[w].posts : post[z].status = "published"
      /\ delivery \in [Post \X Address -> {"none", "pending", "sent", "failed"}]
      /\ UNCHANGED <<subscriber, form, since, post, tries>>
  BY DEF NewsletterInv, RowsOK, OnPublished, Busy, ClaimRecipient, readers
<1>1. a \in sweep[w].batch /\ a \in Address
  <2>1. sweep[w].batch \in SUBSET Address
    BY <1>0 DEF SweepRow
  <2>a. sweep[w].batch \in SUBSET Nat
    BY <2>1 DEF Address
  <2>b. sweep[w].batch # {}
    BY DEF ClaimRecipient
  <2>2. a \in sweep[w].batch
    BY <2>a, <2>b, MinLeast
  <2> QED
    BY <2>1, <2>2
<1>2. batch \in SUBSET Address
  BY <1>0 DEF SweepRow
<1>3. CASE delivery[<<p, a>>] = "none"
  <2>1. delivery' = [delivery EXCEPT ![<<p, a>>] = "pending"] /\ Turns(w, sending)
    BY <1>3 DEF ClaimRecipient
  <2> HIDE DEF a, batch
  <2>2. /\ rest \in SweepRow /\ rest.batch = batch /\ rest.posts = sweep[w].posts
        /\ rest.post = p /\ rest.short = sweep[w].short
    BY <1>0, <1>2, RestRow
  <2> HIDE DEF rest
  <2>3. /\ sending \in SweepRow /\ sending.at = "sending" /\ sending.now = a
        /\ sending.batch = batch /\ sending.posts = sweep[w].posts
        /\ sending.post = p /\ sending.short = sweep[w].short
    BY <1>1, <2>2, SendingRow
  <2> HIDE DEF sending, p
  <2>4. /\ sweep' = [sweep EXCEPT ![w] = sending] /\ sweep'[w] = sending
        /\ \A v \in Sweep : v # w => sweep'[v] = sweep[v]
    BY <1>0, <2>1 DEF Turns
  <2>5. /\ delivery' \in [Post \X Address -> {"none", "pending", "sent", "failed"}]
        /\ delivery'[<<p, a>>] = "pending"
        /\ \A d \in Post \X Address : d # <<p, a>> => delivery'[d] = delivery[d]
    BY <1>0, <1>1, <2>1
  <2>6. <<p, a>> \in Post \X Address
    BY <1>0, <1>1
  <2>7. RowsOK' /\ FormsOK'
    BY <1>0, <2>3, <2>4, <2>5 DEF NewsletterInv, RowsOK, FormsOK
  <2>8. OnPublished'
    BY <1>0, <2>3, <2>4 DEF NewsletterInv, OnPublished, Busy, p
  <2>9. tries[<<p, a>>] = 0
    BY <1>3, <2>6 DEF NewsletterInv, MailedAtMostOnce
  <2>10. \A v \in Sweep : v # w /\ Holds(v) =>
           /\ ~(sweep[v].post = p /\ sweep[v].now = a)
           /\ <<sweep[v].post, sweep[v].now>> \in Post \X Address
    BY <1>3 DEF NewsletterInv, ClaimedFirst, OnPublished, Busy, Holds
  <2>11. ClaimedFirst'
    <3> SUFFICES ASSUME NEW v \in Sweep, Holds(v)'
                 PROVE  /\ sweep'[v].now \in Address
                        /\ delivery'[<<sweep'[v].post, sweep'[v].now>>] # "none"
                        /\ sweep'[v].at = "sending" => tries[<<sweep'[v].post, sweep'[v].now>>] = 0
      BY <1>0 DEF ClaimedFirst
    <3>1. CASE v = w
      BY <1>1, <2>3, <2>4, <2>5, <2>9, <3>1
    <3>2. CASE v # w
      <4>1. Holds(v) /\ sweep'[v] = sweep[v]
        BY <2>4, <3>2 DEF Holds
      <4>2. delivery'[<<sweep[v].post, sweep[v].now>>] = delivery[<<sweep[v].post, sweep[v].now>>]
        BY <2>5, <2>10, <3>2, <4>1
      <4> QED
        BY <4>1, <4>2 DEF NewsletterInv, ClaimedFirst
    <3> QED
      BY <3>1, <3>2
  <2>12. ClaimedByOne'
    <3> SUFFICES ASSUME NEW v \in Sweep, NEW u \in Sweep, Holds(v)', Holds(u)',
                        sweep'[v].post = sweep'[u].post, sweep'[v].now = sweep'[u].now
                 PROVE  v = u
      BY DEF ClaimedByOne
    <3>1. \A x \in Sweep : x # w /\ Holds(x)' =>
            Holds(x) /\ sweep'[x] = sweep[x] /\ ~(sweep'[x].post = p /\ sweep'[x].now = a)
      BY <2>4, <2>10 DEF Holds
    <3>2. CASE v = w \/ u = w
      BY <2>3, <2>4, <3>1, <3>2
    <3>3. CASE v # w /\ u # w
      BY <3>1, <3>3 DEF NewsletterInv, ClaimedByOne
    <3> QED
      BY <3>2, <3>3
  <2>13. MailedAtMostOnce'
    BY <1>0, <2>5 DEF NewsletterInv, MailedAtMostOnce
  <2>14. Stayed'
    BY <1>0 DEF NewsletterInv, Stayed, Subscribed
  <2>15. \A z \in Post, b \in Address : delivery[<<z, b>>] # "none" => delivery'[<<z, b>>] # "none"
    BY <2>5
  <2>16. NobodyBeyond'
    <3> SUFFICES ASSUME NEW v \in Sweep, Busy(v)', sweep'[v].short, NEW b \in since[sweep'[v].post]
                 PROVE  b \in sweep'[v].batch \/ delivery'[<<sweep'[v].post, b>>] # "none"
      BY <1>0 DEF NobodyBeyond
    <3>1. CASE v = w
      <4>1. b \in Address /\ Busy(w) /\ sweep[w].short
        BY <1>0, <2>3, <2>4, <3>1 DEF NewsletterInv, RowsOK, Busy
      <4>2. b \in sweep[w].batch \/ delivery[<<p, b>>] # "none"
        BY <2>3, <2>4, <3>1, <4>1 DEF NewsletterInv, NobodyBeyond, p
      <4>3. b = a \/ b \in batch \/ delivery[<<p, b>>] # "none"
        BY <4>2 DEF batch
      <4> QED
        BY <1>0, <2>3, <2>4, <2>5, <2>15, <3>1, <4>1, <4>3
    <3>2. CASE v # w
      <4>1. Busy(v) /\ sweep'[v] = sweep[v]
        BY <2>4, <3>2 DEF Busy
      <4>2. sweep[v].post \in Post /\ b \in Address
        BY <4>1 DEF NewsletterInv, OnPublished, RowsOK
      <4> QED
        BY <2>15, <4>1, <4>2 DEF NewsletterInv, NobodyBeyond
    <3> QED
      BY <3>1, <3>2
  <2>17. CompletedReached'
    BY <1>0, <2>15 DEF NewsletterInv, CompletedReached, RowsOK
  <2> QED
    BY <2>7, <2>8, <2>11, <2>12, <2>13, <2>14, <2>16, <2>17 DEF NewsletterInv
<1>4. CASE delivery[<<p, a>>] # "none"
  <2>1. UNCHANGED delivery /\ Turns(w, rest)
    BY <1>4 DEF ClaimRecipient
  <2>2. sweep[w].short => \A b \in since[p] : b \in batch \/ delivery[<<p, b>>] # "none"
    BY <1>0, <1>4 DEF NewsletterInv, NobodyBeyond, Busy
  <2> HIDE DEF a, batch
  <2>3. /\ rest \in SweepRow /\ rest.batch = batch /\ rest.posts = sweep[w].posts
        /\ rest.post = p /\ rest.short = sweep[w].short /\ rest.at = "claiming"
    BY <1>0, <1>2, RestRow
  <2> HIDE DEF rest
  <2> QED
    BY <1>0, <2>1, <2>2, <2>3, TurnKeeps
<1> QED
  BY <1>3, <1>4

\* The one that claimed an address mails it, once.
LEMMA MailKeeps ==
  ASSUME NewsletterInv, NEW w \in Sweep, NEW outcome \in {"sent", "failed"}, MailPost(w, outcome)
  PROVE  NewsletterInv'
<1> DEFINE d == <<sweep[w].post, sweep[w].now>>
           q == [sweep[w] EXCEPT !.at = "answered", !.outcome = outcome]
<1>0. /\ sweep \in [Sweep -> SweepRow] /\ sweep[w] \in SweepRow /\ sweep[w].at = "sending"
      /\ sweep[w].post \in Post /\ sweep[w].now \in Address /\ tries[d] = 0 /\ delivery[d] # "none"
      /\ tries \in [Post \X Address -> Nat]
      /\ tries' = [tries EXCEPT ![d] = tries[d] + 1] /\ Turns(w, q)
      /\ UNCHANGED <<subscriber, form, since, post, delivery>>
  BY DEF NewsletterInv, RowsOK, OnPublished, ClaimedFirst, Busy, Holds, MailPost, readers
<1>1. /\ q \in SweepRow /\ q.at = "answered" /\ q.now = sweep[w].now /\ q.batch = sweep[w].batch
      /\ q.posts = sweep[w].posts /\ q.post = sweep[w].post /\ q.short = sweep[w].short
  BY <1>0, AnsweredRow
<1> HIDE DEF q
<1>2. /\ sweep'[w] = q /\ \A v \in Sweep : v # w => sweep'[v] = sweep[v]
      /\ sweep' \in [Sweep -> SweepRow]
  BY <1>0, <1>1 DEF Turns
<1>3. /\ tries' \in [Post \X Address -> Nat] /\ tries'[d] = 1
      /\ \A e \in Post \X Address : e # d => tries'[e] = tries[e]
  BY <1>0
<1>4. RowsOK' /\ FormsOK'
  BY <1>0, <1>2, <1>3 DEF NewsletterInv, RowsOK, FormsOK
<1>5. OnPublished'
  BY <1>0, <1>1, <1>2 DEF NewsletterInv, OnPublished, Busy
<1>6. ClaimedByOne'
  BY <1>0, <1>1, <1>2 DEF NewsletterInv, ClaimedByOne, Holds
<1>7. ClaimedFirst'
  <2> SUFFICES ASSUME NEW v \in Sweep, Holds(v)'
               PROVE  /\ sweep'[v].now \in Address
                      /\ delivery[<<sweep'[v].post, sweep'[v].now>>] # "none"
                      /\ sweep'[v].at = "sending" => tries'[<<sweep'[v].post, sweep'[v].now>>] = 0
    BY <1>0 DEF ClaimedFirst
  <2>1. CASE v = w
    BY <1>0, <1>1, <1>2, <2>1
  <2>2. CASE v # w
    <3>1. Holds(v) /\ sweep'[v] = sweep[v]
      BY <1>2, <2>2 DEF Holds
    <3>2. sweep[v].post \in Post /\ sweep[v].now \in Address
      BY <3>1 DEF NewsletterInv, OnPublished, ClaimedFirst, Busy, Holds
    <3>3. <<sweep[v].post, sweep[v].now>> # d
      BY <1>0, <2>2, <3>1 DEF NewsletterInv, ClaimedByOne, Holds
    <3>4. tries'[<<sweep[v].post, sweep[v].now>>] = tries[<<sweep[v].post, sweep[v].now>>]
      BY <1>3, <3>2, <3>3
    <3> QED
      BY <3>1, <3>4 DEF NewsletterInv, ClaimedFirst
  <2> QED
    BY <2>1, <2>2
<1>8. MailedAtMostOnce'
  BY <1>0, <1>3 DEF NewsletterInv, MailedAtMostOnce
<1>9. NobodyBeyond'
  BY <1>0, <1>1, <1>2 DEF NewsletterInv, NobodyBeyond, Busy
<1>10. Stayed' /\ CompletedReached'
  BY <1>0 DEF NewsletterInv, Stayed, Subscribed, CompletedReached
<1> QED
  BY <1>4, <1>5, <1>6, <1>7, <1>8, <1>9, <1>10 DEF NewsletterInv

\* Recording an answer never gives a claim back.
LEMMA RecordKeeps ==
  ASSUME NewsletterInv, NEW w \in Sweep, RecordMail(w)
  PROVE  NewsletterInv'
<1> DEFINE d == <<sweep[w].post, sweep[w].now>>
           q == [sweep[w] EXCEPT !.at = "claiming", !.now = 0, !.outcome = "pending"]
<1>0. /\ sweep \in [Sweep -> SweepRow] /\ sweep[w] \in SweepRow /\ sweep[w].at = "answered"
      /\ sweep[w].post \in Post /\ sweep[w].now \in Address /\ delivery[d] # "none"
      /\ delivery \in [Post \X Address -> {"none", "pending", "sent", "failed"}]
      /\ delivery' = [delivery EXCEPT ![d] = sweep[w].outcome] /\ Turns(w, q)
      /\ UNCHANGED <<subscriber, form, since, post, tries>>
  BY DEF NewsletterInv, RowsOK, OnPublished, ClaimedFirst, Busy, Holds, RecordMail, readers
<1>1. /\ q \in SweepRow /\ q.at = "claiming" /\ q.batch = sweep[w].batch
      /\ q.posts = sweep[w].posts /\ q.post = sweep[w].post /\ q.short = sweep[w].short
  BY <1>0, OnwardRow
<1> HIDE DEF q
<1>2. /\ sweep'[w] = q /\ \A v \in Sweep : v # w => sweep'[v] = sweep[v]
      /\ sweep' \in [Sweep -> SweepRow]
  BY <1>0, <1>1 DEF Turns
<1>3. sweep[w].outcome \in {"pending", "sent", "failed"}
  BY <1>0 DEF SweepRow
<1>4. /\ delivery' \in [Post \X Address -> {"none", "pending", "sent", "failed"}]
      /\ \A e \in Post \X Address : delivery[e] # "none" <=> delivery'[e] # "none"
  BY <1>0, <1>3
<1>5. RowsOK' /\ FormsOK'
  BY <1>0, <1>2, <1>4 DEF NewsletterInv, RowsOK, FormsOK
<1>6. OnPublished'
  BY <1>0, <1>1, <1>2 DEF NewsletterInv, OnPublished, Busy
<1>7. ClaimedByOne'
  BY <1>0, <1>1, <1>2 DEF NewsletterInv, ClaimedByOne, Holds
<1>8. ClaimedFirst'
  <2> SUFFICES ASSUME NEW v \in Sweep, Holds(v)'
               PROVE  /\ sweep'[v].now \in Address
                      /\ delivery'[<<sweep'[v].post, sweep'[v].now>>] # "none"
                      /\ sweep'[v].at = "sending" => tries[<<sweep'[v].post, sweep'[v].now>>] = 0
    BY <1>0 DEF ClaimedFirst
  <2>1. Holds(v) /\ sweep'[v] = sweep[v]
    BY <1>1, <1>2 DEF Holds
  <2>2. sweep[v].post \in Post /\ sweep[v].now \in Address
    BY <2>1 DEF NewsletterInv, OnPublished, ClaimedFirst, Busy, Holds
  <2> QED
    BY <1>4, <2>1, <2>2 DEF NewsletterInv, ClaimedFirst
<1>9. MailedAtMostOnce'
  BY <1>0, <1>4 DEF NewsletterInv, MailedAtMostOnce
<1>10. NobodyBeyond'
  <2> SUFFICES ASSUME NEW v \in Sweep, Busy(v)', sweep'[v].short, NEW b \in since[sweep'[v].post]
               PROVE  b \in sweep'[v].batch \/ delivery'[<<sweep'[v].post, b>>] # "none"
    BY <1>0 DEF NobodyBeyond
  <2>1. /\ Busy(v) /\ sweep[v].short /\ sweep'[v].post = sweep[v].post
        /\ sweep'[v].batch = sweep[v].batch
    BY <1>0, <1>1, <1>2 DEF Busy
  <2>2. sweep[v].post \in Post /\ b \in Address
    BY <2>1 DEF NewsletterInv, OnPublished, RowsOK
  <2> QED
    BY <1>4, <2>1, <2>2 DEF NewsletterInv, NobodyBeyond
<1>11. CompletedReached'
  BY <1>0, <1>4 DEF NewsletterInv, CompletedReached, RowsOK
<1>12. Stayed'
  BY <1>0 DEF NewsletterInv, Stayed, Subscribed
<1> QED
  BY <1>5, <1>6, <1>7, <1>8, <1>9, <1>10, <1>11, <1>12 DEF NewsletterInv

\* A post is completed when the sweep has been through a short batch.
LEMMA FinishKeeps ==
  ASSUME NewsletterInv, NEW w \in Sweep, FinishPost(w)
  PROVE  NewsletterInv'
<1> DEFINE p == sweep[w].post
           going == [Asleep EXCEPT !.at = "posts", !.posts = sweep[w].posts]
           q == IF sweep[w].posts = {} THEN Asleep ELSE going
<1>0. /\ sweep \in [Sweep -> SweepRow] /\ sweep[w] \in SweepRow
      /\ sweep[w].at = "claiming" /\ sweep[w].batch = {}
      /\ p \in Post /\ post[p].status = "published" /\ post \in [Post -> PostRow]
      /\ \A z \in sweep[w].posts : post[z].status = "published"
      /\ Turns(w, q)
      /\ post' = IF sweep[w].short THEN [post EXCEPT ![p].completed = TRUE] ELSE post
      /\ UNCHANGED <<subscriber, form, since, delivery, tries>>
  BY DEF NewsletterInv, RowsOK, OnPublished, Busy, FinishPost, readers
<1>1. sweep[w].posts \in SUBSET Post
  BY <1>0 DEF SweepRow
<1>2. /\ q \in SweepRow /\ q.at \in {"asleep", "posts"}
      /\ q.at # "asleep" => q.posts = sweep[w].posts
  BY <1>1, AsleepRow, PostsRow
<1> HIDE DEF q
<1>3. /\ sweep'[w] = q /\ \A v \in Sweep : v # w => sweep'[v] = sweep[v]
      /\ sweep' \in [Sweep -> SweepRow]
  BY <1>0, <1>2 DEF Turns
<1>4. /\ post' \in [Post -> PostRow]
      /\ \A z \in Post : /\ post'[z].status = post[z].status
                         /\ post'[z].completed => post[z].completed \/ (z = p /\ sweep[w].short)
  BY <1>0 DEF PostRow
<1>5. RowsOK' /\ FormsOK'
  BY <1>0, <1>3, <1>4 DEF NewsletterInv, RowsOK, FormsOK
<1>6. OnPublished'
  <2> SUFFICES ASSUME NEW v \in Sweep
               PROVE  /\ sweep'[v].at # "asleep" => \A z \in sweep'[v].posts : post'[z].status = "published"
                      /\ Busy(v)' => sweep'[v].post \in Post /\ post'[sweep'[v].post].status = "published"
    BY DEF OnPublished
  <2>1. CASE v = w
    BY <1>0, <1>1, <1>2, <1>3, <1>4, <2>1 DEF Busy
  <2>2. CASE v # w
    <3>1. sweep'[v] = sweep[v] /\ sweep[v].posts \in SUBSET Post
      BY <1>0, <1>3, <2>2 DEF SweepRow
    <3> QED
      BY <1>4, <3>1 DEF NewsletterInv, OnPublished, Busy
  <2> QED
    BY <2>1, <2>2
<1>7. ClaimedFirst' /\ ClaimedByOne'
  BY <1>0, <1>2, <1>3 DEF NewsletterInv, ClaimedFirst, ClaimedByOne, Holds
<1>8. MailedAtMostOnce'
  BY <1>0 DEF NewsletterInv, MailedAtMostOnce
<1>9. Stayed'
  BY <1>0, <1>4 DEF NewsletterInv, Stayed, Subscribed
<1>10. NobodyBeyond'
  BY <1>0, <1>2, <1>3 DEF NewsletterInv, NobodyBeyond, Busy
<1>11. CompletedReached'
  <2>1. sweep[w].short => \A a \in since[p] : delivery[<<p, a>>] # "none"
    BY <1>0 DEF NewsletterInv, NobodyBeyond, Busy
  <2> HIDE DEF p
  <2> QED
    BY <1>0, <1>4, <2>1 DEF NewsletterInv, CompletedReached
<1> QED
  BY <1>5, <1>6, <1>7, <1>8, <1>9, <1>10, <1>11 DEF NewsletterInv

\* Every step keeps the invariant.
LEMMA StepInv ==
  ASSUME NewsletterInv, [NewsletterNext]_newsletterVars
  PROVE  NewsletterInv'
<1>1. ASSUME NEW w \in Sweep, SweepDies(w) PROVE NewsletterInv'
  BY <1>1, AsleepRow, TurnKeeps DEF SweepDies, readers
<1>2. ASSUME NEW w \in Sweep, SweepStep(w) PROVE NewsletterInv'
  BY <1>1, <1>2, StartKeeps, ReadKeeps, ClaimKeeps, MailKeeps, RecordKeeps, FinishKeeps DEF SweepStep
<1>3. CASE UNCHANGED newsletterVars
  BY <1>3 DEF newsletterVars, NewsletterInv, RowsOK, FormsOK, OnPublished, ClaimedFirst,
              ClaimedByOne, MailedAtMostOnce, Stayed, Subscribed, NobodyBeyond, CompletedReached,
              Busy, Holds
<1> QED
  BY <1>2, <1>3, ReaderStepKeeps, PostStepKeeps DEF NewsletterNext

-------------------------------------------------------------------------------

\* A post is mailed to an address at most once, and a completed post left out nobody who
\* was subscribed when it was published and stayed so, whatever sweeps overlap or die and
\* whoever subscribes or leaves meanwhile (runNewsletterSweep and sendPostToBatch).
THEOREM MailedOnceToEveryone == NewsletterSpec => []EveryoneOnce
<1>1. NewsletterInit => NewsletterInv
  BY InitInv
<1>2. NewsletterInv /\ [NewsletterNext]_newsletterVars => NewsletterInv'
  BY StepInv
<1>3. NewsletterInv => EveryoneOnce
  BY DEF NewsletterInv, RowsOK, MailedAtMostOnce, CompletedReached, EveryoneOnce
<1> QED
  BY <1>1, <1>2, <1>3, PTL DEF NewsletterSpec

-------------------------------------------------------------------------------
(* Dispatch: published once *)

DispatcherRow == [at : {"idle", "choosing", "publishing", "reading", "pushing"},
                  pending : SUBSET Note, now : 0 .. MaxNote, to : SUBSET Endpoint]

\* The notifications and the dispatchers are well-formed.
DispatchRowsOK ==
    /\ note \in [Note -> NoteRow]
    /\ published \in [Note -> Nat]
    /\ dispatcher \in [Dispatcher -> DispatcherRow]

\* Who is about to publish a notification has claimed it, alone, and nobody has
\* published it.
PublishesOwnClaim ==
    \A d \in Dispatcher : dispatcher[d].at = "publishing" =>
      /\ dispatcher[d].now \in Note
      /\ note[dispatcher[d].now].stage = "claimed"
      /\ published[dispatcher[d].now] = 0
      /\ \A c \in Dispatcher :
           dispatcher[c].at = "publishing" /\ dispatcher[c].now = dispatcher[d].now => c = d

UnclaimedUnpublished ==
    \A n \in Note : published[n] <= 1 /\ (note[n].stage # "claimed" => published[n] = 0)

DispatchInv == DispatchRowsOK /\ PublishesOwnClaim /\ UnclaimedUnpublished

-------------------------------------------------------------------------------
(* Rows *)

\* A notification whose stage changes is a notification.
LEMMA StageRow ==
  ASSUME NEW entry \in NoteRow, NEW stage \in {"unborn", "new", "old", "claimed"}
  PROVE  [entry EXCEPT !.stage = stage] \in NoteRow /\ [entry EXCEPT !.stage = stage].stage = stage
  BY DEF NoteRow

\* The dispatcher that waits,
LEMMA IdleRow == Idle \in DispatcherRow /\ Idle.at = "idle"
  BY DispatchAssumption DEF Idle, DispatcherRow, Note

\* one that read what is pending,
LEMMA ChoosingRow ==
  ASSUME NEW r \in DispatcherRow, NEW pending \in SUBSET Note
  PROVE  LET q == [r EXCEPT !.at = "choosing", !.pending = pending]
         IN  q \in DispatcherRow /\ q.at = "choosing"
  BY DEF DispatcherRow

\* one that goes on to another,
LEMMA DispatcherRests ==
  ASSUME NEW r \in DispatcherRow, NEW pending \in SUBSET Note
  PROVE  LET q == [r EXCEPT !.pending = pending]
         IN  q \in DispatcherRow /\ q.at = r.at /\ q.now = r.now
  BY DEF DispatcherRow

\* one that claimed one,
LEMMA PublishingRow ==
  ASSUME NEW r \in DispatcherRow, NEW n \in 0 .. MaxNote
  PROVE  LET q == [r EXCEPT !.at = "publishing", !.now = n]
         IN  q \in DispatcherRow /\ q.at = "publishing" /\ q.now = n
  BY DEF DispatcherRow

\* one that published it,
LEMMA ReadingRow ==
  ASSUME NEW r \in DispatcherRow
  PROVE  [r EXCEPT !.at = "reading"] \in DispatcherRow /\ [r EXCEPT !.at = "reading"].at = "reading"
  BY DEF DispatcherRow

\* one that read the devices,
LEMMA PushingRow ==
  ASSUME NEW r \in DispatcherRow, NEW to \in SUBSET Endpoint
  PROVE  LET q == [r EXCEPT !.at = "pushing", !.to = to]
         IN  q \in DispatcherRow /\ q.at = "pushing"
  BY DEF DispatcherRow

\* one that pushed to a device,
LEMMA PushedRow ==
  ASSUME NEW r \in DispatcherRow, NEW to \in SUBSET Endpoint
  PROVE  LET q == [r EXCEPT !.to = to]
         IN  q \in DispatcherRow /\ q.at = r.at
  BY DEF DispatcherRow

\* and one that is done with a notification.
LEMMA DoneRow ==
  ASSUME NEW r \in DispatcherRow
  PROVE  LET q == [r EXCEPT !.at = "choosing", !.now = 0]
         IN  q \in DispatcherRow /\ q.at = "choosing"
<1>1. 0 \in 0 .. MaxNote
  BY DispatchAssumption
<1> QED
  BY <1>1 DEF DispatcherRow

-------------------------------------------------------------------------------
(* Steps *)

\* The initial states.
LEMMA DispatchStart == ASSUME DispatchInit PROVE DispatchInv
<1>1. NoNote \in NoteRow /\ NoNote.stage = "unborn"
  BY DEF NoNote, NoteRow
<1>2. DispatchRowsOK
  BY <1>1, IdleRow DEF DispatchInit, DispatchRowsOK
<1> QED
  BY <1>2, IdleRow DEF DispatchInit, DispatchInv, PublishesOwnClaim, UnclaimedUnpublished

\* A dispatcher that turns to something other than publishing.
LEMMA MovesKeeps ==
  ASSUME DispatchInv, NEW d \in Dispatcher, NEW q \in DispatcherRow, Moves(d, q),
         q.at # "publishing", UNCHANGED <<note, published>>
  PROVE  DispatchInv'
<1>1. /\ dispatcher' \in [Dispatcher -> DispatcherRow] /\ dispatcher'[d] = q
      /\ \A c \in Dispatcher : c # d => dispatcher'[c] = dispatcher[c]
  BY DEF DispatchInv, DispatchRowsOK, Moves
<1>2. DispatchRowsOK'
  BY <1>1 DEF DispatchInv, DispatchRowsOK
<1>3. PublishesOwnClaim'
  BY <1>1 DEF DispatchInv, PublishesOwnClaim
<1> QED
  BY <1>2, <1>3 DEF DispatchInv, UnclaimedUnpublished

\* A notification that is written or ages was not claimed before.
LEMMA NoteKeeps ==
  ASSUME DispatchInv, NEW n \in Note, NEW entry \in NoteRow, note[n].stage # "claimed",
         note' = [note EXCEPT ![n] = entry], UNCHANGED <<dispatcher, published>>
  PROVE  DispatchInv'
<1>1. note' \in [Note -> NoteRow] /\ \A m \in Note : m # n => note'[m] = note[m]
  BY DEF DispatchInv, DispatchRowsOK
<1>2. DispatchRowsOK'
  BY <1>1 DEF DispatchInv, DispatchRowsOK
<1>3. PublishesOwnClaim'
  BY <1>1 DEF DispatchInv, PublishesOwnClaim
<1>4. UnclaimedUnpublished'
  BY <1>1 DEF DispatchInv, UnclaimedUnpublished
<1> QED
  BY <1>2, <1>3, <1>4 DEF DispatchInv

\* A new notification takes the first row that is free.
LEMMA CreateKeeps ==
  ASSUME DispatchInv, NEW u \in Account, CreateNote(u)
  PROVE  DispatchInv'
<1> DEFINE free == {x \in Note : note[x].stage = "unborn"}
           n == Min(free)
<1>1. free # {} /\ free \in SUBSET Nat
  BY DEF CreateNote, Note
<1>2. n \in free
  BY <1>1, MinLeast
<1>3. n \in Note /\ note[n].stage # "claimed"
  BY <1>2
<1>4. [to |-> u, stage |-> "new"] \in NoteRow
  BY DEF NoteRow
<1>5. note' = [note EXCEPT ![n] = [to |-> u, stage |-> "new"]] /\ UNCHANGED <<dispatcher, published>>
  BY DEF CreateNote
<1> HIDE DEF n
<1> QED
  BY <1>3, <1>4, <1>5, NoteKeeps

\* A notification that gets old.
LEMMA AgeKeeps ==
  ASSUME DispatchInv, NEW n \in Note, Age(n)
  PROVE  DispatchInv'
<1>1. [note[n] EXCEPT !.stage = "old"] \in NoteRow
  BY StageRow DEF DispatchInv, DispatchRowsOK
<1>2. /\ note' = [note EXCEPT ![n] = [note[n] EXCEPT !.stage = "old"]]
      /\ note[n].stage # "claimed" /\ UNCHANGED <<dispatcher, published>>
  BY DEF Age
<1> QED
  BY <1>1, <1>2, NoteKeeps

\* Only one dispatcher gets to claim a notification.
LEMMA DispatchClaimKeeps ==
  ASSUME DispatchInv, NEW d \in Dispatcher, Claim(d)
  PROVE  DispatchInv'
<1> DEFINE n == Min(dispatcher[d].pending)
           pending == dispatcher[d].pending \ {n}
           rest == [dispatcher[d] EXCEPT !.pending = pending]
           q == [rest EXCEPT !.at = "publishing", !.now = n]
<1>0. /\ dispatcher \in [Dispatcher -> DispatcherRow] /\ dispatcher[d] \in DispatcherRow
      /\ note \in [Note -> NoteRow] /\ published \in [Note -> Nat]
      /\ dispatcher[d].at = "choosing" /\ dispatcher[d].pending # {} /\ published' = published
  BY DEF DispatchInv, DispatchRowsOK, Claim
<1>1. n \in Note /\ n \in 0 .. MaxNote
  <2>1. dispatcher[d].pending \in SUBSET Note
    BY <1>0 DEF DispatcherRow
  <2>2. dispatcher[d].pending \in SUBSET Nat
    BY <2>1 DEF Note
  <2>3. n \in dispatcher[d].pending
    BY <1>0, <2>2, MinLeast
  <2>4. n \in Note
    BY <2>1, <2>3
  <2> HIDE DEF n
  <2> QED
    BY <2>4, DispatchAssumption DEF Note
<1>2. pending \in SUBSET Note
  BY <1>0 DEF DispatcherRow
<1>3. CASE ~Claimable(n)
  <2>1. note' = note /\ Moves(d, rest)
    BY <1>3 DEF Claim
  <2> HIDE DEF pending
  <2>2. rest \in DispatcherRow /\ rest.at = "choosing"
    BY <1>0, <1>2, DispatcherRests
  <2> HIDE DEF rest
  <2> QED
    BY <1>0, <2>1, <2>2, MovesKeeps
<1>4. CASE Claimable(n)
  <2>1. note' = [note EXCEPT ![n].stage = "claimed"] /\ Moves(d, q)
    BY <1>4 DEF Claim
  <2> HIDE DEF pending
  <2>2. rest \in DispatcherRow
    BY <1>0, <1>2, DispatcherRests
  <2> HIDE DEF rest, n
  <2>3. q \in DispatcherRow /\ q.at = "publishing" /\ q.now = n
    BY <1>1, <2>2, PublishingRow
  <2> HIDE DEF q
  <2>4. /\ dispatcher' \in [Dispatcher -> DispatcherRow] /\ dispatcher'[d] = q
        /\ \A c \in Dispatcher : c # d => dispatcher'[c] = dispatcher[c]
    BY <1>0, <2>1, <2>3 DEF Moves
  <2>5. [note[n] EXCEPT !.stage = "claimed"] \in NoteRow
    BY <1>0, <1>1, StageRow
  <2>6. /\ note' \in [Note -> NoteRow] /\ note'[n].stage = "claimed"
        /\ \A m \in Note : m # n => note'[m] = note[m]
    BY <1>0, <1>1, <2>1, <2>5, StageRow
  <2>7. published[n] = 0 /\ note[n].stage # "claimed"
    BY <1>1, <1>4 DEF DispatchInv, UnclaimedUnpublished, Claimable
  <2>8. DispatchRowsOK'
    BY <1>0, <2>4, <2>6 DEF DispatchRowsOK
  <2>9. UnclaimedUnpublished'
    BY <1>0, <2>6, <2>7 DEF DispatchInv, UnclaimedUnpublished
  <2>10. \A c \in Dispatcher : c # d /\ dispatcher[c].at = "publishing" => dispatcher[c].now # n
    BY <2>7 DEF DispatchInv, PublishesOwnClaim
  <2>11. PublishesOwnClaim'
    <3> SUFFICES ASSUME NEW c \in Dispatcher, dispatcher'[c].at = "publishing"
                 PROVE  /\ dispatcher'[c].now \in Note
                        /\ note'[dispatcher'[c].now].stage = "claimed"
                        /\ published[dispatcher'[c].now] = 0
                        /\ \A b \in Dispatcher :
                             dispatcher'[b].at = "publishing" /\ dispatcher'[b].now = dispatcher'[c].now
                               => b = c
      BY <1>0 DEF PublishesOwnClaim
    <3>1. CASE c = d
      BY <1>1, <2>3, <2>4, <2>6, <2>7, <2>10, <3>1
    <3>2. CASE c # d
      <4>1. dispatcher'[c] = dispatcher[c] /\ dispatcher[c].now # n
        BY <2>4, <2>10, <3>2
      <4> QED
        BY <2>3, <2>4, <2>6, <3>2, <4>1 DEF DispatchInv, PublishesOwnClaim
    <3> QED
      BY <3>1, <3>2
  <2> QED
    BY <2>8, <2>9, <2>11 DEF DispatchInv
<1> QED
  BY <1>3, <1>4

\* What a dispatcher publishes it has claimed and leaves.
LEMMA PublishKeeps ==
  ASSUME DispatchInv, NEW d \in Dispatcher, Publish(d)
  PROVE  DispatchInv'
<1> DEFINE n == dispatcher[d].now
           q == [dispatcher[d] EXCEPT !.at = "reading"]
<1>0. /\ dispatcher \in [Dispatcher -> DispatcherRow] /\ dispatcher[d] \in DispatcherRow
      /\ published \in [Note -> Nat] /\ n \in Note /\ published[n] = 0
      /\ note[n].stage = "claimed"
      /\ published' = [published EXCEPT ![n] = published[n] + 1] /\ Moves(d, q) /\ note' = note
      /\ \A c \in Dispatcher : c # d /\ dispatcher[c].at = "publishing" => dispatcher[c].now # n
  BY DEF DispatchInv, DispatchRowsOK, PublishesOwnClaim, Publish
<1>1. q \in DispatcherRow /\ q.at = "reading"
  BY <1>0, ReadingRow
<1> HIDE DEF q
<1>2. /\ dispatcher' \in [Dispatcher -> DispatcherRow] /\ dispatcher'[d] = q
      /\ \A c \in Dispatcher : c # d => dispatcher'[c] = dispatcher[c]
  BY <1>0, <1>1 DEF Moves
<1>3. /\ published' \in [Note -> Nat] /\ published'[n] = 1
      /\ \A m \in Note : m # n => published'[m] = published[m]
  BY <1>0
<1> HIDE DEF n
<1>4. DispatchRowsOK'
  BY <1>0, <1>2, <1>3 DEF DispatchInv, DispatchRowsOK
<1>5. UnclaimedUnpublished'
  BY <1>0, <1>3 DEF DispatchInv, UnclaimedUnpublished
<1>6. PublishesOwnClaim'
  BY <1>0, <1>1, <1>2, <1>3 DEF DispatchInv, PublishesOwnClaim
<1> QED
  BY <1>4, <1>5, <1>6 DEF DispatchInv

\* Every step keeps the invariant.
LEMMA DispatchKeeps ==
  ASSUME DispatchInv, [DispatchNext]_dispatchVars
  PROVE  DispatchInv'
<1>0. ASSUME NEW d \in Dispatcher PROVE dispatcher[d] \in DispatcherRow
  BY DEF DispatchInv, DispatchRowsOK
<1>1. ASSUME NEW d \in Dispatcher, StartDispatch(d) PROVE DispatchInv'
  <2>1. Oldest(Pending) \in SUBSET Note
    BY DEF Oldest, Pending
  <2> QED
    BY <1>1, <2>1, IdleRow, ChoosingRow, MovesKeeps DEF StartDispatch
<1>2. ASSUME NEW d \in Dispatcher, EndDispatch(d) \/ DispatchDies(d) PROVE DispatchInv'
  BY <1>2, IdleRow, MovesKeeps DEF EndDispatch, DispatchDies
<1>3. ASSUME NEW d \in Dispatcher, ReadDevices(d) PROVE DispatchInv'
  <2> DEFINE u == note[dispatcher[d].now].to
             to == {e \in Endpoint : u \in pushOn /\ registered[e] = u}
             q == [dispatcher[d] EXCEPT !.at = "pushing", !.to = to]
  <2>1. to \in SUBSET Endpoint
    OBVIOUS
  <2>2. Moves(d, q) /\ UNCHANGED <<note, published>>
    BY <1>3 DEF ReadDevices
  <2> HIDE DEF to
  <2>3. q \in DispatcherRow /\ q.at # "publishing"
    BY <1>0, <2>1, PushingRow
  <2> HIDE DEF q
  <2> QED
    BY <2>2, <2>3, MovesKeeps
<1>4. ASSUME NEW d \in Dispatcher, NEW e \in Endpoint, PushTo(d, e) PROVE DispatchInv'
  <2> DEFINE to == dispatcher[d].to \ {e}
             q == [dispatcher[d] EXCEPT !.to = to]
  <2>1. to \in SUBSET Endpoint
    BY <1>0 DEF DispatcherRow
  <2>2. dispatcher[d].at = "pushing" /\ Moves(d, q) /\ UNCHANGED <<note, published>>
    BY <1>4 DEF PushTo
  <2> HIDE DEF to
  <2>3. q \in DispatcherRow /\ q.at # "publishing"
    BY <1>0, <2>1, <2>2, PushedRow
  <2> HIDE DEF q
  <2> QED
    BY <2>2, <2>3, MovesKeeps
<1>5. ASSUME NEW d \in Dispatcher, NextNote(d) PROVE DispatchInv'
  BY <1>0, <1>5, DoneRow, MovesKeeps DEF NextNote
<1>6. ASSUME NEW d \in Dispatcher, DispatchStep(d) PROVE DispatchInv'
  BY <1>1, <1>2, <1>3, <1>4, <1>5, <1>6, DispatchClaimKeeps, PublishKeeps DEF DispatchStep
<1>7. ASSUME UNCHANGED <<note, dispatcher, published>> PROVE DispatchInv'
  BY <1>7 DEF DispatchInv, DispatchRowsOK, PublishesOwnClaim, UnclaimedUnpublished
<1>8. ASSUME NEW b \in Browser, BrowserStep(b) PROVE UNCHANGED <<note, dispatcher, published>>
  BY <1>8 DEF BrowserStep, SignIn, SessionOver, GetSubscription, SaveSubscription, SubscribeFails,
              BeginSubscribe, BeginLeaving, RemoveRow, DropSubscription, SignOut, TurnPushOff,
              ShowPush
<1>9. CASE UNCHANGED dispatchVars
  BY <1>7, <1>9 DEF dispatchVars
<1> QED
  BY <1>2, <1>6, <1>7, <1>8, <1>9, CreateKeeps, AgeKeeps DEF DispatchNext

-------------------------------------------------------------------------------

\* However many dispatchers read a notification before the first claimed it, and
\* whichever of them die, it is published at most once (dispatchPendingNotifications).
THEOREM PublishesOnce == DispatchSpec => []PublishedOnce
<1>1. DispatchInit => DispatchInv
  BY DispatchStart
<1>2. DispatchInv /\ [DispatchNext]_dispatchVars => DispatchInv'
  BY DispatchKeeps
<1>3. DispatchInv => PublishedOnce
  BY DEF DispatchInv, UnclaimedUnpublished, PublishedOnce
<1> QED
  BY <1>1, <1>2, <1>3, PTL DEF DispatchSpec

-------------------------------------------------------------------------------
(* Dispatch: pushes and who signed out *)

BrowserRow ==
    [user : Account \cup {Nobody}, endpoint : Nat, task : {"none", "asked", "sending"},
     asking : [who : Account \cup {Nobody}, for : Nat], leaving : {"no", "off", "out"},
     phase : {"none", "removing", "dropping", "done"}, crossed : BOOLEAN,
     failed : SUBSET {"row", "endpoint"}]

PushRowsOK ==
    /\ note \in [Note -> NoteRow]
    /\ dispatcher \in [Dispatcher -> DispatcherRow]
    /\ registered \in [Endpoint -> Account \cup {Nobody}]
    /\ browser \in [Browser -> BrowserRow]
    /\ wire \subseteq [note : Note, endpoint : Endpoint]
    /\ left \in [Browser -> SUBSET (Account \X Note)]
    /\ issued \in Nat

\* What is dispatched or pushed was claimed, so its recipient no longer changes.
PushedWasClaimed ==
    /\ \A d \in Dispatcher : dispatcher[d].at \in {"publishing", "reading", "pushing"} =>
         dispatcher[d].now \in Note /\ note[dispatcher[d].now].stage = "claimed"
    /\ \A w \in wire : note[w.note].stage = "claimed"

\* The notification n may come to e as a push for u, now or when it is dispatched.
Reaches(e, u, n) ==
    \/ registered[e] = u
    \/ \E d \in Dispatcher : /\ dispatcher[d].at = "pushing" /\ e \in dispatcher[d].to
                             /\ dispatcher[d].now = n /\ note[n].to = u
    \/ \E w \in wire : w.endpoint = e /\ w.note = n /\ note[n].to = u

\* An endpoint nobody was given reaches nobody.
NotIssuedYet == \A e \in Endpoint, u \in Account, n \in Note : e > issued => ~Reaches(e, u, n)

\* Each browser has its own endpoint, and registers its own.
OwnEndpoint ==
    \A b \in Browser :
      /\ browser[b].endpoint <= issued /\ browser[b].asking.for <= issued
      /\ browser[b].endpoint # 0 =>
           \A c \in Browser \ {b} : /\ browser[c].endpoint # browser[b].endpoint
                                    /\ browser[c].asking.for # browser[b].endpoint

\* Somebody leaves, and with no registration under way ends without an endpoint, or
\* with the failure to drop it on record.
Leaves(q) ==
    q.leaving # "no" =>
      /\ q.user # Nobody
      /\ ~q.crossed => /\ q.task = "none"
                       /\ q.phase = "done" /\ "endpoint" \notin q.failed => q.endpoint = 0

LeavesNothing == \A b \in Browser : Leaves(browser[b])

\* Once the row is removed, the endpoint is not registered for the one who leaves.
RowGone(q, rows) ==
    (/\ q.leaving # "no" /\ ~q.crossed
     /\ q.phase \in {"dropping", "done"} /\ "row" \notin q.failed) =>
        \A e \in Endpoint : q.endpoint = e => rows[e] # q.user

RowRemoved == \A b \in Browser : RowGone(browser[b], registered)

\* The endpoint of a browser gets none of the pushes that were withdrawn there.
LeftAlone ==
    \A b \in Browser : \A u \in Account, n \in Note : <<u, n>> \in left[b] =>
      /\ browser[b].user # u
      /\ \A e \in Endpoint : browser[b].endpoint = e => ~Reaches(e, u, n)

PushInv == /\ PushRowsOK /\ PushedWasClaimed /\ NotIssuedYet /\ OwnEndpoint
           /\ LeavesNothing /\ RowRemoved /\ LeftAlone

LEMMA PushStart == DispatchInit => PushInv
<1> SUFFICES ASSUME DispatchInit PROVE PushInv
  OBVIOUS
<1>1. SignedOut \in BrowserRow
  BY DEF SignedOut, BrowserRow
<1>2. /\ SignedOut.endpoint = 0 /\ SignedOut.asking.for = 0 /\ SignedOut.leaving = "no"
  BY DEF SignedOut
<1>3. NoNote \in NoteRow
  BY DEF NoNote, NoteRow
<1>4. PushRowsOK
  BY <1>1, <1>3, IdleRow DEF DispatchInit, PushRowsOK
<1>5. PushedWasClaimed
  BY IdleRow DEF DispatchInit, PushedWasClaimed
<1>6. NotIssuedYet
  <2> SUFFICES ASSUME NEW e \in Endpoint, NEW u \in Account, NEW n \in Note
               PROVE  ~Reaches(e, u, n)
    BY DEF NotIssuedYet
  <2> QED
    BY DispatchAssumption, IdleRow DEF DispatchInit, Reaches
<1>7. OwnEndpoint /\ LeavesNothing /\ RowRemoved
  BY <1>2 DEF DispatchInit, OwnEndpoint, LeavesNothing, Leaves, RowRemoved, RowGone
<1>8. LeftAlone
  BY DEF DispatchInit, LeftAlone
<1> QED
  BY <1>4, <1>5, <1>6, <1>7, <1>8 DEF PushInv

\* A step of a dispatcher or of the push service: it may only reach fewer.
LEMMA ReachesFewer ==
  ASSUME PushInv, PushRowsOK', PushedWasClaimed', UNCHANGED <<browser, left, issued>>,
         \A e \in Endpoint : registered'[e] = registered[e] \/ registered'[e] = Nobody,
         \A e \in Endpoint, u \in Account, n \in Note : Reaches(e, u, n)' => Reaches(e, u, n)
  PROVE  PushInv'
<1>1. NotIssuedYet'
  BY DEF PushInv, NotIssuedYet
<1>2. OwnEndpoint' /\ LeavesNothing'
  BY DEF PushInv, OwnEndpoint, LeavesNothing
<1>3. RowRemoved'
  BY DEF PushInv, RowRemoved, RowGone, LeavesNothing, Leaves
<1>4. LeftAlone'
  <2> SUFFICES ASSUME NEW b \in Browser, NEW u \in Account, NEW n \in Note, <<u, n>> \in left[b]
               PROVE  /\ browser[b].user # u
                      /\ \A e \in Endpoint : browser[b].endpoint = e => ~Reaches(e, u, n)'
    BY DEF LeftAlone
  <2> QED
    BY DEF PushInv, LeftAlone
<1> QED
  BY <1>1, <1>2, <1>3, <1>4 DEF PushInv

\* A step of a browser that gets no new endpoint and registers none.
LEMMA BrowserMoves ==
  ASSUME PushInv, NEW b \in Browser, NEW q \in BrowserRow, browser' = [browser EXCEPT ![b] = q],
         UNCHANGED <<note, dispatcher, wire, issued>>,
         registered' \in [Endpoint -> Account \cup {Nobody}],
         \A e \in Endpoint : registered'[e] = registered[e] \/ registered'[e] = Nobody,
         q.endpoint = browser[b].endpoint \/ q.endpoint = 0,
         q.asking.for = browser[b].asking.for \/ q.asking.for = 0,
         Leaves(q), RowGone(q, registered'),
         left' \in [Browser -> SUBSET (Account \X Note)],
         \A c \in Browser \ {b} : left'[c] = left[c],
         \A u \in Account, n \in Note : <<u, n>> \in left'[b] =>
             /\ q.user # u
             /\ \/ <<u, n>> \in left[b]
                \/ \A e \in Endpoint : q.endpoint = e => ~Reaches(e, u, n)
  PROVE  PushInv'
<1>0. PushRowsOK
  BY DEF PushInv
<1>1. /\ browser' \in [Browser -> BrowserRow] /\ browser'[b] = q
      /\ \A c \in Browser \ {b} : browser'[c] = browser[c]
  BY <1>0 DEF PushRowsOK
<1>2. PushRowsOK'
  BY <1>0, <1>1 DEF PushRowsOK
<1>3. PushedWasClaimed'
  BY DEF PushInv, PushedWasClaimed
<1>4. ASSUME NEW e \in Endpoint, NEW u \in Account, NEW n \in Note, Reaches(e, u, n)'
      PROVE  Reaches(e, u, n)
  BY <1>4, DispatchAssumption DEF Reaches
<1>5. NotIssuedYet'
  BY <1>4 DEF PushInv, NotIssuedYet
<1>6. OwnEndpoint'
  <2>1. issued \in Nat
    BY <1>0 DEF PushRowsOK
  <2> QED
    BY <1>1, <2>1 DEF PushInv, OwnEndpoint
<1>7. LeavesNothing'
  BY <1>1 DEF PushInv, LeavesNothing
<1>8. RowRemoved'
  <2>1. ASSUME NEW c \in Browser \ {b} PROVE RowGone(browser[c], registered')
    BY DEF PushInv, RowRemoved, RowGone, LeavesNothing, Leaves
  <2> QED
    BY <1>1, <2>1 DEF RowRemoved
<1>9. LeftAlone'
  <2> SUFFICES ASSUME NEW c \in Browser, NEW u \in Account, NEW n \in Note, <<u, n>> \in left'[c]
               PROVE  /\ browser'[c].user # u
                      /\ \A e \in Endpoint : browser'[c].endpoint = e => ~Reaches(e, u, n)'
    BY DEF LeftAlone
  <2>1. CASE c # b
    <3>1. browser'[c] = browser[c] /\ <<u, n>> \in left[c]
      BY <1>1, <2>1
    <3> QED
      BY <1>4, <3>1 DEF PushInv, LeftAlone
  <2>2. CASE c = b
    <3>1. /\ q.user # u
          /\ \/ <<u, n>> \in left[b]
             \/ \A e \in Endpoint : q.endpoint = e => ~Reaches(e, u, n)
      BY <2>2
    <3>2. 0 \notin Endpoint
      BY DispatchAssumption DEF Endpoint
    <3>3. \A e \in Endpoint : q.endpoint = e => ~Reaches(e, u, n)
      BY <3>1, <3>2 DEF PushInv, LeftAlone
    <3> QED
      BY <1>1, <1>4, <2>2, <3>1, <3>3
  <2> QED
    BY <2>1, <2>2
<1> QED
  BY <1>2, <1>3, <1>5, <1>6, <1>7, <1>8, <1>9 DEF PushInv

\* What a new notification overwrites was not claimed.
LEMMA CreatePush == ASSUME PushInv, NEW u \in Account, CreateNote(u) PROVE PushInv'
<1> DEFINE free == {x \in Note : note[x].stage = "unborn"}
<1>1. PICK n \in Note : /\ note[n].stage = "unborn"
                        /\ note' = [note EXCEPT ![n] = [to |-> u, stage |-> "new"]]
  <2>1. free # {} /\ free \in SUBSET Nat
    BY DEF CreateNote, Note
  <2>2. Min(free) \in free
    BY <2>1, MinLeast
  <2> QED
    BY <2>2 DEF CreateNote
<1>2. UNCHANGED <<dispatcher, registered, browser, issued, wire, left>>
  BY DEF CreateNote
<1>3. /\ note' \in [Note -> NoteRow]
      /\ \A m \in Note : note[m].stage = "claimed" => note'[m] = note[m]
  <2>1. [to |-> u, stage |-> "new"] \in NoteRow
    BY DEF NoteRow
  <2> QED
    BY <1>1, <2>1 DEF PushInv, PushRowsOK
<1>4. PushRowsOK'
  BY <1>2, <1>3 DEF PushInv, PushRowsOK
<1>5. PushedWasClaimed'
  BY <1>2, <1>3 DEF PushInv, PushRowsOK, PushedWasClaimed
<1>6. ASSUME NEW e \in Endpoint, NEW v \in Account, NEW m \in Note, Reaches(e, v, m)'
      PROVE  Reaches(e, v, m)
  BY <1>2, <1>3, <1>6 DEF PushInv, PushRowsOK, PushedWasClaimed, Reaches
<1> QED
  BY <1>2, <1>4, <1>5, <1>6, ReachesFewer

LEMMA AgePush == ASSUME PushInv, NEW n \in Note, Age(n) PROVE PushInv'
<1>1. /\ note[n].stage # "claimed" /\ note' = [note EXCEPT ![n] = [note[n] EXCEPT !.stage = "old"]]
      /\ UNCHANGED <<dispatcher, registered, browser, issued, wire, left>>
  BY DEF Age
<1>2. /\ note' \in [Note -> NoteRow]
      /\ \A m \in Note : note[m].stage = "claimed" => note'[m] = note[m]
  <2>1. [note[n] EXCEPT !.stage = "old"] \in NoteRow
    BY StageRow DEF PushInv, PushRowsOK
  <2> QED
    BY <1>1, <2>1 DEF PushInv, PushRowsOK
<1>3. PushRowsOK'
  BY <1>1, <1>2 DEF PushInv, PushRowsOK
<1>4. PushedWasClaimed'
  BY <1>1, <1>2 DEF PushInv, PushRowsOK, PushedWasClaimed
<1>5. ASSUME NEW e \in Endpoint, NEW v \in Account, NEW m \in Note, Reaches(e, v, m)'
      PROVE  Reaches(e, v, m)
  BY <1>1, <1>2, <1>5 DEF PushInv, PushRowsOK, PushedWasClaimed, Reaches
<1> QED
  BY <1>1, <1>3, <1>4, <1>5, ReachesFewer

\* A dispatcher that goes on, to reach nothing it could not reach.
LEMMA DispatcherPush ==
  ASSUME PushInv, NEW d \in Dispatcher, NEW q \in DispatcherRow, Moves(d, q),
         UNCHANGED <<browser, left, issued, note, registered, wire>>,
         q.at \in {"publishing", "reading", "pushing"} =>
           q.now \in Note /\ note[q.now].stage = "claimed",
         q.at = "pushing" => \A e \in q.to : \/ registered[e] = note[q.now].to
                                             \/ /\ dispatcher[d].at = "pushing"
                                                /\ e \in dispatcher[d].to
                                                /\ q.now = dispatcher[d].now
  PROVE  PushInv'
<1>1. /\ dispatcher' \in [Dispatcher -> DispatcherRow] /\ dispatcher'[d] = q
      /\ \A c \in Dispatcher : c # d => dispatcher'[c] = dispatcher[c]
  BY DEF PushInv, PushRowsOK, Moves
<1>2. PushRowsOK'
  BY <1>1 DEF PushInv, PushRowsOK
<1>3. PushedWasClaimed'
  BY <1>1 DEF PushInv, PushedWasClaimed
<1>4. ASSUME NEW e \in Endpoint, NEW v \in Account, NEW m \in Note, Reaches(e, v, m)'
      PROVE  Reaches(e, v, m)
  BY <1>1, <1>4 DEF Reaches
<1> QED
  BY <1>2, <1>3, <1>4, ReachesFewer

LEMMA ClaimPush == ASSUME PushInv, NEW d \in Dispatcher, Claim(d) PROVE PushInv'
<1> DEFINE n == Min(dispatcher[d].pending)
           pending == dispatcher[d].pending \ {n}
           rest == [dispatcher[d] EXCEPT !.pending = pending]
           q == [rest EXCEPT !.at = "publishing", !.now = n]
<1>0. /\ dispatcher \in [Dispatcher -> DispatcherRow] /\ dispatcher[d] \in DispatcherRow
      /\ note \in [Note -> NoteRow]
      /\ dispatcher[d].at = "choosing" /\ dispatcher[d].pending # {}
      /\ UNCHANGED <<browser, left, issued, registered, wire>>
  BY DEF PushInv, PushRowsOK, Claim
<1>1. n \in Note /\ n \in 0 .. MaxNote
  <2>1. dispatcher[d].pending \in SUBSET Note
    BY <1>0 DEF DispatcherRow
  <2>2. dispatcher[d].pending \in SUBSET Nat
    BY <2>1 DEF Note
  <2>3. n \in dispatcher[d].pending
    BY <1>0, <2>2, MinLeast
  <2>4. n \in Note
    BY <2>1, <2>3
  <2> HIDE DEF n
  <2> QED
    BY <2>4, DispatchAssumption DEF Note
<1>2. pending \in SUBSET Note
  BY <1>0 DEF DispatcherRow
<1>3. CASE ~Claimable(n)
  <2>1. note' = note /\ Moves(d, rest)
    BY <1>3 DEF Claim
  <2> HIDE DEF pending
  <2>2. rest \in DispatcherRow /\ rest.at = "choosing"
    BY <1>0, <1>2, DispatcherRests
  <2> HIDE DEF rest
  <2> QED
    BY <1>0, <2>1, <2>2, DispatcherPush
<1>4. CASE Claimable(n)
  <2>1. note' = [note EXCEPT ![n].stage = "claimed"] /\ Moves(d, q)
    BY <1>4 DEF Claim
  <2> HIDE DEF pending
  <2>2. rest \in DispatcherRow
    BY <1>0, <1>2, DispatcherRests
  <2> HIDE DEF rest, n
  <2>3. q \in DispatcherRow /\ q.at = "publishing" /\ q.now = n
    BY <1>1, <2>2, PublishingRow
  <2> HIDE DEF q
  <2>4. /\ dispatcher' \in [Dispatcher -> DispatcherRow] /\ dispatcher'[d] = q
        /\ \A c \in Dispatcher : c # d => dispatcher'[c] = dispatcher[c]
    BY <1>0, <2>1, <2>3 DEF Moves
  <2>5. [note[n] EXCEPT !.stage = "claimed"] \in NoteRow
    BY <1>0, <1>1, StageRow
  <2>6. /\ note' \in [Note -> NoteRow] /\ note'[n].stage = "claimed"
        /\ \A m \in Note : m # n => note'[m] = note[m]
    BY <1>0, <1>1, <2>1, <2>5, StageRow
  <2>7. note[n].stage # "claimed"
    BY <1>4 DEF Claimable
  <2>8. PushRowsOK'
    BY <1>0, <2>4, <2>6 DEF PushInv, PushRowsOK
  <2>9. PushedWasClaimed'
    <3>1. \A m \in Note : note[m].stage = "claimed" => note'[m].stage = "claimed"
      BY <2>6
    <3>2. \A c \in Dispatcher : dispatcher'[c].at \in {"publishing", "reading", "pushing"} =>
            dispatcher'[c].now \in Note /\ note'[dispatcher'[c].now].stage = "claimed"
      BY <1>1, <2>3, <2>4, <2>6, <3>1 DEF PushInv, PushedWasClaimed
    <3>3. \A w \in wire' : note'[w.note].stage = "claimed"
      BY <1>0, <3>1 DEF PushInv, PushRowsOK, PushedWasClaimed
    <3> QED
      BY <3>2, <3>3 DEF PushedWasClaimed
  <2>10. ASSUME NEW e \in Endpoint, NEW v \in Account, NEW m \in Note, Reaches(e, v, m)'
      PROVE  Reaches(e, v, m)
    BY <1>0, <2>3, <2>4, <2>6, <2>7, <2>10 DEF PushInv, PushRowsOK, PushedWasClaimed, Reaches
  <2> QED
    BY <1>0, <2>8, <2>9, <2>10, ReachesFewer
<1> QED
  BY <1>3, <1>4

\* What is accepted by the push service, or found gone, was to be pushed.
LEMMA PushToKeeps ==
  ASSUME PushInv, NEW d \in Dispatcher, NEW e \in Endpoint, PushTo(d, e) PROVE PushInv'
<1> DEFINE to == dispatcher[d].to \ {e}
           q == [dispatcher[d] EXCEPT !.to = to]
           now == dispatcher[d].now
<1>0. /\ dispatcher \in [Dispatcher -> DispatcherRow] /\ dispatcher[d] \in DispatcherRow
      /\ dispatcher[d].at = "pushing" /\ e \in dispatcher[d].to
      /\ now \in Note /\ note[now].stage = "claimed"
      /\ registered \in [Endpoint -> Account \cup {Nobody}]
      /\ wire \subseteq [note : Note, endpoint : Endpoint]
  BY DEF PushInv, PushRowsOK, PushedWasClaimed, PushTo
<1>1. Moves(d, q) /\ UNCHANGED <<browser, left, issued, note>>
  BY DEF PushTo
<1>2. to \in SUBSET Endpoint /\ to \subseteq dispatcher[d].to
  BY <1>0 DEF DispatcherRow
<1>3. /\ wire' = wire \/ wire' = wire \cup {[note |-> now, endpoint |-> e]}
      /\ registered' = registered \/ registered' = [registered EXCEPT ![e] = Nobody]
  BY DEF PushTo
<1> HIDE DEF to
<1>4. q \in DispatcherRow /\ q.at = "pushing" /\ q.now = now /\ q.to = to
  <2>1. q \in DispatcherRow /\ q.at = dispatcher[d].at
    BY <1>0, <1>2, PushedRow
  <2> QED
    BY <1>0, <2>1 DEF DispatcherRow
<1> HIDE DEF q
<1>5. /\ dispatcher' \in [Dispatcher -> DispatcherRow] /\ dispatcher'[d] = q
      /\ \A c \in Dispatcher : c # d => dispatcher'[c] = dispatcher[c]
  BY <1>0, <1>1, <1>4 DEF Moves
<1> HIDE DEF now
<1>6. /\ \A w \in wire' : w \in wire \/ (w.note = now /\ w.endpoint = e)
      /\ wire' \subseteq [note : Note, endpoint : Endpoint]
  BY <1>0, <1>3
<1>7. /\ registered' \in [Endpoint -> Account \cup {Nobody}]
      /\ \A x \in Endpoint : registered'[x] = registered[x] \/ registered'[x] = Nobody
  BY <1>0, <1>3
<1>8. PushRowsOK'
  BY <1>1, <1>5, <1>6, <1>7 DEF PushInv, PushRowsOK
<1>9. PushedWasClaimed'
  BY <1>0, <1>1, <1>4, <1>5, <1>6 DEF PushInv, PushedWasClaimed
<1>10. ASSUME NEW x \in Endpoint, NEW v \in Account, NEW m \in Note, Reaches(x, v, m)'
       PROVE  Reaches(x, v, m)
  <2>1. CASE registered'[x] = v
    BY <1>7, <2>1, DispatchAssumption DEF Reaches
  <2>2. CASE \E c \in Dispatcher : /\ dispatcher'[c].at = "pushing" /\ x \in dispatcher'[c].to
                                   /\ dispatcher'[c].now = m /\ note'[m].to = v
    BY <1>0, <1>1, <1>2, <1>4, <1>5, <2>2 DEF Reaches, now
  <2>3. CASE \E w \in wire' : w.endpoint = x /\ w.note = m /\ note'[m].to = v
    BY <1>0, <1>1, <1>6, <2>3 DEF Reaches, now
  <2> QED
    BY <1>10, <2>1, <2>2, <2>3 DEF Reaches
<1> QED
  BY <1>1, <1>7, <1>8, <1>9, <1>10, ReachesFewer

LEMMA ShowKeeps == ASSUME PushInv, NEW b \in Browser, NEW w \in wire, ShowPush(w, b) PROVE PushInv'
<1>1. /\ wire' \subseteq wire
      /\ UNCHANGED <<note, dispatcher, registered, browser, issued, left>>
  BY DEF ShowPush
<1>2. PushRowsOK'
  BY <1>1 DEF PushInv, PushRowsOK
<1>3. PushedWasClaimed'
  BY <1>1 DEF PushInv, PushedWasClaimed
<1>4. ASSUME NEW e \in Endpoint, NEW v \in Account, NEW m \in Note, Reaches(e, v, m)'
      PROVE  Reaches(e, v, m)
  BY <1>1, <1>4 DEF Reaches
<1> QED
  BY <1>1, <1>2, <1>3, <1>4, ReachesFewer

\* The other steps of a dispatcher.
LEMMA DispatchStepPush ==
  ASSUME PushInv, NEW d \in Dispatcher, DispatchStep(d) \/ DispatchDies(d) PROVE PushInv'
<1>0. /\ dispatcher[d] \in DispatcherRow /\ dispatcher[d].now \in 0 .. MaxNote
      /\ dispatcher[d].at \in {"publishing", "reading", "pushing"} =>
           dispatcher[d].now \in Note /\ note[dispatcher[d].now].stage = "claimed"
  BY DEF PushInv, PushRowsOK, PushedWasClaimed, DispatcherRow
<1>1. CASE StartDispatch(d)
  <2>1. Oldest(Pending) \in SUBSET Note
    BY DEF Oldest, Pending
  <2>2. PICK q \in DispatcherRow : Moves(d, q) /\ q.at = "choosing"
    BY <1>1, <2>1, IdleRow, ChoosingRow DEF StartDispatch
  <2>3. UNCHANGED <<browser, left, issued, note, registered, wire>>
    BY <1>1 DEF StartDispatch
  <2> QED
    BY <2>2, <2>3, DispatcherPush
<1>2. CASE EndDispatch(d) \/ DispatchDies(d)
  <2>1. Moves(d, Idle) /\ UNCHANGED <<browser, left, issued, note, registered, wire>>
    BY <1>2 DEF EndDispatch, DispatchDies
  <2> QED
    BY <2>1, IdleRow, DispatcherPush
<1>3. CASE Publish(d)
  <2>1. PICK q : q = [dispatcher[d] EXCEPT !.at = "reading"]
    OBVIOUS
  <2>2. /\ Moves(d, q) /\ dispatcher[d].at = "publishing"
        /\ UNCHANGED <<browser, left, issued, note, registered, wire>>
    BY <1>3, <2>1 DEF Publish
  <2>3. q \in DispatcherRow /\ q.at = "reading" /\ q.now = dispatcher[d].now
    BY <1>0, <2>1 DEF DispatcherRow
  <2> QED
    BY <1>0, <2>2, <2>3, DispatcherPush
<1>4. CASE ReadDevices(d)
  <2> DEFINE u == note[dispatcher[d].now].to
  <2>1. PICK to \in SUBSET Endpoint : to = {e \in Endpoint : u \in pushOn /\ registered[e] = u}
    OBVIOUS
  <2>2. PICK q : q = [dispatcher[d] EXCEPT !.at = "pushing", !.to = to]
    OBVIOUS
  <2>3. /\ Moves(d, q) /\ dispatcher[d].at = "reading"
        /\ UNCHANGED <<browser, left, issued, note, registered, wire>>
    BY <1>4, <2>1, <2>2 DEF ReadDevices
  <2>4. q \in DispatcherRow /\ q.at = "pushing" /\ q.now = dispatcher[d].now /\ q.to = to
    BY <1>0, <2>2 DEF DispatcherRow
  <2>5. \A e \in q.to : registered[e] = note[q.now].to
    BY <2>1, <2>4
  <2> HIDE DEF u
  <2> QED
    BY <1>0, <2>3, <2>4, <2>5, DispatcherPush
<1>5. CASE NextNote(d)
  <2>1. PICK q : q = [dispatcher[d] EXCEPT !.at = "choosing", !.now = 0]
    OBVIOUS
  <2>2. Moves(d, q) /\ UNCHANGED <<browser, left, issued, note, registered, wire>>
    BY <1>5, <2>1 DEF NextNote
  <2>3. q \in DispatcherRow /\ q.at = "choosing"
    BY <1>0, <2>1, DoneRow
  <2> QED
    BY <2>2, <2>3, DispatcherPush
<1> QED
  BY <1>1, <1>2, <1>3, <1>4, <1>5, ClaimPush, PushToKeeps DEF DispatchStep

-------------------------------------------------------------------------------
(* The steps of a browser *)

LEMMA BrowserRowFields ==
  ASSUME PushInv, NEW b \in Browser
  PROVE  /\ browser[b] \in BrowserRow /\ left[b] \in SUBSET (Account \X Note)
         /\ browser[b].user \in Account \cup {Nobody} /\ browser[b].endpoint \in Nat
         /\ browser[b].asking \in [who : Account \cup {Nobody}, for : Nat]
         /\ browser[b].failed \in SUBSET {"row", "endpoint"}
         /\ \A u \in Account, n \in Note : <<u, n>> \in left[b] => browser[b].user # u
BY DEF PushInv, PushRowsOK, BrowserRow, LeftAlone

\* A browser that keeps its user, and the endpoint unless it drops it.
LEMMA SameUser ==
  ASSUME PushInv, NEW b \in Browser, NEW q \in BrowserRow, browser' = [browser EXCEPT ![b] = q],
         UNCHANGED <<note, dispatcher, wire, issued, left>>,
         registered' \in [Endpoint -> Account \cup {Nobody}],
         \A e \in Endpoint : registered'[e] = registered[e] \/ registered'[e] = Nobody,
         q.user \in {browser[b].user, Nobody},
         q.endpoint = browser[b].endpoint \/ q.endpoint = 0,
         q.asking.for = browser[b].asking.for \/ q.asking.for = 0,
         Leaves(q), RowGone(q, registered')
  PROVE  PushInv'
<1>1. /\ left' \in [Browser -> SUBSET (Account \X Note)]
      /\ \A c \in Browser \ {b} : left'[c] = left[c]
  BY DEF PushInv, PushRowsOK
<1>2. \A u \in Account, n \in Note : <<u, n>> \in left'[b] => q.user # u /\ <<u, n>> \in left[b]
  BY DispatchAssumption, BrowserRowFields
<1> QED
  BY <1>1, <1>2, BrowserMoves

LEMMA SameRegistered ==
  ASSUME PushInv, registered' = registered
  PROVE  /\ registered' \in [Endpoint -> Account \cup {Nobody}]
         /\ \A e \in Endpoint : registered'[e] = registered[e] \/ registered'[e] = Nobody
BY DEF PushInv, PushRowsOK

LEMMA SignInKeeps == ASSUME PushInv, NEW b \in Browser, NEW u \in Account, SignIn(b, u) PROVE PushInv'
<1>1. PICK q : q = [browser[b] EXCEPT !.user = u]
  OBVIOUS
<1>2. PICK gone : gone = left[b] \ ({u} \X Note)
  OBVIOUS
<1>3. /\ browser' = [browser EXCEPT ![b] = q] /\ left' = [left EXCEPT ![b] = gone]
      /\ UNCHANGED <<note, dispatcher, wire, issued>> /\ registered' = registered
      /\ browser[b].user = Nobody
  BY <1>1, <1>2 DEF SignIn, Does
<1>4. /\ q \in BrowserRow /\ q.user = u /\ q.endpoint = browser[b].endpoint
      /\ q.asking = browser[b].asking /\ q.leaving = browser[b].leaving
      /\ q.crossed = browser[b].crossed /\ q.task = browser[b].task /\ q.phase = browser[b].phase
      /\ q.failed = browser[b].failed
  BY <1>1, BrowserRowFields DEF BrowserRow
<1>5. /\ gone \in SUBSET (Account \X Note)
      /\ \A v \in Account, n \in Note : <<v, n>> \in gone => q.user # v /\ <<v, n>> \in left[b]
  BY <1>2, <1>4, BrowserRowFields
<1>6. q.leaving = "no"
  BY <1>3, <1>4 DEF PushInv, LeavesNothing, Leaves
<1>7. Leaves(q) /\ RowGone(q, registered')
  BY <1>6 DEF Leaves, RowGone
<1>8. /\ left' \in [Browser -> SUBSET (Account \X Note)]
      /\ \A c \in Browser \ {b} : left'[c] = left[c]
      /\ \A v \in Account, n \in Note : <<v, n>> \in left'[b] => q.user # v /\ <<v, n>> \in left[b]
  BY <1>3, <1>5 DEF PushInv, PushRowsOK
<1> QED
  BY <1>3, <1>4, <1>7, <1>8, SameRegistered, BrowserMoves

\* A step that only changes what the page is doing.
LEMMA OverKeeps == ASSUME PushInv, NEW b \in Browser, SessionOver(b) PROVE PushInv'
<1>1. PICK q : q = [browser[b] EXCEPT !.user = Nobody]
  OBVIOUS
<1>2. /\ browser' = [browser EXCEPT ![b] = q] /\ browser[b].leaving = "no"
      /\ UNCHANGED <<note, dispatcher, wire, issued, left>> /\ registered' = registered
  BY <1>1 DEF SessionOver, Does
<1>3. /\ q \in BrowserRow /\ q.user = Nobody /\ q.endpoint = browser[b].endpoint
      /\ q.asking = browser[b].asking /\ q.leaving = browser[b].leaving
      /\ q.crossed = browser[b].crossed /\ q.task = browser[b].task /\ q.phase = browser[b].phase
  BY <1>1, BrowserRowFields DEF BrowserRow
<1>4. Leaves(q) /\ RowGone(q, registered')
  BY <1>2, <1>3 DEF Leaves, RowGone
<1> QED
  BY <1>2, <1>3, <1>4, SameRegistered, SameUser

LEMMA SubscribeKeeps ==
  ASSUME PushInv, NEW b \in Browser, NEW click \in BOOLEAN, BeginSubscribe(b, click) PROVE PushInv'
<1>1. PICK crossed \in BOOLEAN : crossed = (browser[b].crossed \/ browser[b].leaving # "no")
  OBVIOUS
<1>2. PICK q : q = [browser[b] EXCEPT !.task = "asked", !.crossed = crossed]
  OBVIOUS
<1>3. /\ browser' = [browser EXCEPT ![b] = q]
      /\ UNCHANGED <<note, dispatcher, wire, issued, left>> /\ registered' = registered
  BY <1>1, <1>2 DEF BeginSubscribe, Does
<1>4. /\ q \in BrowserRow /\ q.user = browser[b].user /\ q.endpoint = browser[b].endpoint
      /\ q.asking = browser[b].asking /\ q.leaving = browser[b].leaving /\ q.crossed = crossed
  BY <1>2, BrowserRowFields DEF BrowserRow
<1>5. Leaves(q) /\ RowGone(q, registered')
  BY <1>1, <1>4 DEF PushInv, LeavesNothing, Leaves, RowGone
<1> QED
  BY <1>3, <1>4, <1>5, SameRegistered, SameUser

LEMMA SubscribeFailsKeeps ==
  ASSUME PushInv, NEW b \in Browser, SubscribeFails(b) PROVE PushInv'
<1>1. PICK asking : asking = SignedOut.asking
  OBVIOUS
<1>2. PICK q : q = [browser[b] EXCEPT !.task = "none", !.asking = asking]
  OBVIOUS
<1>3. /\ browser' = [browser EXCEPT ![b] = q] /\ browser[b].task # "none"
      /\ UNCHANGED <<note, dispatcher, wire, issued, left>> /\ registered' = registered
  BY <1>1, <1>2 DEF SubscribeFails, Does
<1>4. asking \in [who : Account \cup {Nobody}, for : Nat] /\ asking.for = 0
  BY <1>1 DEF SignedOut
<1>5. /\ q \in BrowserRow /\ q.user = browser[b].user /\ q.endpoint = browser[b].endpoint
      /\ q.asking = asking /\ q.leaving = browser[b].leaving /\ q.crossed = browser[b].crossed
  BY <1>2, <1>4, BrowserRowFields DEF BrowserRow
<1>6. Leaves(q) /\ RowGone(q, registered')
  BY <1>3, <1>5 DEF PushInv, LeavesNothing, Leaves, RowGone
<1> QED
  BY <1>3, <1>4, <1>5, <1>6, SameRegistered, SameUser

LEMMA BeginLeavingKeeps ==
  ASSUME PushInv, NEW b \in Browser, NEW why \in {"out", "off"}, BeginLeaving(b, why) PROVE PushInv'
<1>1. PICK crossed \in BOOLEAN : crossed = (browser[b].task # "none")
  OBVIOUS
<1>2. PICK begun : begun = [browser[b] EXCEPT !.leaving = why, !.crossed = crossed]
  OBVIOUS
<1>3. /\ begun \in BrowserRow /\ begun.user = browser[b].user /\ begun.task = browser[b].task
      /\ begun.endpoint = browser[b].endpoint /\ begun.asking = browser[b].asking
      /\ begun.crossed = crossed
  BY <1>2, BrowserRowFields DEF BrowserRow
<1>4. PICK q \in BrowserRow :
        /\ browser' = [browser EXCEPT ![b] = q] /\ q.user = browser[b].user
        /\ q.task = browser[b].task /\ q.endpoint = browser[b].endpoint
        /\ q.asking = browser[b].asking /\ q.crossed = crossed
        /\ \/ q.phase = "removing"
           \/ q.phase = "done" /\ (q.endpoint = 0 \/ q.failed = {"row", "endpoint"})
  <2>1. PICK phase \in {"done", "removing"} :
          phase = IF browser[b].endpoint = 0 THEN "done" ELSE "removing"
    OBVIOUS
  <2>2. PICK found : found = [begun EXCEPT !.phase = phase]
    OBVIOUS
  <2>3. PICK missed : missed = [begun EXCEPT !.phase = "done", !.failed = {"row", "endpoint"}]
    OBVIOUS
  <2>4. /\ found \in BrowserRow /\ found.user = browser[b].user
        /\ found.task = browser[b].task /\ found.endpoint = browser[b].endpoint
        /\ found.asking = browser[b].asking /\ found.crossed = crossed /\ found.phase = phase
    BY <1>3, <2>2 DEF BrowserRow
  <2>5. /\ missed \in BrowserRow /\ missed.user = browser[b].user
        /\ missed.task = browser[b].task /\ missed.endpoint = browser[b].endpoint
        /\ missed.asking = browser[b].asking /\ missed.crossed = crossed
        /\ missed.phase = "done" /\ missed.failed = {"row", "endpoint"}
    BY <1>3, <2>3 DEF BrowserRow
  <2>6. \/ browser' = [browser EXCEPT ![b] = found]
        \/ browser' = [browser EXCEPT ![b] = missed]
    BY <1>1, <1>2, <2>1, <2>2, <2>3 DEF BeginLeaving, Does
  <2> QED
    BY <2>1, <2>4, <2>5, <2>6
<1>5. /\ browser[b].user # Nobody /\ UNCHANGED <<note, dispatcher, wire, issued, left>>
      /\ registered' = registered
  BY DEF BeginLeaving
<1>6. Leaves(q)
  BY <1>1, <1>4, <1>5 DEF Leaves
<1>7. RowGone(q, registered')
  BY <1>4, DispatchAssumption DEF RowGone, Endpoint
<1> QED
  BY <1>4, <1>5, <1>6, <1>7, SameRegistered, SameUser

LEMMA RemoveKeeps == ASSUME PushInv, NEW b \in Browser, RemoveRow(b) PROVE PushInv'
<1>1. PICK removed : removed = [browser[b] EXCEPT !.phase = "dropping"]
  OBVIOUS
<1>2. PICK kept : kept = [browser[b] EXCEPT !.phase = "dropping", !.failed = {"row"}]
  OBVIOUS
<1>3. /\ UNCHANGED <<note, dispatcher, wire, issued, left>> /\ browser[b].phase = "removing"
  BY DEF RemoveRow
<1>4. ASSUME NEW q \in {removed, kept}
      PROVE  /\ q \in BrowserRow /\ q.user = browser[b].user /\ q.endpoint = browser[b].endpoint
             /\ q.asking = browser[b].asking /\ q.leaving = browser[b].leaving
             /\ q.crossed = browser[b].crossed /\ q.task = browser[b].task
             /\ q.phase = "dropping" /\ Leaves(q)
  <2>1. /\ q \in BrowserRow /\ q.user = browser[b].user /\ q.endpoint = browser[b].endpoint
        /\ q.asking = browser[b].asking /\ q.leaving = browser[b].leaving
        /\ q.crossed = browser[b].crossed /\ q.task = browser[b].task /\ q.phase = "dropping"
    <3>1. CASE q = removed
      BY <1>1, <3>1, BrowserRowFields DEF BrowserRow
    <3>2. CASE q = kept
      BY <1>2, <3>2, BrowserRowFields DEF BrowserRow
    <3> QED
      BY <3>1, <3>2
  <2>2. Leaves(q)
    BY <2>1 DEF PushInv, LeavesNothing, Leaves
  <2> QED
    BY <2>1, <2>2
<1>5. CASE browser' = [browser EXCEPT ![b] = kept] /\ registered' = registered
  <2>1. kept.failed = {"row"}
    BY <1>2, BrowserRowFields DEF BrowserRow
  <2>2. RowGone(kept, registered')
    BY <2>1 DEF RowGone
  <2> QED
    BY <1>3, <1>4, <1>5, <2>2, SameRegistered, SameUser
<1>6. CASE /\ browser' = [browser EXCEPT ![b] = removed]
           /\ registered' = [registered EXCEPT ![browser[b].endpoint] =
                               IF registered[browser[b].endpoint] = browser[b].user THEN Nobody
                               ELSE registered[browser[b].endpoint]]
  <2> DEFINE e == browser[b].endpoint
  <2>1. PICK v : /\ v = IF registered[e] = browser[b].user THEN Nobody ELSE registered[e]
                 /\ registered' = [registered EXCEPT ![e] = v]
    BY <1>6
  <2> HIDE DEF e
  <2>2. v = registered[e] \/ v = Nobody
    BY <2>1
  <2>3. e \in Endpoint => v \in Account \cup {Nobody}
    BY <2>2 DEF PushInv, PushRowsOK
  <2>4. /\ registered' \in [Endpoint -> Account \cup {Nobody}]
        /\ \A x \in Endpoint : registered'[x] = registered[x] \/ registered'[x] = Nobody
        /\ e \in Endpoint => registered'[e] = v
    BY <2>1, <2>2, <2>3 DEF PushInv, PushRowsOK
  <2>5. browser[b].leaving # "no" => browser[b].user # Nobody
    BY DEF PushInv, LeavesNothing, Leaves
  <2>6. browser[b].leaving # "no" => v # browser[b].user
    BY <2>1, <2>5
  <2>7. RowGone(removed, registered')
    BY <1>4, <2>4, <2>6 DEF RowGone, e
  <2> QED
    BY <1>3, <1>4, <1>6, <2>4, <2>7, SameUser
<1> QED
  BY <1>1, <1>2, <1>5, <1>6 DEF RemoveRow, Does

LEMMA DropKeeps == ASSUME PushInv, NEW b \in Browser, DropSubscription(b) PROVE PushInv'
<1>1. PICK failed : failed = browser[b].failed \cup {"endpoint"}
  OBVIOUS
<1>2. PICK unsubscribed : unsubscribed = [browser[b] EXCEPT !.phase = "done", !.endpoint = 0]
  OBVIOUS
<1>3. PICK refused : refused = [browser[b] EXCEPT !.phase = "done", !.failed = failed]
  OBVIOUS
<1>4. /\ UNCHANGED <<note, dispatcher, wire, issued, left>> /\ registered' = registered
      /\ browser[b].phase = "dropping"
      /\ \/ browser' = [browser EXCEPT ![b] = unsubscribed]
         \/ browser' = [browser EXCEPT ![b] = refused]
  BY <1>1, <1>2, <1>3 DEF DropSubscription, Does
<1>5. failed \in SUBSET {"row", "endpoint"} /\ "endpoint" \in failed
  BY <1>1, BrowserRowFields
<1>6. ASSUME NEW q \in {unsubscribed, refused}
      PROVE  /\ q \in BrowserRow /\ q.user = browser[b].user
             /\ q.asking = browser[b].asking /\ q.leaving = browser[b].leaving
             /\ q.crossed = browser[b].crossed /\ q.task = browser[b].task
             /\ \/ q.endpoint = 0
                \/ q.endpoint = browser[b].endpoint /\ q.failed = failed
  <2>1. CASE q = unsubscribed
    <3>1. /\ unsubscribed \in BrowserRow /\ unsubscribed.endpoint = 0
          /\ unsubscribed.user = browser[b].user /\ unsubscribed.asking = browser[b].asking
          /\ unsubscribed.leaving = browser[b].leaving /\ unsubscribed.crossed = browser[b].crossed
          /\ unsubscribed.task = browser[b].task
      BY <1>2, BrowserRowFields DEF BrowserRow
    <3> QED
      BY <2>1, <3>1
  <2>2. CASE q = refused
    BY <1>3, <1>5, <2>2, BrowserRowFields DEF BrowserRow
  <2> QED
    BY <2>1, <2>2
<1>7. ASSUME NEW q \in {unsubscribed, refused} PROVE Leaves(q) /\ RowGone(q, registered')
  <2>1. Leaves(q)
    BY <1>5, <1>6 DEF PushInv, LeavesNothing, Leaves
  <2>2. CASE q.endpoint = 0
    BY <2>1, <2>2, DispatchAssumption DEF RowGone, Endpoint
  <2>3. CASE q.endpoint = browser[b].endpoint /\ q.failed = failed
    BY <1>1, <1>4, <1>6, <2>1, <2>3 DEF PushInv, RowRemoved, RowGone
  <2> QED
    BY <1>6, <2>1, <2>2, <2>3
<1> QED
  BY <1>4, <1>6, <1>7, SameRegistered, SameUser

\* What a sign-out withdraws no longer reaches the browser: it has no endpoint, or the
\* endpoint is not registered for who leaves and nobody is handing the notification out.
LEMMA WithdrawnNotReached ==
  ASSUME PushInv, NEW b \in Browser, browser[b].phase = "done", browser[b].leaving = "out",
         NEW n \in Withdrawn(b), NEW e \in Endpoint, browser[b].endpoint = e
  PROVE  ~Reaches(e, browser[b].user, n)
<1>1. ~browser[b].crossed /\ n \in Note
  BY DEF Withdrawn
<1>2. "endpoint" \in browser[b].failed
  BY <1>1, DispatchAssumption DEF PushInv, LeavesNothing, Leaves, Endpoint
<1>3. "row" \notin browser[b].failed /\ note[n].stage # "claimed"
  BY <1>2 DEF Withdrawn
<1>4. registered[e] # browser[b].user
  BY <1>1, <1>3 DEF PushInv, RowRemoved, RowGone
<1> QED
  BY <1>3, <1>4 DEF PushInv, PushedWasClaimed, Reaches

LEMMA SignOutKeeps == ASSUME PushInv, NEW b \in Browser, SignOut(b) PROVE PushInv'
<1>1. PICK p : p = Rested(b)
  OBVIOUS
<1>2. PICK q : q = [p EXCEPT !.user = Nobody]
  OBVIOUS
<1>3. PICK gone : gone = left[b] \cup ({browser[b].user} \X Withdrawn(b))
  OBVIOUS
<1>4. /\ browser' = [browser EXCEPT ![b] = q] /\ left' = [left EXCEPT ![b] = gone]
      /\ UNCHANGED <<note, dispatcher, wire, issued>> /\ registered' = registered
      /\ browser[b].phase = "done" /\ browser[b].leaving = "out" /\ browser[b].user # Nobody
  BY <1>1, <1>2, <1>3 DEF SignOut, Does, PushInv, LeavesNothing, Leaves
<1>5. /\ p \in BrowserRow /\ p.endpoint = browser[b].endpoint /\ p.asking = browser[b].asking
      /\ p.leaving = "no"
  BY <1>1, BrowserRowFields DEF BrowserRow, Rested
<1>6. /\ q \in BrowserRow /\ q.user = Nobody /\ q.endpoint = browser[b].endpoint
      /\ q.asking = browser[b].asking /\ q.leaving = "no"
  BY <1>2, <1>5 DEF BrowserRow
<1>7. gone \in SUBSET (Account \X Note)
  BY <1>3, <1>4, BrowserRowFields DEF Withdrawn
<1>8. ASSUME NEW u \in Account, NEW n \in Note, <<u, n>> \in gone
      PROVE  /\ q.user # u
             /\ \/ <<u, n>> \in left[b]
                \/ \A e \in Endpoint : q.endpoint = e => ~Reaches(e, u, n)
  <2>1. <<u, n>> \in left[b] \/ (u = browser[b].user /\ n \in Withdrawn(b))
    BY <1>3, <1>8
  <2> QED
    BY <1>4, <1>6, <2>1, WithdrawnNotReached, DispatchAssumption
<1>9. Leaves(q) /\ RowGone(q, registered')
  BY <1>6 DEF Leaves, RowGone
<1>10. /\ left' \in [Browser -> SUBSET (Account \X Note)] /\ left'[b] = gone
       /\ \A c \in Browser \ {b} : left'[c] = left[c]
  BY <1>4, <1>7 DEF PushInv, PushRowsOK
<1> QED
  BY <1>4, <1>6, <1>8, <1>9, <1>10, SameRegistered, BrowserMoves

LEMMA TurnOffKeeps == ASSUME PushInv, NEW b \in Browser, TurnPushOff(b) PROVE PushInv'
<1>1. PICK q : q = Rested(b)
  OBVIOUS
<1>2. /\ browser' = [browser EXCEPT ![b] = q] /\ UNCHANGED <<note, dispatcher, wire, issued, left>>
      /\ registered' = [e \in Endpoint |-> IF registered[e] = browser[b].user THEN Nobody
                                           ELSE registered[e]]
  BY <1>1 DEF TurnPushOff, Does
<1>3. /\ registered' \in [Endpoint -> Account \cup {Nobody}]
      /\ \A e \in Endpoint : registered'[e] = registered[e] \/ registered'[e] = Nobody
  BY <1>2 DEF PushInv, PushRowsOK
<1>4. /\ q \in BrowserRow /\ q.user = browser[b].user /\ q.endpoint = browser[b].endpoint
      /\ q.asking = browser[b].asking /\ q.leaving = "no"
  BY <1>1, BrowserRowFields DEF BrowserRow, Rested
<1>5. Leaves(q) /\ RowGone(q, registered')
  BY <1>4 DEF Leaves, RowGone
<1> QED
  BY <1>2, <1>3, <1>4, <1>5, SameUser

\* A browser gets an endpoint nobody had.
LEMMA GetKeeps == ASSUME PushInv, NEW b \in Browser, GetSubscription(b) PROVE PushInv'
<1>0. /\ PushRowsOK /\ issued \in Nat /\ browser[b].endpoint \in Nat
      /\ browser[b].endpoint <= issued /\ browser[b].task = "asked"
  BY BrowserRowFields DEF PushInv, PushRowsOK, OwnEndpoint, GetSubscription
<1>1. PICK e \in Endpoint :
         /\ e = IF browser[b].endpoint = 0 THEN issued + 1 ELSE browser[b].endpoint
         /\ issued' = (IF browser[b].endpoint = 0 THEN e ELSE issued)
         /\ browser' = [browser EXCEPT ![b] =
              [browser[b] EXCEPT !.task = "sending", !.endpoint = e,
                                 !.asking = [who |-> browser[b].user, for |-> e]]]
  BY DEF GetSubscription, Does
<1>2. UNCHANGED <<note, dispatcher, registered, wire, left>>
  BY DEF GetSubscription
<1>3. PICK asking : asking = [who |-> browser[b].user, for |-> e]
  OBVIOUS
<1>4. PICK q : q = [browser[b] EXCEPT !.task = "sending", !.endpoint = e, !.asking = asking]
  OBVIOUS
<1>5. e \in Nat /\ e # 0
  BY DispatchAssumption DEF Endpoint
<1>6. asking \in [who : Account \cup {Nobody}, for : Nat] /\ asking.for = e
  BY <1>3, <1>5, BrowserRowFields
<1>7. e \in Nat
  BY <1>5
<1>8. /\ q \in BrowserRow /\ q.user = browser[b].user /\ q.endpoint = e /\ q.asking = asking
      /\ q.leaving = browser[b].leaving /\ q.crossed = browser[b].crossed
  BY <1>4, <1>6, <1>7, BrowserRowFields DEF BrowserRow
<1>9. /\ browser' \in [Browser -> BrowserRow] /\ browser'[b] = q
      /\ \A c \in Browser \ {b} : browser'[c] = browser[c]
  BY <1>0, <1>1, <1>3, <1>4, <1>8 DEF PushRowsOK
<1>10. issued' \in Nat /\ issued <= issued' /\ e <= issued'
  BY <1>0, <1>1, <1>7
<1>11. PushRowsOK'
  BY <1>0, <1>2, <1>9, <1>10 DEF PushRowsOK
<1>12. PushedWasClaimed'
  BY <1>2 DEF PushInv, PushedWasClaimed
<1>13. ASSUME NEW x \in Endpoint, NEW v \in Account, NEW n \in Note
       PROVE  Reaches(x, v, n)' = Reaches(x, v, n)
  BY <1>2 DEF Reaches
<1>14. NotIssuedYet'
  <2> SUFFICES ASSUME NEW x \in Endpoint, NEW v \in Account, NEW n \in Note, x > issued'
               PROVE  ~Reaches(x, v, n)'
    BY DEF NotIssuedYet
  <2>1. x > issued
    BY <1>0, <1>10 DEF Endpoint
  <2> QED
    BY <1>13, <2>1 DEF PushInv, NotIssuedYet
<1>15. \A c \in Browser \ {b} : browser[c].endpoint # e /\ browser[c].asking.for # e
  <2>1. CASE browser[b].endpoint = 0
    <3> SUFFICES ASSUME NEW c \in Browser \ {b}
                 PROVE  browser[c].endpoint # e /\ browser[c].asking.for # e
      OBVIOUS
    <3>1. browser[c].endpoint <= issued /\ browser[c].asking.for <= issued /\ e = issued + 1
      BY <1>1, <2>1 DEF PushInv, OwnEndpoint
    <3> QED
      BY <1>0, <3>1
  <2>2. CASE browser[b].endpoint # 0
    BY <1>1, <2>2 DEF PushInv, OwnEndpoint
  <2> QED
    BY <2>1, <2>2
<1>16. OwnEndpoint'
  <2>1. \A c \in Browser \ {b} : browser[c].endpoint <= issued' /\ browser[c].asking.for <= issued'
    <3> SUFFICES ASSUME NEW c \in Browser \ {b}
                 PROVE  browser[c].endpoint <= issued' /\ browser[c].asking.for <= issued'
      OBVIOUS
    <3>1. /\ browser[c].endpoint <= issued /\ browser[c].asking.for <= issued
          /\ browser[c].endpoint \in Nat /\ browser[c].asking.for \in Nat
      BY BrowserRowFields DEF PushInv, OwnEndpoint
    <3> QED
      BY <1>0, <1>10, <3>1
  <2>2. q.endpoint <= issued' /\ q.asking.for <= issued'
    BY <1>6, <1>8, <1>10
  <2>3. \A c \in Browser : browser'[c].endpoint <= issued' /\ browser'[c].asking.for <= issued'
    BY <1>9, <2>1, <2>2
  <2>4. ASSUME NEW c \in Browser, NEW a \in Browser \ {c}, browser'[c].endpoint # 0
        PROVE  /\ browser'[a].endpoint # browser'[c].endpoint
               /\ browser'[a].asking.for # browser'[c].endpoint
    <3>1. CASE c = b
      BY <1>8, <1>9, <1>15, <3>1
    <3>2. CASE a = b
      BY <1>6, <1>8, <1>9, <1>15, <3>2
    <3>3. CASE a # b /\ c # b
      <4>1. browser'[a] = browser[a] /\ browser'[c] = browser[c]
        BY <1>9, <3>3
      <4> QED
        BY <2>4, <4>1 DEF PushInv, OwnEndpoint
    <3> QED
      BY <3>1, <3>2, <3>3
  <2> QED
    BY <2>3, <2>4 DEF OwnEndpoint
<1>17. LeavesNothing' /\ RowRemoved'
  <2>1. Leaves(q) /\ RowGone(q, registered)
    BY <1>0, <1>8 DEF PushInv, LeavesNothing, Leaves, RowGone
  <2>2. \A c \in Browser : Leaves(browser'[c]) /\ RowGone(browser'[c], registered)
    BY <1>9, <2>1 DEF PushInv, LeavesNothing, RowRemoved
  <2> QED
    BY <1>2, <2>2 DEF LeavesNothing, RowRemoved
<1>18. LeftAlone'
  <2> SUFFICES ASSUME NEW c \in Browser, NEW u \in Account, NEW n \in Note, <<u, n>> \in left[c]
               PROVE  /\ browser'[c].user # u
                      /\ \A x \in Endpoint : browser'[c].endpoint = x => ~Reaches(x, u, n)'
    BY <1>2 DEF LeftAlone
  <2>1. CASE c # b \/ browser[b].endpoint # 0
    <3>1. browser'[c].user = browser[c].user /\ browser'[c].endpoint = browser[c].endpoint
      BY <1>1, <1>8, <1>9, <2>1
    <3> QED
      BY <1>13, <3>1 DEF PushInv, LeftAlone
  <2>2. CASE c = b /\ browser[b].endpoint = 0
    <3>1. browser'[c].user # u /\ browser'[c].endpoint = e
      BY <1>8, <1>9, <2>2, BrowserRowFields
    <3>2. e > issued
      BY <1>0, <1>1, <2>2
    <3>3. ~Reaches(e, u, n)
      BY <3>2 DEF PushInv, NotIssuedYet
    <3> QED
      BY <1>13, <3>1, <3>3
  <2> QED
    BY <2>1, <2>2
<1> QED
  BY <1>11, <1>12, <1>14, <1>16, <1>17, <1>18 DEF PushInv

\* A registration reaches whoever is signed in there.
LEMMA SaveKeeps == ASSUME PushInv, NEW b \in Browser, SaveSubscription(b) PROVE PushInv'
<1>0. PushRowsOK /\ browser[b].task = "sending"
  BY DEF PushInv, SaveSubscription
<1>1. PICK asking : asking = SignedOut.asking
  OBVIOUS
<1>2. PICK q : q = [browser[b] EXCEPT !.task = "none", !.asking = asking]
  OBVIOUS
<1>3. PICK u, e : u = browser[b].asking.who /\ e = browser[b].asking.for
  OBVIOUS
<1>4. /\ browser' = [browser EXCEPT ![b] = q] /\ UNCHANGED <<note, dispatcher, wire, issued, left>>
      /\ registered' = IF u # Nobody /\ u = browser[b].user
                       THEN [registered EXCEPT ![e] = u] ELSE registered
  BY <1>1, <1>2, <1>3 DEF SaveSubscription, Does
<1>5. asking \in [who : Account \cup {Nobody}, for : Nat] /\ asking.for = 0
  BY <1>1 DEF SignedOut
<1>6. /\ q \in BrowserRow /\ q.user = browser[b].user /\ q.endpoint = browser[b].endpoint
      /\ q.asking = asking /\ q.leaving = browser[b].leaving /\ q.crossed = browser[b].crossed
  BY <1>2, <1>5, BrowserRowFields DEF BrowserRow
<1>7. Leaves(q) /\ RowGone(q, registered')
  BY <1>0, <1>6 DEF PushInv, LeavesNothing, Leaves, RowGone
<1>8. CASE ~(u # Nobody /\ u = browser[b].user)
  BY <1>4, <1>5, <1>6, <1>7, <1>8, SameRegistered, SameUser
<1>9. CASE u # Nobody /\ u = browser[b].user
  <2>1. /\ u \in Account /\ e \in Nat /\ e <= issued /\ issued \in Nat
        /\ registered' = [registered EXCEPT ![e] = u]
    BY <1>0, <1>3, <1>4, <1>9, BrowserRowFields DEF PushInv, PushRowsOK, OwnEndpoint
  <2>2. /\ browser' \in [Browser -> BrowserRow] /\ browser'[b] = q
        /\ \A c \in Browser \ {b} : browser'[c] = browser[c]
    BY <1>0, <1>4, <1>6 DEF PushRowsOK
  <2>3. registered' \in [Endpoint -> Account \cup {Nobody}]
    BY <1>0, <2>1 DEF PushRowsOK
  <2>4. PushRowsOK'
    BY <1>0, <1>4, <2>2, <2>3 DEF PushRowsOK
  <2>5. PushedWasClaimed'
    BY <1>4 DEF PushInv, PushedWasClaimed
  <2>6. ASSUME NEW x \in Endpoint, NEW v \in Account, NEW n \in Note, x # e \/ v # u
        PROVE  Reaches(x, v, n)' => Reaches(x, v, n)
    <3>1. registered'[x] = v => registered[x] = v
      BY <1>0, <2>1, <2>6 DEF PushRowsOK
    <3> QED
      BY <1>4, <3>1 DEF Reaches
  <2>7. NotIssuedYet'
    <3> SUFFICES ASSUME NEW x \in Endpoint, NEW v \in Account, NEW n \in Note, x > issued
                 PROVE  ~Reaches(x, v, n)'
      BY <1>4 DEF NotIssuedYet
    <3>1. x # e
      BY <2>1 DEF Endpoint
    <3> QED
      BY <2>6, <3>1 DEF PushInv, NotIssuedYet
  <2>8. OwnEndpoint'
    <3>1. \A c \in Browser : /\ browser'[c].endpoint = browser[c].endpoint
                             /\ browser'[c].asking.for \in {browser[c].asking.for, 0}
      BY <1>5, <1>6, <2>2
    <3>2. \A c \in Browser : browser'[c].endpoint <= issued' /\ browser'[c].asking.for <= issued'
      BY <1>4, <2>1, <3>1 DEF PushInv, OwnEndpoint
    <3> QED
      BY <3>1, <3>2 DEF PushInv, OwnEndpoint
  <2>9. LeavesNothing'
    BY <1>6, <1>7, <2>2 DEF PushInv, LeavesNothing
  <2>10. LeftAlone'
    <3> SUFFICES ASSUME NEW c \in Browser, NEW v \in Account, NEW n \in Note, <<v, n>> \in left[c]
                 PROVE  /\ browser'[c].user # v
                        /\ \A x \in Endpoint : browser'[c].endpoint = x => ~Reaches(x, v, n)'
      BY <1>4 DEF LeftAlone
    <3>1. /\ browser'[c].user = browser[c].user
          /\ browser'[c].endpoint = browser[c].endpoint
      BY <1>6, <2>2
    <3>2. ASSUME NEW x \in Endpoint, browser[c].endpoint = x PROVE x # e \/ v # u
      <4>1. CASE c = b
        BY <1>9, <4>1 DEF PushInv, LeftAlone
      <4>2. CASE c # b
        <5>1. x # 0
          BY DispatchAssumption DEF Endpoint
        <5> QED
          BY <1>3, <3>2, <4>2, <5>1 DEF PushInv, OwnEndpoint
      <4> QED
        BY <4>1, <4>2
    <3> QED
      BY <2>6, <3>1, <3>2 DEF PushInv, LeftAlone
  <2>11. RowRemoved'
    <3>1. ASSUME NEW c \in Browser \ {b} PROVE RowGone(browser[c], registered')
      <4>1. \A x \in Endpoint : browser[c].endpoint = x => registered'[x] = registered[x]
        <5>1. 0 \notin Endpoint
          BY DispatchAssumption DEF Endpoint
        <5> QED
          BY <1>0, <1>3, <2>1, <5>1 DEF PushInv, PushRowsOK, OwnEndpoint
      <4> QED
        BY <4>1 DEF PushInv, RowRemoved, RowGone
    <3> QED
      BY <1>7, <2>2, <3>1 DEF RowRemoved
  <2> QED
    BY <2>4, <2>5, <2>7, <2>8, <2>9, <2>10, <2>11 DEF PushInv
<1> QED
  BY <1>8, <1>9

LEMMA PushKeeps == ASSUME PushInv, [DispatchNext]_dispatchVars PROVE PushInv'
<1>1. CASE UNCHANGED dispatchVars
  BY <1>1 DEF dispatchVars, PushInv, PushRowsOK, PushedWasClaimed, NotIssuedYet, OwnEndpoint,
              LeavesNothing, RowRemoved, LeftAlone, Reaches
<1>2. ASSUME NEW b \in Browser, BrowserStep(b) PROVE PushInv'
  BY <1>2, SignInKeeps, OverKeeps, GetKeeps, SaveKeeps, SubscribeFailsKeeps, SubscribeKeeps,
     BeginLeavingKeeps, RemoveKeeps, DropKeeps, SignOutKeeps, TurnOffKeeps, ShowKeeps
     DEF BrowserStep
<1> QED
  BY <1>1, <1>2, CreatePush, AgePush, DispatchStepPush DEF DispatchNext

-------------------------------------------------------------------------------

\* Whoever signs in next and however late a push is delivered, nobody who signed out of a
\* browser gets there a push its clean-up withdrew: any at all when the browser dropped
\* the subscription, and any that was not yet claimed when only the server removed its
\* row (logout and unsubscribeThisBrowser).
THEOREM PushesStay == DispatchSpec => PushStaysWithOwner
<1> DEFINE Stays == \A s \in shown' \ shown : <<note[s.note].to, s.note>> \notin left[s.browser]
<1>1. DispatchInit => PushInv
  BY PushStart
<1>2. PushInv /\ [DispatchNext]_dispatchVars => PushInv'
  BY PushKeeps
<1>3. PushInv /\ [DispatchNext]_dispatchVars => [Stays]_dispatchVars
  <2> SUFFICES ASSUME PushInv, DispatchNext, NEW s \in shown' \ shown
               PROVE  <<note[s.note].to, s.note>> \notin left[s.browser]
    OBVIOUS
  <2>1. PICK b \in Browser, w \in wire : ShowPush(w, b)
    <3>1. ASSUME NEW d \in Dispatcher, DispatchStep(d) \/ DispatchDies(d) PROVE shown' = shown
      BY <3>1 DEF DispatchStep, DispatchDies, StartDispatch, EndDispatch, Claim, Publish,
                  ReadDevices, NextNote, PushTo
    <3>2. ASSUME NEW b \in Browser, BrowserStep(b), ~\E w \in wire : ShowPush(w, b)
          PROVE  shown' = shown
      BY <3>2 DEF BrowserStep, SignIn, SessionOver, GetSubscription, SaveSubscription,
                  SubscribeFails, BeginSubscribe, BeginLeaving, RemoveRow, DropSubscription,
                  SignOut, TurnPushOff
    <3> QED
      BY <3>1, <3>2 DEF DispatchNext, CreateNote, Age
  <2>2. /\ s = [note |-> w.note, browser |-> b] /\ browser[b].endpoint = w.endpoint
        /\ w.endpoint \in Endpoint
    BY <2>1 DEF ShowPush, PushInv, PushRowsOK
  <2>3. ASSUME <<note[w.note].to, w.note>> \in left[b] PROVE FALSE
    <3>1. Reaches(w.endpoint, note[w.note].to, w.note)
      BY <2>1 DEF Reaches
    <3>2. note[w.note].to \in Account /\ w.note \in Note
      BY <2>3, BrowserRowFields
    <3> QED
      BY <2>2, <2>3, <3>1, <3>2 DEF PushInv, LeftAlone
  <2> QED
    BY <2>2, <2>3
<1> QED
  BY <1>1, <1>2, <1>3, PTL DEF DispatchSpec, PushStaysWithOwner

-------------------------------------------------------------------------------
(* Inbox: what is shown as read *)

Shows == [Item -> {"absent", "unread", "read"}]

\* The calls and the page, as far as this needs them: not what cursors and
\* counts are.
IsCall(q) ==
    q \in [kind : {"none", "count", "load", "older", "mark", "all"}, at : {"sent", "answered"},
           here : BOOLEAN, ends : BOOLEAN, item : 0 .. MaxItem, filter : Filter, list : Shows,
           cursor : {q.cursor}, count : {q.count}]
IsPage(p) ==
    p \in [open : BOOLEAN, filter : Filter, loaded : BOOLEAN, failed : BOOLEAN, list : Shows,
           cursor : {p.cursor}, older : BOOLEAN, marking : BOOLEAN]

InboxShape ==
    /\ row \in [Item -> {"unborn", "unread", "read"}]
    /\ IsPage(inbox)
    /\ \A c \in Call : IsCall(call[c])
    /\ call = [c \in Call |-> call[c]]

\* A list on its way shows as read only what is; a mark that was served made its
\* item read.
AnswersTrue ==
    \A c \in Call : /\ \A n \in Item : call[c].list[n] = "read" => row[n] = "read"
                    /\ call[c].kind = "mark" =>
                         /\ call[c].item \in Item
                         /\ call[c].at = "answered" => row[call[c].item] = "read"

\* A mark this page sent, not served yet.
AboutToRead(n) == \E c \in Call : /\ call[c].kind = "mark" /\ call[c].item = n
                                  /\ call[c].at = "sent" /\ call[c].here

ReadOrAboutTo == \A n \in Item : inbox.list[n] = "read" => row[n] = "read" \/ AboutToRead(n)

InboxInv == InboxShape /\ AnswersTrue /\ ReadOrAboutTo

LEMMA NoCallShape == IsCall(NoCall) /\ NoCall.kind = "none" /\ NoCall.list = Nothing
BY InboxAssumption DEF NoCall, IsCall, Nothing, Shows, Filter

LEMMA ClosedShape == IsPage(Closed) /\ Closed.list = Nothing
BY DEF Closed, IsPage, Nothing, Shows, Filter

LEMMA NothingRead == Nothing \in Shows /\ \A n \in Item : Nothing[n] = "absent"
BY DEF Nothing, Shows

LEMMA InboxStart == InboxInit => InboxInv
<1> SUFFICES ASSUME InboxInit PROVE InboxInv
  OBVIOUS
<1>1. InboxShape
  BY NoCallShape, ClosedShape DEF InboxInit, InboxShape
<1>2. AnswersTrue /\ ReadOrAboutTo
  BY NoCallShape, ClosedShape, NothingRead DEF InboxInit, AnswersTrue, ReadOrAboutTo
<1> QED
  BY <1>1, <1>2 DEF InboxInv

\* A step that replaces one call, and leaves read what is read.
LEMMA OneCall ==
  ASSUME InboxInv, NEW c \in Call, NEW q, IsCall(q), call' = [call EXCEPT ![c] = q],
         row' \in [Item -> {"unborn", "unread", "read"}], IsPage(inbox'),
         \A n \in Item : row[n] = "read" => row'[n] = "read",
         \A n \in Item : q.list[n] = "read" => row'[n] = "read",
         q.kind = "mark" => q.item \in Item /\ (q.at = "answered" => row'[q.item] = "read"),
         \A n \in Item : inbox'.list[n] = "read" =>
             \/ row'[n] = "read"
             \/ q.kind = "mark" /\ q.item = n /\ q.at = "sent" /\ q.here
             \/ \E d \in Call \ {c} : /\ call[d].kind = "mark" /\ call[d].item = n
                                      /\ call[d].at = "sent" /\ call[d].here
  PROVE  InboxInv'
<1>1. DOMAIN call = Call /\ call = [d \in Call |-> call[d]]
      /\ \A d \in Call : IsCall(call[d])
  BY DEF InboxInv, InboxShape
<1>2. /\ DOMAIN call' = Call /\ call'[c] = q
      /\ \A d \in Call \ {c} : call'[d] = call[d]
      /\ call' = [d \in Call |-> IF d = c THEN q ELSE call[d]]
  BY <1>1
<1>3. \A d \in Call : IsCall(call'[d])
  BY <1>1, <1>2
<1>4. call' = [d \in Call |-> call'[d]]
  BY <1>2
<1>5. InboxShape'
  BY <1>2, <1>3, <1>4 DEF InboxShape
<1>6. AnswersTrue'
  BY <1>2 DEF InboxInv, AnswersTrue
<1>7. ReadOrAboutTo'
  BY <1>2 DEF ReadOrAboutTo, AboutToRead
<1> QED
  BY <1>5, <1>6, <1>7 DEF InboxInv

\* A step that leaves the calls alone, and the page, or empties it.
LEMMA ReadingOnly ==
  ASSUME InboxInv, UNCHANGED <<call, inbox>>,
         row' \in [Item -> {"unborn", "unread", "read"}],
         \A n \in Item : row[n] = "read" => row'[n] = "read"
  PROVE  InboxInv'
BY DEF InboxInv, InboxShape, AnswersTrue, ReadOrAboutTo, AboutToRead, IsPage, IsCall

LEMMA ArrivesKeeps == ASSUME InboxInv, Arrives PROVE InboxInv'
<1>1. row \in [Item -> {"unborn", "unread", "read"}]
  BY DEF InboxInv, InboxShape
<1>2. Item \ Born # {} /\ Item \ Born \in SUBSET Nat
  BY InboxAssumption DEF Arrives, Born, Item
<1>3. Min(Item \ Born) \in Item \ Born
  BY <1>2, MinLeast
<1>4. row[Min(Item \ Born)] = "unborn"
  BY <1>3 DEF Born
<1>5. row' = [row EXCEPT ![Min(Item \ Born)] = "unread"]
  BY DEF Arrives
<1> QED
  BY <1>1, <1>3, <1>4, <1>5, ReadingOnly DEF Arrives

LEMMA ElsewhereReadKeeps == ASSUME InboxInv, NEW n \in Item, ReadElsewhere(n) PROVE InboxInv'
BY ReadingOnly DEF ReadElsewhere, InboxInv, InboxShape

LEMMA CloseKeeps == ASSUME InboxInv, CloseInbox PROVE InboxInv'
<1>1. /\ call' = [c \in Call |-> [call[c] EXCEPT !.here = FALSE]]
      /\ inbox' = Closed /\ UNCHANGED row /\ \A c \in Call : IsCall(call[c])
  BY DEF CloseInbox, InboxInv, InboxShape
<1>2. \A c \in Call : /\ call'[c] = [call[c] EXCEPT !.here = FALSE]
                      /\ IsCall(call'[c]) /\ call'[c].kind = call[c].kind
                      /\ call'[c].at = call[c].at /\ call'[c].item = call[c].item
                      /\ call'[c].list = call[c].list
  BY <1>1 DEF IsCall
<1>3. InboxShape'
  BY <1>1, <1>2, ClosedShape DEF InboxInv, InboxShape
<1>4. AnswersTrue'
  BY <1>1, <1>2 DEF InboxInv, AnswersTrue
<1>5. ReadOrAboutTo'
  BY <1>1, ClosedShape, NothingRead DEF ReadOrAboutTo
<1> QED
  BY <1>3, <1>4, <1>5 DEF InboxInv

\* What the calls and the page are known to be.
LEMMA KnownCall ==
  ASSUME InboxInv, NEW c \in Call
  PROVE  /\ IsCall(call[c]) /\ IsPage(inbox) /\ inbox.list \in Shows /\ call[c].list \in Shows
         /\ row \in [Item -> {"unborn", "unread", "read"}]
         /\ \A n \in Item : call[c].list[n] = "read" => row[n] = "read"
         /\ call[c].kind = "mark" =>
              /\ call[c].item \in Item
              /\ call[c].at = "answered" => row[call[c].item] = "read"
         /\ \A n \in Item : inbox.list[n] = "read" =>
             \/ row[n] = "read"
             \/ call[c].kind = "mark" /\ call[c].item = n /\ call[c].at = "sent" /\ call[c].here
             \/ \E d \in Call \ {c} : /\ call[d].kind = "mark" /\ call[d].item = n
                                      /\ call[d].at = "sent" /\ call[d].here
BY DEF InboxInv, InboxShape, AnswersTrue, ReadOrAboutTo, AboutToRead, IsCall, IsPage


\* Answering a call, as one change.
LEMMA CountAnswered ==
  ASSUME NEW p, IsCall(p), NEW count
  PROVE  [[p EXCEPT !.count = count] EXCEPT !.at = "answered"]
            = [p EXCEPT !.list = p.list, !.cursor = p.cursor, !.count = count, !.at = "answered"]
BY DEF IsCall

LEMMA ListAnswered ==
  ASSUME NEW p, IsCall(p), NEW count, NEW cursor, NEW list
  PROVE  [[p EXCEPT !.list = list, !.cursor = cursor, !.count = count] EXCEPT !.at = "answered"]
            = [p EXCEPT !.list = list, !.cursor = cursor, !.count = count, !.at = "answered"]
BY DEF IsCall

\* The server answers a call, having read what it reads.
LEMMA AnswerKeeps ==
  ASSUME InboxInv, NEW c \in Call, NEW list \in Shows, NEW cursor, NEW count,
         call' = [call EXCEPT ![c] = [call[c] EXCEPT !.list = list, !.cursor = cursor,
                                                     !.count = count, !.at = "answered"]],
         UNCHANGED inbox, row' \in [Item -> {"unborn", "unread", "read"}],
         \A n \in Item : row[n] = "read" => row'[n] = "read",
         \A n \in Item : list[n] = "read" => row'[n] = "read",
         call[c].kind = "mark" => row'[call[c].item] = "read"
  PROVE  InboxInv'
<1>0. PICK q : q = [call[c] EXCEPT !.list = list, !.cursor = cursor, !.count = count,
                                 !.at = "answered"]
  OBVIOUS
<1>1. /\ IsCall(call[c]) /\ IsPage(inbox)
      /\ call[c].kind = "mark" => call[c].item \in Item
      /\ \A n \in Item : inbox.list[n] = "read" =>
             \/ row[n] = "read"
             \/ call[c].kind = "mark" /\ call[c].item = n /\ call[c].at = "sent" /\ call[c].here
             \/ \E d \in Call \ {c} : /\ call[d].kind = "mark" /\ call[d].item = n
                                      /\ call[d].at = "sent" /\ call[d].here
  BY KnownCall
<1>2. IsCall(q) /\ q.kind = call[c].kind /\ q.item = call[c].item /\ q.list = list
  <2>1. PICK p : p = call[c]
    OBVIOUS
  <2>2. IsCall(p) /\ q = [p EXCEPT !.list = list, !.cursor = cursor, !.count = count,
                                   !.at = "answered"]
    BY <1>0, <1>1, <2>1
  <2>3. IsCall(q) /\ q.kind = p.kind /\ q.item = p.item /\ q.list = list
    BY <2>2 DEF IsCall
  <2> QED
    BY <2>1, <2>3
<1>3. call' = [call EXCEPT ![c] = q]
  BY <1>0
<1>4. IsPage(inbox')
  BY <1>1 DEF IsPage
<1>5. \A n \in Item : q.list[n] = "read" => row'[n] = "read"
  BY <1>2
<1>6. q.kind = "mark" => q.item \in Item /\ (q.at = "answered" => row'[q.item] = "read")
  BY <1>1, <1>2
<1>7. \A n \in Item : inbox'.list[n] = "read" =>
             \/ row'[n] = "read"
             \/ q.kind = "mark" /\ q.item = n /\ q.at = "sent" /\ q.here
             \/ \E d \in Call \ {c} : /\ call[d].kind = "mark" /\ call[d].item = n
                                      /\ call[d].at = "sent" /\ call[d].here
  BY <1>1
<1>8. IsCall(q)
  BY <1>2
<1> QED
  BY <1>3, <1>4, <1>5, <1>6, <1>7, <1>8, OneCall

LEMMA CountKeeps == ASSUME InboxInv, NEW c \in Call, GetUnreadCount(c) PROVE InboxInv'
<1>1. /\ IsCall(call[c]) /\ call[c].list \in Shows
      /\ row \in [Item -> {"unborn", "unread", "read"}]
      /\ \A n \in Item : call[c].list[n] = "read" => row[n] = "read"
  BY KnownCall
<1>2. /\ call' = [call EXCEPT ![c] = [[call[c] EXCEPT !.count = CountUnread] EXCEPT !.at = "answered"]]
      /\ row' = row /\ inbox' = inbox /\ call[c].kind = "count"
  BY DEF GetUnreadCount, Replies, Serves
<1>3. call' = [call EXCEPT ![c] = [call[c] EXCEPT !.list = call[c].list, !.cursor = call[c].cursor,
                                                  !.count = CountUnread, !.at = "answered"]]
  BY <1>1, <1>2, CountAnswered
<1>4. /\ row' \in [Item -> {"unborn", "unread", "read"}]
      /\ \A n \in Item : row[n] = "read" => row'[n] = "read"
      /\ \A n \in Item : call[c].list[n] = "read" => row'[n] = "read"
      /\ call[c].kind # "mark"
  BY <1>1, <1>2
<1>5. inbox' = inbox /\ call[c].list \in Shows
  BY <1>1, <1>2
<1> QED
  BY <1>3, <1>4, <1>5, AnswerKeeps

LEMMA ListKeeps == ASSUME InboxInv, NEW c \in Call, ListNotifications(c) PROVE InboxInv'
<1>0. PICK q : q = call[c]
  OBVIOUS
<1> DEFINE kept == {n \in Born : q.filter = "unread" => row[n] = "unread"}
           reached == {n \in kept : n <= q.cursor}
           matches == IF q.kind = "load" THEN kept ELSE {n \in reached : \E m \in reached : m > n}
           page == {n \in matches : Cardinality({m \in matches : m >= n}) <= PageSize}
           next == IF page = matches THEN 0 ELSE Min(page)
<1>1. call' = [call EXCEPT ![c] =
                   [[call[c] EXCEPT !.list = [n \in Item |-> IF n \in page THEN row[n] ELSE "absent"],
                                    !.cursor = next, !.count = CountUnread] EXCEPT !.at = "answered"]]
  BY <1>0 DEF ListNotifications, Replies
<1> HIDE DEF next
<1>9. page \in SUBSET Born
  OBVIOUS
<1> HIDE DEF page
<1> DEFINE list == [n \in Item |-> IF n \in page THEN row[n] ELSE "absent"]
<1>2. IsCall(call[c]) /\ row \in [Item -> {"unborn", "unread", "read"}]
  BY KnownCall
<1>3. list \in Shows /\ \A n \in Item : list[n] = "read" => row[n] = "read"
  BY <1>2, <1>9 DEF Shows, Born
<1>4. call' = [call EXCEPT ![c] =
                   [[call[c] EXCEPT !.list = list, !.cursor = next, !.count = CountUnread]
                       EXCEPT !.at = "answered"]]
  BY <1>1
<1>5. call[c].kind \in {"load", "older"} /\ UNCHANGED <<row, inbox>>
  BY DEF ListNotifications, Serves
<1> HIDE DEF list
<1>6. call' = [call EXCEPT ![c] = [call[c] EXCEPT !.list = list, !.cursor = next,
                                                  !.count = CountUnread, !.at = "answered"]]
  BY <1>2, <1>4, ListAnswered
<1> QED
  BY <1>2, <1>3, <1>5, <1>6, AnswerKeeps

LEMMA MarkServedKeeps == ASSUME InboxInv, NEW c \in Call, MarkNotificationRead(c) PROVE InboxInv'
<1> DEFINE still == Cardinality(Unread \ {call[c].item})
<1>1. call[c].kind = "mark" /\ call[c].item \in Item
  BY KnownCall DEF MarkNotificationRead, Serves
<1>2. /\ IsCall(call[c]) /\ call[c].list \in Shows
      /\ row \in [Item -> {"unborn", "unread", "read"}]
      /\ \A n \in Item : call[c].list[n] = "read" => row[n] = "read"
  BY KnownCall
<1>3. /\ call' = [call EXCEPT ![c] = [[call[c] EXCEPT !.count = still] EXCEPT !.at = "answered"]]
      /\ UNCHANGED inbox /\ row' = [row EXCEPT ![call[c].item] = "read"]
  BY DEF MarkNotificationRead, Replies
<1> HIDE DEF still
<1>4. call' = [call EXCEPT ![c] = [call[c] EXCEPT !.list = call[c].list, !.cursor = call[c].cursor,
                                                  !.count = still, !.at = "answered"]]
  BY <1>2, <1>3, CountAnswered
<1>5. /\ row' \in [Item -> {"unborn", "unread", "read"}] /\ row'[call[c].item] = "read"
      /\ \A n \in Item : row[n] = "read" => row'[n] = "read"
  BY <1>1, <1>2, <1>3
<1>6. \A n \in Item : call[c].list[n] = "read" => row'[n] = "read"
  BY <1>2, <1>5
<1>7. call[c].kind = "mark" => row'[call[c].item] = "read"
  BY <1>5
<1>8. inbox' = inbox /\ call[c].list \in Shows
  BY <1>2, <1>3
<1> QED
  BY <1>4, <1>5, <1>6, <1>7, <1>8, AnswerKeeps

LEMMA AllServedKeeps == ASSUME InboxInv, NEW c \in Call, MarkAllNotificationsRead(c) PROVE InboxInv'
<1>1. /\ IsCall(call[c]) /\ call[c].list \in Shows
      /\ row \in [Item -> {"unborn", "unread", "read"}]
      /\ \A n \in Item : call[c].list[n] = "read" => row[n] = "read"
  BY KnownCall
<1>2. /\ call' = [call EXCEPT ![c] = [[call[c] EXCEPT !.count = 0] EXCEPT !.at = "answered"]]
      /\ UNCHANGED inbox /\ call[c].kind = "all"
      /\ row' = [n \in Item |-> IF n \in Born THEN "read" ELSE "unborn"]
  BY DEF MarkAllNotificationsRead, Replies, Serves
<1>3. call' = [call EXCEPT ![c] = [call[c] EXCEPT !.list = call[c].list, !.cursor = call[c].cursor,
                                                  !.count = 0, !.at = "answered"]]
  BY <1>1, <1>2, CountAnswered
<1>4. /\ row' \in [Item -> {"unborn", "unread", "read"}]
      /\ \A n \in Item : row[n] = "read" => row'[n] = "read"
  BY <1>1, <1>2 DEF Born
<1>5. \A n \in Item : call[c].list[n] = "read" => row'[n] = "read"
  BY <1>1, <1>4
<1>6. call[c].kind # "mark" /\ inbox' = inbox /\ call[c].list \in Shows
  BY <1>1, <1>2
<1> QED
  BY <1>3, <1>4, <1>5, <1>6, AnswerKeeps

\* The page asks for something else than a mark, or takes an answer: what it then shows
\* as read was answered, or it showed it before.
LEMMA AskKeeps ==
  ASSUME InboxInv, NEW c \in Call, NEW q, IsCall(q), q.kind # "mark", q.list = Nothing,
         call' = [call EXCEPT ![c] = q], row' = row, IsPage(inbox'),
         \A n \in Item : inbox'.list[n] = "read" =>
             \/ row[n] = "read"
             \/ /\ inbox.list[n] = "read"
                /\ ~(/\ call[c].kind = "mark" /\ call[c].item = n
                     /\ call[c].at = "sent" /\ call[c].here)
  PROVE  InboxInv'
<1>1. row' \in [Item -> {"unborn", "unread", "read"}]
  BY KnownCall
<1>2. \A n \in Item : q.list[n] = "read" => row'[n] = "read"
  BY NothingRead
<1>3. \A n \in Item : inbox'.list[n] = "read" =>
             \/ row'[n] = "read"
             \/ \E d \in Call \ {c} : /\ call[d].kind = "mark" /\ call[d].item = n
                                      /\ call[d].at = "sent" /\ call[d].here
  BY KnownCall
<1>4. q.kind = "mark" => q.item \in Item /\ (q.at = "answered" => row'[q.item] = "read")
  OBVIOUS
<1>5. \A n \in Item : row[n] = "read" => row'[n] = "read"
  OBVIOUS
<1>6. \A n \in Item : inbox'.list[n] = "read" =>
             \/ row'[n] = "read"
             \/ q.kind = "mark" /\ q.item = n /\ q.at = "sent" /\ q.here
             \/ \E d \in Call \ {c} : /\ call[d].kind = "mark" /\ call[d].item = n
                                      /\ call[d].at = "sent" /\ call[d].here
  BY <1>3
<1> QED
  BY <1>1, <1>2, <1>4, <1>5, <1>6, OneCall

\* The page as it was, or with nothing more shown as read.
LEMMA SameShown ==
  ASSUME InboxInv, NEW c \in Call, NEW q, IsCall(q), q.kind # "mark", q.list = Nothing,
         call' = [call EXCEPT ![c] = q], row' = row, IsPage(inbox'),
         call[c].kind = "mark" => call[c].at = "answered",
         \A n \in Item : inbox'.list[n] = "read" => inbox.list[n] = "read"
  PROVE  InboxInv'
BY AskKeeps

LEMMA RefreshKeeps == ASSUME InboxInv, NEW c \in Call, RefreshUnread(c) PROVE InboxInv'
<1> DEFINE q == [NoCall EXCEPT !.kind = "count"]
<1>1. IsCall(q) /\ q.kind # "mark" /\ q.list = Nothing
  <2>1. PICK p : p = NoCall
    OBVIOUS
  <2>2. IsCall(p) /\ p.list = Nothing /\ q = [p EXCEPT !.kind = "count"]
    BY <2>1, NoCallShape
  <2> HIDE DEF q
  <2> QED
    BY <2>2 DEF IsCall
<1>2. call' = [call EXCEPT ![c] = q] /\ row' = row /\ inbox' = inbox /\ call[c].kind = "none"
  BY DEF RefreshUnread, Asks, Free
<1> HIDE DEF q
<1>3. IsPage(inbox')
  BY <1>2, KnownCall DEF IsPage
<1> QED
  BY <1>1, <1>2, <1>3, SameShown

LEMMA TakeCountKeeps == ASSUME InboxInv, NEW c \in Call, TakeCount(c) \/ TakeMark(c) PROVE InboxInv'
<1>1. /\ call' = [call EXCEPT ![c] = NoCall] /\ row' = row /\ inbox' = inbox
      /\ call[c].at = "answered"
  BY DEF TakeCount, TakeMark, Asks
<1>2. IsPage(inbox')
  BY <1>1, KnownCall DEF IsPage
<1>3. NoCall.kind # "mark"
  BY NoCallShape
<1> QED
  BY <1>1, <1>2, <1>3, NoCallShape, SameShown

LEMMA LoadShape ==
  ASSUME NEW filter \in Filter
  PROVE  /\ IsCall(LoadOf(filter)) /\ LoadOf(filter).kind = "load" /\ LoadOf(filter).list = Nothing
<1>1. PICK p : p = NoCall
  OBVIOUS
<1>2. PICK q : q = LoadOf(filter)
  OBVIOUS
<1>3. IsCall(p) /\ p.list = Nothing
  BY <1>1, NoCallShape
<1>4. q = [p EXCEPT !.kind = "load", !.here = TRUE, !.filter = filter]
  BY <1>1, <1>2 DEF LoadOf
<1>5. IsCall(q) /\ q.kind = "load" /\ q.list = Nothing
  BY <1>3, <1>4 DEF IsCall
<1> QED
  BY <1>2, <1>5

LEMMA OpenKeeps == ASSUME InboxInv, NEW c \in Call, OpenInbox(c) PROVE InboxInv'
<1>1. /\ call' = [call EXCEPT ![c] = LoadOf("all")] /\ row' = row /\ call[c].kind = "none"
      /\ inbox' = [Closed EXCEPT !.open = TRUE] /\ "all" \in Filter
  BY DEF OpenInbox, Asks, Free, Filter
<1>2. IsPage(inbox') /\ inbox'.list = Nothing
  BY <1>1, ClosedShape DEF IsPage
<1>3. LoadOf("all").kind # "mark" /\ IsCall(LoadOf("all")) /\ LoadOf("all").list = Nothing
  BY <1>1, LoadShape
<1>4. \A n \in Item : inbox'.list[n] = "read" => inbox.list[n] = "read"
  BY <1>2, NothingRead
<1> QED
  BY <1>1, <1>2, <1>3, <1>4, SameShown

LEMMA FilterKeeps ==
  ASSUME InboxInv, NEW c \in Call, NEW filter \in Filter, ChangeFilter(c, filter) PROVE InboxInv'
<1>1. /\ call' = [call EXCEPT ![c] = LoadOf(filter)] /\ row' = row /\ call[c].kind = "none"
      /\ inbox' = [inbox EXCEPT !.filter = filter, !.loaded = FALSE, !.list = Nothing]
  BY DEF ChangeFilter, Asks, Free
<1>2. IsPage(inbox') /\ inbox'.list = Nothing
  BY <1>1, KnownCall, NothingRead DEF IsPage
<1>3. LoadOf(filter).kind # "mark" /\ IsCall(LoadOf(filter)) /\ LoadOf(filter).list = Nothing
  BY LoadShape
<1>4. \A n \in Item : inbox'.list[n] = "read" => inbox.list[n] = "read"
  BY <1>2, NothingRead
<1> QED
  BY <1>1, <1>2, <1>3, <1>4, SameShown

LEMMA ReloadKeeps == ASSUME InboxInv, NEW c \in Call, Reload(c) PROVE InboxInv'
<1>1. /\ call' = [call EXCEPT ![c] = LoadOf(inbox.filter)] /\ row' = row /\ call[c].kind = "none"
      /\ inbox' = inbox
  BY DEF Reload, Asks, Free
<1>2. IsPage(inbox') /\ inbox.filter \in Filter
  BY <1>1, KnownCall DEF IsPage
<1>3. /\ LoadOf(inbox.filter).kind # "mark" /\ IsCall(LoadOf(inbox.filter))
      /\ LoadOf(inbox.filter).list = Nothing
  BY <1>2, LoadShape
<1> QED
  BY <1>1, <1>2, <1>3, SameShown

LEMMA LoadOlderKeeps == ASSUME InboxInv, NEW c \in Call, LoadOlder(c) PROVE InboxInv'
<1> DEFINE q == [LoadOf(inbox.filter) EXCEPT !.kind = "older", !.cursor = inbox.cursor]
<1>1. /\ call' = [call EXCEPT ![c] = q] /\ row' = row /\ call[c].kind = "none"
      /\ inbox' = [inbox EXCEPT !.older = TRUE]
  BY DEF LoadOlder, Asks, Free
<1>2. inbox.filter \in Filter
  BY KnownCall DEF IsPage
<1>3. IsCall(q) /\ q.kind # "mark" /\ q.list = Nothing
  <2>1. PICK p : p = LoadOf(inbox.filter)
    OBVIOUS
  <2>2. IsCall(p) /\ p.list = Nothing
    BY <1>2, <2>1, LoadShape
  <2>3. q = [p EXCEPT !.kind = "older", !.cursor = inbox.cursor]
    BY <2>1
  <2> HIDE DEF q
  <2> QED
    BY <2>2, <2>3 DEF IsCall
<1> HIDE DEF q
<1>4. IsPage(inbox') /\ inbox'.list = inbox.list
  BY <1>1, KnownCall DEF IsPage
<1> QED
  BY <1>1, <1>3, <1>4, SameShown

LEMMA MarkAllKeeps == ASSUME InboxInv, NEW c \in Call, MarkAll(c) PROVE InboxInv'
<1> DEFINE q == [NoCall EXCEPT !.kind = "all", !.here = TRUE, !.filter = inbox.filter]
<1>1. /\ call' = [call EXCEPT ![c] = q] /\ row' = row /\ call[c].kind = "none"
      /\ inbox' = [inbox EXCEPT !.marking = TRUE]
  BY DEF MarkAll, Asks, Free
<1>2. inbox.filter \in Filter
  BY KnownCall DEF IsPage
<1>3. IsCall(q) /\ q.kind # "mark" /\ q.list = Nothing
  <2>1. PICK p : p = NoCall
    OBVIOUS
  <2>2. IsCall(p) /\ p.list = Nothing
    BY <2>1, NoCallShape
  <2>3. q = [p EXCEPT !.kind = "all", !.here = TRUE, !.filter = inbox.filter]
    BY <2>1
  <2> HIDE DEF q
  <2> QED
    BY <1>2, <2>2, <2>3 DEF IsCall
<1> HIDE DEF q
<1>4. IsPage(inbox') /\ inbox'.list = inbox.list
  BY <1>1, KnownCall DEF IsPage
<1> QED
  BY <1>1, <1>3, <1>4, SameShown

\* An item shown as read before the server has it: a mark is on its way.
LEMMA MarkReadKeeps ==
  ASSUME InboxInv, NEW c \in Call, NEW n \in Item, MarkRead(c, n) PROVE InboxInv'
<1> DEFINE list == [inbox.list EXCEPT ![n] = "read"]
<1>1. PICK p : p = NoCall
  OBVIOUS
<1>2. PICK q : q = [p EXCEPT !.kind = "mark", !.here = TRUE, !.item = n]
  OBVIOUS
<1>3. /\ call' = [call EXCEPT ![c] = q] /\ row' = row /\ call[c].kind = "none"
      /\ inbox' = [inbox EXCEPT !.list[n] = "read"]
  BY <1>1, <1>2 DEF MarkRead, Asks, Free
<1>4. n \in 0 .. MaxItem
  BY InboxAssumption DEF Item
<1>5. IsCall(p) /\ p.list = Nothing /\ p.at = "sent"
  BY <1>1, NoCallShape DEF NoCall
<1>6. /\ IsCall(q) /\ q.list = Nothing /\ q.kind = "mark" /\ q.item = n /\ q.at = "sent"
      /\ q.here
  BY <1>2, <1>4, <1>5 DEF IsCall
<1>7. IsPage(inbox) /\ inbox.list \in Shows /\ row \in [Item -> {"unborn", "unread", "read"}]
  BY KnownCall
<1>8. list \in Shows
  BY <1>7 DEF Shows
<1>9. \A m \in Item : list[m] = "read" => m = n \/ inbox.list[m] = "read"
  BY <1>7 DEF Shows
<1>10. inbox' = [inbox EXCEPT !.list = list]
  BY <1>3, <1>7 DEF IsPage
<1> HIDE DEF list
<1>11. IsPage(inbox') /\ inbox'.list = list
  BY <1>7, <1>8, <1>10 DEF IsPage
<1>12. \A m \in Item : inbox'.list[m] = "read" =>
             \/ row'[m] = "read"
             \/ q.kind = "mark" /\ q.item = m /\ q.at = "sent" /\ q.here
             \/ \E d \in Call \ {c} : /\ call[d].kind = "mark" /\ call[d].item = m
                                      /\ call[d].at = "sent" /\ call[d].here
  <2> SUFFICES ASSUME NEW m \in Item, list[m] = "read", m # n, row'[m] # "read"
               PROVE  \E d \in Call \ {c} : /\ call[d].kind = "mark" /\ call[d].item = m
                                            /\ call[d].at = "sent" /\ call[d].here
    BY <1>6, <1>11
  <2>1. inbox.list[m] = "read" /\ row[m] # "read" /\ call[c].kind # "mark"
    BY <1>3, <1>9
  <2> QED
    BY <2>1, KnownCall
<1>13. \A m \in Item : q.list[m] = "read" => row'[m] = "read"
  BY <1>6, NothingRead
<1>14. q.kind = "mark" => q.item \in Item /\ (q.at = "answered" => row'[q.item] = "read")
  BY <1>6
<1>15. /\ row' \in [Item -> {"unborn", "unread", "read"}]
       /\ \A m \in Item : row[m] = "read" => row'[m] = "read"
  BY <1>3, <1>7
<1>16. IsCall(q) /\ IsPage(inbox')
  BY <1>6, <1>11
<1> QED
  BY <1>3, <1>12, <1>13, <1>14, <1>15, <1>16, OneCall

\* A list that arrives shows as read only what is.
LEMMA TakeListKeeps == ASSUME InboxInv, NEW c \in Call, TakeList(c) PROVE InboxInv'
<1>1. /\ call' = [call EXCEPT ![c] = NoCall] /\ row' = row /\ call[c].kind = "load"
      /\ inbox' = IF call[c].here
                  THEN [inbox EXCEPT !.list = call[c].list, !.cursor = call[c].cursor, !.loaded = TRUE,
                                     !.failed = FALSE, !.marking = inbox.marking /\ ~call[c].ends]
                  ELSE inbox
  BY DEF TakeList, Asks
<1>2. /\ IsPage(inbox) /\ call[c].list \in Shows
      /\ \A n \in Item : call[c].list[n] = "read" => row[n] = "read"
  BY KnownCall
<1>3. CASE call[c].here
  <2>1. PICK marking \in BOOLEAN : marking = (inbox.marking /\ ~call[c].ends)
    OBVIOUS
  <2>2. PICK list, cursor : list = call[c].list /\ cursor = call[c].cursor
    OBVIOUS
  <2>3. inbox' = [inbox EXCEPT !.list = list, !.cursor = cursor, !.loaded = TRUE,
                               !.failed = FALSE, !.marking = marking]
    BY <1>1, <1>3, <2>1, <2>2
  <2>4. list \in Shows
    BY <1>2, <2>2
  <2>5. IsPage(inbox') /\ inbox'.list = list
    BY <1>2, <2>3, <2>4 DEF IsPage
  <2>6. \A n \in Item : inbox'.list[n] = "read" => row[n] = "read"
    BY <1>2, <2>2, <2>5
  <2>7. NoCall.kind # "mark"
    BY NoCallShape
  <2> QED
    BY <1>1, <2>5, <2>6, <2>7, NoCallShape, AskKeeps
<1>4. CASE ~call[c].here
  <2>1. inbox' = inbox
    BY <1>1, <1>4
  <2>2. IsPage(inbox')
    BY <1>2, <2>1 DEF IsPage
  <2>3. NoCall.kind # "mark"
    BY NoCallShape
  <2> QED
    BY <1>1, <2>1, <2>2, <2>3, NoCallShape, SameShown
<1> QED
  BY <1>3, <1>4

LEMMA TakeOlderKeeps == ASSUME InboxInv, NEW c \in Call, TakeOlder(c) PROVE InboxInv'
<1> DEFINE list == [n \in Item |-> IF call[c].list[n] # "absent" THEN call[c].list[n]
                                   ELSE inbox.list[n]]
<1>1. /\ call' = [call EXCEPT ![c] = NoCall] /\ row' = row /\ call[c].kind = "older"
      /\ inbox' = IF call[c].here
                  THEN [inbox EXCEPT !.cursor = call[c].cursor, !.older = FALSE, !.loaded = TRUE,
                                     !.list = list]
                  ELSE inbox
  BY DEF TakeOlder, Asks
<1>2. /\ IsPage(inbox) /\ call[c].list \in Shows /\ inbox.list \in Shows
      /\ \A n \in Item : call[c].list[n] = "read" => row[n] = "read"
  BY KnownCall
<1>3. /\ list \in Shows
      /\ \A n \in Item : list[n] = "read" => row[n] = "read" \/ inbox.list[n] = "read"
  BY <1>2 DEF Shows
<1> HIDE DEF list
<1>4. NoCall.kind # "mark"
  BY NoCallShape
<1>5. CASE call[c].here
  <2>1. PICK cursor : cursor = call[c].cursor
    OBVIOUS
  <2>2. inbox' = [inbox EXCEPT !.cursor = cursor, !.older = FALSE, !.loaded = TRUE, !.list = list]
    BY <1>1, <1>5, <2>1
  <2>3. IsPage(inbox') /\ inbox'.list = list
    BY <1>2, <1>3, <2>2 DEF IsPage
  <2>4. \A n \in Item : inbox'.list[n] = "read" =>
             \/ row[n] = "read"
             \/ /\ inbox.list[n] = "read"
                /\ ~(/\ call[c].kind = "mark" /\ call[c].item = n
                     /\ call[c].at = "sent" /\ call[c].here)
    BY <1>1, <1>3, <2>3
  <2> QED
    BY <1>1, <1>4, <2>3, <2>4, NoCallShape, AskKeeps
<1>6. CASE ~call[c].here
  <2>1. inbox' = inbox
    BY <1>1, <1>6
  <2>2. IsPage(inbox')
    BY <1>2, <2>1 DEF IsPage
  <2> QED
    BY <1>1, <1>4, <2>1, <2>2, NoCallShape, SameShown
<1> QED
  BY <1>5, <1>6

LEMMA TakeAllKeeps == ASSUME InboxInv, NEW c \in Call, TakeAll(c) PROVE InboxInv'
<1>1. PICK p : p = LoadOf(call[c].filter)
  OBVIOUS
<1>2. PICK here : here = call[c].here
  OBVIOUS
<1>3. PICK q : q = [p EXCEPT !.here = here, !.ends = TRUE]
  OBVIOUS
<1>4. /\ call' = [call EXCEPT ![c] = q] /\ row' = row /\ inbox' = inbox /\ call[c].kind = "all"
  BY <1>1, <1>2, <1>3 DEF TakeAll, Asks
<1>5. call[c].filter \in Filter /\ here \in BOOLEAN
  BY <1>2, KnownCall DEF IsCall
<1>6. IsCall(p) /\ p.kind = "load" /\ p.list = Nothing
  BY <1>1, <1>5, LoadShape
<1>7. IsCall(q) /\ q.kind # "mark" /\ q.list = Nothing
  BY <1>3, <1>5, <1>6 DEF IsCall
<1>8. IsPage(inbox')
  BY <1>4, KnownCall DEF IsPage
<1> QED
  BY <1>4, <1>7, <1>8, SameShown

\* What a failed mark showed is taken back.
LEMMA TakenBack ==
  ASSUME InboxInv, NEW c \in Call
  PROVE  LET p == AfterFailure(call[c]) IN
         /\ IsPage(p)
         /\ \A n \in Item : p.list[n] = "read" =>
              inbox.list[n] = "read" /\ ~(call[c].kind = "mark" /\ call[c].item = n)
<1> DEFINE p == AfterFailure(call[c])
<1>1. IsPage(inbox) /\ inbox.list \in Shows /\ (call[c].kind = "mark" => call[c].item \in Item)
  BY KnownCall
<1>2. CASE call[c].kind = "load"
  <2>1. PICK marking \in BOOLEAN : marking = (inbox.marking /\ ~call[c].ends)
    OBVIOUS
  <2>2. p = [inbox EXCEPT !.failed = TRUE, !.marking = marking]
    BY <1>2, <2>1 DEF AfterFailure
  <2> HIDE DEF p
  <2>3. IsPage(p) /\ p.list = inbox.list
    BY <1>1, <2>2 DEF IsPage
  <2> QED
    BY <1>2, <2>3 DEF p
<1>3. CASE call[c].kind = "older"
  <2>1. p = [inbox EXCEPT !.older = FALSE]
    BY <1>3 DEF AfterFailure
  <2> HIDE DEF p
  <2>2. IsPage(p) /\ p.list = inbox.list
    BY <1>1, <2>1 DEF IsPage
  <2> QED
    BY <1>3, <2>2 DEF p
<1>4. CASE call[c].kind = "mark"
  <2>1. PICK n \in Item : n = call[c].item
    BY <1>1, <1>4
  <2>2. PICK listed \in {"absent", "unread"} :
          listed = IF inbox.list[n] = "absent" THEN "absent" ELSE "unread"
    OBVIOUS
  <2>3. PICK list : list = [inbox.list EXCEPT ![n] = listed]
    OBVIOUS
  <2>4. list \in Shows /\ \A m \in Item : list[m] = "read" => m # n /\ inbox.list[m] = "read"
    BY <1>1, <2>2, <2>3 DEF Shows
  <2>5. p = [inbox EXCEPT !.loaded = TRUE, !.list = list]
    <3>1. p = [inbox EXCEPT !.loaded = TRUE, !.list[n] = listed]
      BY <1>4, <2>1, <2>2 DEF AfterFailure
    <3> HIDE DEF p
    <3> QED
      BY <1>1, <2>3, <3>1 DEF IsPage
  <2> HIDE DEF p
  <2>6. IsPage(p) /\ p.list = list
    BY <1>1, <2>4, <2>5 DEF IsPage
  <2> QED
    BY <2>1, <2>4, <2>6 DEF p
<1>5. CASE call[c].kind \notin {"load", "older", "mark"}
  <2>1. p = [inbox EXCEPT !.marking = FALSE]
    BY <1>5 DEF AfterFailure
  <2> HIDE DEF p
  <2>2. IsPage(p) /\ p.list = inbox.list
    BY <1>1, <2>1 DEF IsPage
  <2> QED
    BY <1>5, <2>2 DEF p
<1> QED
  BY <1>2, <1>3, <1>4, <1>5

LEMMA FailKeeps == ASSUME InboxInv, NEW c \in Call, CallFails(c) PROVE InboxInv'
<1>1. /\ call' = [call EXCEPT ![c] = NoCall] /\ row' = row
      /\ inbox' = IF call[c].here THEN AfterFailure(call[c]) ELSE inbox
  BY DEF CallFails, Asks
<1>2. NoCall.kind # "mark"
  BY NoCallShape
<1>3. IsPage(inbox')
  BY <1>1, KnownCall, TakenBack DEF IsPage
<1>4. \A n \in Item : inbox'.list[n] = "read" =>
             \/ row[n] = "read"
             \/ /\ inbox.list[n] = "read"
                /\ ~(/\ call[c].kind = "mark" /\ call[c].item = n
                     /\ call[c].at = "sent" /\ call[c].here)
  BY <1>1, TakenBack
<1> QED
  BY <1>1, <1>2, <1>3, <1>4, NoCallShape, AskKeeps

LEMMA InboxKeeps == ASSUME InboxInv, [InboxNext]_inboxVars PROVE InboxInv'
<1>1. CASE UNCHANGED inboxVars
  <2>1. UNCHANGED <<row, call, inbox>>
    BY <1>1 DEF inboxVars
  <2> QED
    BY <2>1, ReadingOnly DEF InboxInv, InboxShape
<1>2. ASSUME NEW c \in Call, PageStep(c) PROVE InboxInv'
  BY <1>2, OpenKeeps, ReloadKeeps, LoadOlderKeeps, MarkAllKeeps, FilterKeeps, MarkReadKeeps
     DEF PageStep
<1>3. ASSUME NEW c \in Call, Completes(c) PROVE InboxInv'
  BY <1>3, CountKeeps, ListKeeps, MarkServedKeeps, AllServedKeeps, TakeCountKeeps, TakeListKeeps,
     TakeOlderKeeps, TakeAllKeeps DEF Completes
<1> QED
  BY <1>1, <1>2, <1>3, ArrivesKeeps, CloseKeeps, ElsewhereReadKeeps, RefreshKeeps, FailKeeps
     DEF InboxNext

-------------------------------------------------------------------------------

\* Whatever fails and in whatever order answers come, an item the page shows as read
\* while no mark for it is in flight is read on the server (page.tsx, markRead).
THEOREM ReadIsRead == InboxSpec => []ShownReadIsRead
<1>1. InboxInit => InboxInv
  BY InboxStart
<1>2. InboxInv /\ [InboxNext]_inboxVars => InboxInv'
  BY InboxKeeps
<1>3. InboxInv => ShownReadIsRead
  BY DEF InboxInv, ReadOrAboutTo, AboutToRead, ShownReadIsRead, Marking
<1> QED
  BY <1>1, <1>2, <1>3, PTL DEF InboxSpec
===============================================================================

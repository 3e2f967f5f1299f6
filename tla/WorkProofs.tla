------------------------------ MODULE WorkProofs ------------------------------
(***************************************************************************)
(* Proofs about working on tasks together: the board's rows under edits    *)
(* that cross, the draft in an open drawer, and the comments of a task     *)
(* with their mentions and the threads that follow them, for any numbers   *)
(* of people, tasks, requests and comments.                                *)
(***************************************************************************)
EXTENDS TaskBoard, TaskDrawer, Conversation, Integers, SequenceTheorems, TLAPS

-------------------------------------------------------------------------------
(* TaskDrawer: what is typed over a copy *)

DrawerField == {"open", "task", "form", "save", "conflict", "failed"}

\* A drawer keeps its fields, and what counts as typed really differs from the
\* copy underneath.
DrawerInv ==
    /\ drawer = [p \in Viewer |-> drawer[p]]
    /\ typed = [p \in Viewer |-> typed[p]]
    /\ \A p \in Viewer :
         /\ DOMAIN drawer[p] = DrawerField
         /\ \A f \in typed[p] : /\ drawer[p].task # Nothing
                                /\ drawer[p].form[f] # drawer[p].task.form[f]

\* The drawers do not care whose call is handled: one gets d and keeps of the
\* typed fields fs those that differ in d.
LEMMA DrawerTurns ==
  ASSUME DrawerInv, NEW p \in Viewer, NEW fs,
         NEW d, DOMAIN d = DrawerField,
         drawer' = [drawer EXCEPT ![p] = d],
         typed' = [typed EXCEPT ![p] = StillTyped(d, fs)]
  PROVE  DrawerInv'
<1>1. /\ \A v \in Viewer : drawer'[v] = IF v = p THEN d ELSE drawer[v]
      /\ \A v \in Viewer : typed'[v] = IF v = p THEN StillTyped(d, fs) ELSE typed[v]
  BY DEF DrawerInv
<1>2. drawer' = [v \in Viewer |-> drawer'[v]] /\ typed' = [v \in Viewer |-> typed'[v]]
  BY DEF DrawerInv
<1>3. ASSUME NEW v \in Viewer
      PROVE  /\ DOMAIN drawer'[v] = DrawerField
             /\ \A f \in typed'[v] : /\ drawer'[v].task # Nothing
                                     /\ drawer'[v].form[f] # drawer'[v].task.form[f]
  <2>1. CASE v = p
    <3>1. drawer'[v] = d /\ typed'[v] = StillTyped(d, fs)
      BY <1>1, <2>1
    <3> QED
      BY <3>1 DEF StillTyped
  <2>2. CASE v # p
    <3>1. drawer'[v] = drawer[v] /\ typed'[v] = typed[v]
      BY <1>1, <2>2
    <3>2. /\ DOMAIN drawer[v] = DrawerField
          /\ \A f \in typed[v] : /\ drawer[v].task # Nothing
                                  /\ drawer[v].form[f] # drawer[v].task.form[f]
      BY DEF DrawerInv
    <3>3. PICK e : e = drawer[v]
      OBVIOUS
    <3>4. PICK fv : fv = typed[v]
      OBVIOUS
    <3>5. drawer'[v] = e /\ typed'[v] = fv
      BY <3>1, <3>3, <3>4
    <3>6. /\ DOMAIN e = DrawerField
          /\ \A f \in fv : e.task # Nothing /\ e.form[f] # e.task.form[f]
      BY <3>2, <3>3, <3>4
    <3> QED
      BY <3>5, <3>6
  <2> QED
    BY <2>1, <2>2
<1> QED
  BY <1>2, <1>3 DEF DrawerInv

\* It holds at the start, and through every step: a person's, the server's, and
\* the page's with an answer.
LEMMA DrawerInvInit ==
  ASSUME DrawerInit
  PROVE  DrawerInv
<1>1. /\ drawer = [p \in Viewer |-> Closed]
      /\ typed = [p \in Viewer |-> {}]
  BY DEF DrawerInit
<1> QED
  BY <1>1 DEF DrawerInv, DrawerField, Closed

LEMMA DrawerInvStep ==
  ASSUME DrawerInv, [DrawerNext]_drawerVars
  PROVE  DrawerInv'
<1> DEFINE Shaped(d) == DOMAIN d = DrawerField
<1>1. \A p \in Viewer : Shaped(drawer[p])
  BY DEF DrawerInv
<1>2. Shaped(Closed)
  BY DEF Closed, DrawerField
<1>3. ASSUME NEW d, Shaped(d), NEW copy
      PROVE  Shaped(Under(d, copy))
  BY <1>3 DEF Under, DrawerField
<1>4. ASSUME NEW p \in Viewer, NEW d, Shaped(d), Put(p, d)
      PROVE  DrawerInv'
  BY <1>4, DrawerTurns DEF Put
<1>5. ASSUME UNCHANGED <<drawer, typed>>
      PROVE  DrawerInv'
  BY <1>5 DEF DrawerInv
<1>6. ASSUME NEW p, p \notin Viewer, NEW d, Put(p, d)
      PROVE  UNCHANGED <<drawer, typed>>
  BY <1>6 DEF Put, DrawerInv
<1>7. ASSUME NEW c \in call, NEW d, Shaped(d) \/ c.by \notin Viewer, Put(c.by, d)
      PROVE  DrawerInv'
  BY <1>4, <1>5, <1>6, <1>7
<1> HIDE DEF Shaped
<1>8. ASSUME NEW c \in call, AnswerStep(c)
      PROVE  DrawerInv'
  <2> DEFINE d == drawer[c.by]
  <2>1. Shaped(d) \/ c.by \notin Viewer
    BY <1>1
  <2>2. CASE LoadAnswer(c)
    <3>1. CASE ~c.mine
      BY <1>7, <2>1, <2>2, <3>1 DEF LoadAnswer
    <3>2. CASE c.mine /\ c.at = "done"
      <4>1. Put(c.by, [Under(d, c.answer) EXCEPT !.failed = FALSE])
        BY <2>2, <3>2 DEF LoadAnswer
      <4>2. Shaped(d) => Shaped(Under(d, c.answer))
        BY <1>3
      <4>3. Shaped(d) => Shaped([Under(d, c.answer) EXCEPT !.failed = FALSE])
        BY <4>2 DEF Shaped
      <4> QED
        BY <1>7, <2>1, <4>1, <4>3
    <3>3. CASE c.mine /\ c.at # "done"
      <4>1. Put(c.by, [d EXCEPT !.failed = TRUE])
        BY <2>2, <3>3 DEF LoadAnswer
      <4>2. Shaped(d) => Shaped([d EXCEPT !.failed = TRUE])
        BY DEF Shaped
      <4> QED
        BY <1>7, <2>1, <4>1, <4>2
    <3> QED
      BY <2>2, <3>1, <3>2, <3>3
  <2>3. ASSUME NEW copy, Announce(c, d, copy)
        PROVE  DrawerInv'
    BY <1>3, <1>7, <2>1, <2>3 DEF Announce
  <2>4. CASE SaveAnswer(c)
    <3>1. CASE ~c.mine
      BY <2>3, <2>4, <3>1 DEF SaveAnswer
    <3>2. CASE c.mine /\ c.at = "done"
      <4>1. Put(c.by, [d EXCEPT !.task = c.answer, !.form = c.answer.form, !.save = "saved"])
        BY <2>4, <3>2 DEF SaveAnswer
      <4>2. Shaped(d) => Shaped([d EXCEPT !.task = c.answer, !.form = c.answer.form, !.save = "saved"])
        BY DEF Shaped
      <4> QED
        BY <1>7, <2>1, <4>1, <4>2
    <3>3. CASE c.mine /\ c.at # "done"
      <4>1. Put(c.by, [d EXCEPT !.save = "failed", !.conflict = (c.at = "conflict")])
        BY <2>4, <3>3 DEF SaveAnswer
      <4>2. Shaped(d) => Shaped([d EXCEPT !.save = "failed", !.conflict = (c.at = "conflict")])
        BY DEF Shaped
      <4> QED
        BY <1>7, <2>1, <4>1, <4>2
    <3> QED
      BY <2>4, <3>1, <3>2, <3>3
  <2>5. CASE StatusAnswer(c)
    BY <2>3, <2>5 DEF StatusAnswer
  <2>6. CASE DeleteAnswer(c)
    <3>1. Put(c.by, Closed) \/ Put(c.by, d)
      BY <2>6 DEF DeleteAnswer
    <3> QED
      BY <1>2, <1>7, <2>1, <3>1
  <2> QED
    BY <1>8, <2>2, <2>4, <2>5, <2>6 DEF AnswerStep
<1>9. ASSUME NEW p \in Viewer, PersonStep(p)
      PROVE  DrawerInv'
  <2> DEFINE d == drawer[p]
  <2>1. Shaped(d)
    BY <1>1
  <2>2. CASE OpenDrawer(p)
    <3>1. Put(p, [Closed EXCEPT !.open = TRUE]) /\ Shaped([Closed EXCEPT !.open = TRUE])
      BY <2>2 DEF OpenDrawer, Closed, Shaped, DrawerField
    <3> QED
      BY <1>4, <3>1
  <2>3. CASE Reload(p) \/ Delete(p)
    BY <1>5, <2>3 DEF Reload, Delete
  <2>4. CASE Discard(p)
    <3>1. Put(p, [d EXCEPT !.form = d.task.form, !.save = "idle", !.conflict = FALSE])
      BY <2>4 DEF Discard
    <3>2. Shaped([d EXCEPT !.form = d.task.form, !.save = "idle", !.conflict = FALSE])
      BY <2>1 DEF Shaped
    <3> QED
      BY <1>4, <3>1, <3>2
  <2>5. CASE Close(p)
    BY <1>2, <1>4, <2>5 DEF Close
  <2>6. CASE Save(p)
    <3>1. Put(p, [d EXCEPT !.save = "saving", !.conflict = FALSE])
      BY <2>6 DEF Save
    <3>2. Shaped([d EXCEPT !.save = "saving", !.conflict = FALSE])
      BY <2>1 DEF Shaped
    <3> QED
      BY <1>4, <3>1, <3>2
  <2>7. ASSUME NEW f \in FormField, NEW v \in FieldValue, Type(p, f, v)
        PROVE  DrawerInv'
    <3>1. PICK next : next = [d EXCEPT !.form = [d.form EXCEPT ![f] = v],
                               !.save = IF d.save = "saving" THEN d.save ELSE "idle"]
      OBVIOUS
    <3>2. Shaped(next)
      BY <2>1, <3>1 DEF Shaped
    <3>3. drawer' = [drawer EXCEPT ![p] = next]
          /\ typed' = [typed EXCEPT ![p] = StillTyped(next, typed[p] \cup {f})]
      BY <2>7, <3>1 DEF Type
    <3> QED
      BY <3>2, <3>3, DrawerTurns DEF Shaped
  <2>8. ASSUME NEW s \in Stage, ChangeStatus(p, s)
        PROVE  DrawerInv'
    BY <1>3, <1>4, <2>1, <2>8 DEF ChangeStatus
  <2> QED
    BY <1>9, <2>2, <2>3, <2>4, <2>5, <2>6, <2>7, <2>8 DEF PersonStep
<1>10. ASSUME NEW c \in call, Serve(c) \/ Lose(c)
       PROVE  DrawerInv'
  BY <1>5, <1>10 DEF Serve, Lose
<1>11. ASSUME NEW f \in FormField, NEW v \in FieldValue, SavedElsewhere(f, v)
       PROVE  DrawerInv'
  BY <1>5, <1>11 DEF SavedElsewhere
<1>12. CASE UNCHANGED drawerVars
  BY <1>5, <1>12 DEF drawerVars
<1> QED
  BY <1>8, <1>9, <1>10, <1>11, <1>12 DEF DrawerNext

\* Whatever is reloaded, refused or announced under a draft, what a person typed
\* over the copy stays in the form: an answer puts a copy under what differs from
\* it and leaves a form that is dirty alone (TaskDrawer.tsx:9-11).
THEOREM TypedStays ==
  DrawerSpec => EditsSurvive
<1>1. ASSUME DrawerInv,
             NEW c \in call,
             LoadAnswer(c) \/ StatusAnswer(c) \/ (SaveAnswer(c) /\ c.at # "done"),
             NEW p \in Viewer, NEW f \in typed[p]
      PROVE  drawer'[p].form[f] = drawer[p].form[f]
  <2> DEFINE d == drawer[c.by]
  <2>1. ASSUME NEW e, Put(c.by, e), c.by = p => e.form[f] = d.form[f]
        PROVE  drawer'[p].form[f] = drawer[p].form[f]
    <3>1. drawer' = [drawer EXCEPT ![c.by] = e] /\ drawer = [v \in Viewer |-> drawer[v]]
      BY <1>1, <2>1 DEF Put, DrawerInv
    <3>2. drawer'[p] = IF p = c.by THEN e ELSE drawer[p]
      BY <3>1
    <3> QED
      BY <2>1, <3>2
  <2>2. c.by = p => Dirty(d) /\ DOMAIN d = DrawerField
    BY <1>1 DEF DrawerInv, Dirty
  <2>3. ASSUME NEW copy
        PROVE  c.by = p => Under(d, copy).form = d.form
    BY <2>2 DEF Under
  <2>4. ASSUME NEW copy, Announce(c, d, copy)
        PROVE  drawer'[p].form[f] = drawer[p].form[f]
    BY <2>1, <2>3, <2>4 DEF Announce
  <2>5. CASE LoadAnswer(c)
    <3>1. PICK u : u = Under(d, c.answer)
      OBVIOUS
    <3>2. c.by = p => /\ u.form = d.form
                      /\ [u EXCEPT !.failed = FALSE].form = d.form
                      /\ [d EXCEPT !.failed = TRUE].form = d.form
      BY <2>2, <2>3, <3>1 DEF Under
    <3>3. Put(c.by, d) \/ Put(c.by, [u EXCEPT !.failed = FALSE]) \/ Put(c.by, [d EXCEPT !.failed = TRUE])
      BY <2>5, <3>1 DEF LoadAnswer
    <3> QED
      BY <2>1, <3>2, <3>3
  <2>6. CASE StatusAnswer(c)
    BY <2>4, <2>6 DEF StatusAnswer
  <2>7. CASE SaveAnswer(c) /\ c.at # "done"
    <3>1. CASE ~c.mine
      BY <2>4, <2>7, <3>1 DEF SaveAnswer
    <3>2. CASE c.mine
      <4>1. Put(c.by, [d EXCEPT !.save = "failed", !.conflict = (c.at = "conflict")])
        BY <2>7, <3>2 DEF SaveAnswer
      <4>2. c.by = p => [d EXCEPT !.save = "failed", !.conflict = (c.at = "conflict")].form = d.form
        BY <2>2
      <4> QED
        BY <2>1, <4>1, <4>2
    <3> QED
      BY <3>1, <3>2
  <2> QED
    BY <1>1, <2>5, <2>6, <2>7
<1>2. DrawerSpec => []DrawerInv
  BY DrawerInvInit, DrawerInvStep, PTL DEF DrawerSpec
<1>3. DrawerInv /\ [DrawerNext]_drawerVars =>
        [\A c \in call :
           (LoadAnswer(c) \/ StatusAnswer(c) \/ (SaveAnswer(c) /\ c.at # "done"))
           => \A p \in Viewer : \A f \in typed[p] : drawer'[p].form[f] = drawer[p].form[f]]_drawerVars
  BY <1>1
<1> QED
  BY <1>2, <1>3, PTL DEF DrawerSpec, EditsSurvive

-------------------------------------------------------------------------------
(* Conversation: the calls, the comments and the threads keep their types *)

CallRow == [at : {"free", "sent", "loaded", "done", "failed"},
            kind : {"none", "load", "post", "edit", "delete"},
            by : Reader \cup {Nobody}, mine : BOOLEAN, id : CommentId \cup {0},
            text : Text, names : SUBSET Reader,
            seen : [text : Text, names : SUBSET Reader], answer : Seq(CommentCopy)]

\* A call is someone's and of some kind, only a change is checked and then
\* committed, and what answers an edit or a delete is the comment it was for.
CallOK(q) ==
    /\ q \in CallRow
    /\ q.at # "free" => q.by \in Reader
    /\ q.at # "free" => q.kind # "none"
    /\ q.kind = "load" => q.at # "loaded"
    /\ q.kind \in {"edit", "delete"} => q.id \in CommentId
    /\ (q.at = "done" /\ q.kind \in {"edit", "delete"})
         => Len(q.answer) = 1 /\ q.answer[1].id = q.id

\* The comments written so far are the first ones.
Numbered == \E n \in 0 .. MaxComment : \A c \in CommentId : (comment[c].life # "unborn") = (c <= n)

TalkInv ==
    /\ standing = [p \in Reader |-> standing[p]]
    /\ comment \in [CommentId -> CommentRow]
    /\ thread \in [Reader -> Thread]
    /\ stream = [p \in Reader |-> stream[p]]
    /\ bus \in Nat /\ due \in [Reader -> Nat]
    /\ request = [s \in Slot |-> request[s]]
    /\ \A s \in Slot : CallOK(request[s])
    /\ Numbered

LEMMA WrittenIsLast ==
  ASSUME Numbered
  PROVE  /\ Written \in 0 .. MaxComment
         /\ \A c \in CommentId : (comment[c].life # "unborn") = (c <= Written)
  BY DEF Numbered, Written

\* What a tab sends, what the server answers and what it loads are calls again.
LEMMA CallSent ==
  ASSUME ConversationAssumption, NEW p \in Reader, NEW kind \in {"load", "post", "edit", "delete"},
         NEW c \in CommentId \cup {0}, kind \in {"edit", "delete"} => c \in CommentId,
         NEW text \in Text, NEW names \in SUBSET Reader
  PROVE  CallOK([NoCall EXCEPT !.at = "sent", !.kind = kind, !.by = p, !.mine = TRUE,
                               !.id = c, !.text = text, !.names = names])
<1>1. PICK q : q = [NoCall EXCEPT !.at = "sent", !.kind = kind, !.by = p, !.mine = TRUE,
                               !.id = c, !.text = text, !.names = names]
  OBVIOUS
<1>2. q = [at |-> "sent", kind |-> kind, by |-> p, mine |-> TRUE, id |-> c,
           text |-> text, names |-> names, seen |-> Unseen, answer |-> <<>>]
  BY <1>1 DEF NoCall
<1>3. 0 \in Text /\ <<>> \in Seq(CommentCopy) /\ {} \in SUBSET Reader
  BY ConversationAssumption DEF Text
<1>4. Unseen \in [text : Text, names : SUBSET Reader]
  BY <1>3 DEF Unseen
<1>5. q \in CallRow
  BY <1>2, <1>3, <1>4 DEF CallRow
<1>6. q.at = "sent" /\ q.kind = kind /\ q.by = p /\ q.id = c
  BY <1>2
<1> QED
  BY <1>1, <1>5, <1>6 DEF CallOK

Returned(q, at, answer) ==
    [q EXCEPT !.at = at, !.answer = answer, !.text = 0, !.names = {}, !.seen = Unseen]

LEMMA CallReturns ==
  ASSUME ConversationAssumption, NEW q, CallOK(q), q.at # "free", NEW at \in {"done", "failed"},
         NEW answer \in Seq(CommentCopy),
         (at = "done" /\ q.kind \in {"edit", "delete"}) => Len(answer) = 1 /\ answer[1].id = q.id
  PROVE  /\ CallOK(Returned(q, at, answer))
         /\ Returned(q, at, answer).at = at /\ Returned(q, at, answer).answer = answer
         /\ Returned(q, at, answer).kind = q.kind /\ Returned(q, at, answer).by = q.by
         /\ Returned(q, at, answer).mine = q.mine /\ Returned(q, at, answer).id = q.id
<1>1. PICK x : x = Returned(q, at, answer)
  OBVIOUS
<1>2. 0 \in Text /\ {} \in SUBSET Reader
  BY ConversationAssumption DEF Text
<1>3. Unseen \in [text : Text, names : SUBSET Reader]
  BY <1>2 DEF Unseen
<1>4. q \in CallRow
  BY DEF CallOK
<1>5. x \in CallRow
  BY <1>1, <1>2, <1>3, <1>4 DEF CallRow, Returned
<1>6. /\ x.at = at /\ x.answer = answer /\ x.kind = q.kind /\ x.by = q.by
      /\ x.mine = q.mine /\ x.id = q.id
  BY <1>1, <1>4 DEF CallRow, Returned
<1>7. CallOK(x)
  BY <1>5, <1>6 DEF CallOK
<1> QED
  BY <1>1, <1>6, <1>7

\* The copy of a row is a copy of that comment.
LEMMA CopyTyped ==
  ASSUME ConversationAssumption, NEW c \in CommentId, NEW r \in CommentRow
  PROVE  CopyOf(c, r) \in CommentCopy /\ CopyOf(c, r).id = c
<1>1. PICK x : x = IF r.life = "deleted" THEN 0 ELSE r.text
  OBVIOUS
<1>2. x \in Text
  BY <1>1, ConversationAssumption DEF CommentRow, Text
<1>3. CopyOf(c, r) = [id |-> c, gone |-> r.life = "deleted", text |-> x]
  BY <1>1 DEF CopyOf
<1>4. PICK b \in BOOLEAN : b = (r.life = "deleted")
  OBVIOUS
<1> QED
  BY <1>2, <1>3, <1>4 DEF CommentCopy

\* One call turns into another one.
LEMMA CallTurns ==
  ASSUME TalkInv, NEW s \in Slot, NEW q, CallOK(q), request' = [request EXCEPT ![s] = q]
  PROVE  /\ request' = [v \in Slot |-> request'[v]]
         /\ \A v \in Slot : request'[v] = IF v = s THEN q ELSE request[v]
         /\ \A v \in Slot : CallOK(request'[v])
<1>1. \A v \in Slot : request'[v] = IF v = s THEN q ELSE request[v]
  BY DEF TalkInv
<1>2. request' = [v \in Slot |-> request'[v]]
  BY DEF TalkInv
<1> QED
  BY <1>1, <1>2 DEF TalkInv

\* A load changes the thread only in whether its loads have crossed.
LEMMA ThreadLoads ==
  ASSUME ConversationAssumption, TalkInv, NEW s \in Slot, NEW p \in Reader, NEW t \in Thread,
         Loads(s, p, t)
  PROVE  /\ thread' \in [Reader -> Thread]
         /\ request' = [v \in Slot |-> request'[v]]
         /\ \A v \in Slot : CallOK(request'[v])
         /\ request[s] = NoCall
         /\ request'[s].at = "sent" /\ request'[s].kind = "load"
         /\ request'[s].by = p /\ request'[s].mine
         /\ \A v \in Slot : v # s => request'[v] = request[v]
         /\ \A v \in Reader : v # p => thread'[v] = thread[v]
         /\ thread'[p].open = t.open /\ thread'[p].shown = t.shown
         /\ thread'[p].failed = t.failed /\ thread'[p].missed = t.missed
         /\ thread'[p].crossed = (t.crossed \/ Pending(p, "load") # {})
<1>1. PICK q : q = [NoCall EXCEPT !.at = "sent", !.kind = "load", !.by = p, !.mine = TRUE,
                               !.id = 0, !.text = 0, !.names = {}]
  OBVIOUS
<1>2. 0 \in Text /\ {} \in SUBSET Reader
  BY ConversationAssumption DEF Text
<1>3. CallOK(q)
  BY <1>1, <1>2, CallSent
<1>4. request' = [request EXCEPT ![s] = q] /\ request[s] = NoCall
  BY <1>1 DEF Loads, Sends, Puts
<1>5. q.at = "sent" /\ q.kind = "load" /\ q.by = p /\ q.mine
  BY <1>1 DEF NoCall
<1>6. PICK b \in BOOLEAN : b = (t.crossed \/ Pending(p, "load") # {})
  OBVIOUS
<1>7. PICK u : u = [t EXCEPT !.crossed = b]
  OBVIOUS
<1>8. thread' = [thread EXCEPT ![p] = u]
  BY <1>6, <1>7 DEF Loads
<1>9. /\ u \in Thread
      /\ u.open = t.open /\ u.shown = t.shown /\ u.failed = t.failed /\ u.missed = t.missed
      /\ u.crossed = b
  BY <1>7 DEF Thread
<1>10. thread \in [Reader -> Thread]
  BY DEF TalkInv
<1>11. thread' \in [Reader -> Thread] /\ \A v \in Reader : thread'[v] = IF v = p THEN u ELSE thread[v]
  BY <1>8, <1>9, <1>10
<1>12. /\ request' = [v \in Slot |-> request'[v]]
       /\ \A v \in Slot : request'[v] = IF v = s THEN q ELSE request[v]
       /\ \A v \in Slot : CallOK(request'[v])
  BY <1>3, <1>4, CallTurns
<1> QED
  BY <1>4, <1>5, <1>6, <1>9, <1>11, <1>12

\* What the answer of a call leaves shown is a list of comments, which an edit or a
\* delete changes in place.
LEMMA ShownTyped ==
  ASSUME NEW q, CallOK(q), q.at = "done", NEW shown \in {Nobody} \cup Seq(CommentCopy)
  PROVE  /\ ShownAfter(q, shown) \in Seq(CommentCopy)
         /\ q.kind = "load" => ShownAfter(q, shown) = q.answer
         /\ (q.kind # "load" /\ shown # Nobody) =>
              \A x \in ToSet(shown) : \E y \in ToSet(ShownAfter(q, shown)) : y.id = x.id
<1> DEFINE list == IF shown = Nobody THEN <<>> ELSE shown
<1>1. list \in Seq(CommentCopy)
  OBVIOUS
<1>2. q.answer \in Seq(CommentCopy) /\ q.kind \in {"none", "load", "post", "edit", "delete"}
  BY DEF CallOK, CallRow
<1>3. PICK l \in Seq(CommentCopy) : l = list
  BY <1>1
<1>4. ShownAfter(q, shown) = CASE q.kind = "load" -> q.answer
          [] q.kind = "post" -> l \o q.answer
          [] OTHER -> [i \in DOMAIN l |-> IF l[i].id = q.id THEN q.answer[1] ELSE l[i]]
  BY <1>3 DEF ShownAfter
<1>5. CASE q.kind = "load"
  BY <1>2, <1>4, <1>5
<1>6. CASE q.kind = "post"
  <2>1. ShownAfter(q, shown) = l \o q.answer
    BY <1>4, <1>6
  <2>2. l \o q.answer \in Seq(CommentCopy)
    BY <1>2
  <2>3. Len(l \o q.answer) = Len(l) + Len(q.answer) /\ \A i \in 1 .. Len(l) : (l \o q.answer)[i] = l[i]
    BY <1>2
  <2>4. ASSUME NEW i \in 1 .. Len(l)
        PROVE  i \in 1 .. Len(l \o q.answer)
    BY <1>2, <2>3
  <2>5. ASSUME shown # Nobody, NEW x \in ToSet(shown)
        PROVE  x \in ToSet(ShownAfter(q, shown))
    <3>1. PICK i \in 1 .. Len(l) : x = l[i]
      BY <1>3, <2>5 DEF ToSet
    <3>2. DOMAIN (l \o q.answer) = 1 .. Len(l \o q.answer)
      BY <2>2
    <3> QED
      BY <2>1, <2>3, <2>4, <3>1, <3>2 DEF ToSet
  <2> QED
    BY <1>6, <2>1, <2>2, <2>5
<1>7. CASE q.kind \notin {"load", "post"}
  <2>1. PICK f : f = [i \in DOMAIN l |-> IF l[i].id = q.id THEN q.answer[1] ELSE l[i]]
    OBVIOUS
  <2>2. ShownAfter(q, shown) = f
    BY <1>4, <1>7, <2>1
  <2>3. DOMAIN l = 1 .. Len(l) /\ \A i \in 1 .. Len(l) : l[i] \in CommentCopy
    OBVIOUS
  <2>4. CASE q.kind = "none"
    BY <2>4 DEF CallOK
  <2>5. CASE q.kind # "none"
    <3>1. Len(q.answer) = 1 /\ q.answer[1].id = q.id
      BY <1>2, <1>7, <2>5 DEF CallOK
    <3>2. q.answer[1] \in CommentCopy
      BY <1>2, <3>1
    <3>3. f \in [1 .. Len(l) -> CommentCopy]
      BY <2>1, <2>3, <3>2
    <3>4. f \in Seq(CommentCopy)
      BY <3>3
    <3>5. \A i \in 1 .. Len(l) : f[i].id = l[i].id
      BY <2>1, <2>3, <3>1
    <3>6. ASSUME shown # Nobody, NEW x \in ToSet(shown)
          PROVE  \E y \in ToSet(f) : y.id = x.id
      <4>1. PICK i \in 1 .. Len(l) : x = l[i]
        BY <1>3, <3>6 DEF ToSet
      <4>2. f[i] \in ToSet(f)
        BY <3>3 DEF ToSet
      <4> QED
        BY <3>5, <4>1, <4>2
    <3> QED
      BY <1>7, <2>2, <3>4, <3>6
  <2> QED
    BY <2>4, <2>5
<1> QED
  BY <1>5, <1>6, <1>7

\* The answer of a call takes it off and reaches the thread it came from.
LEMMA AnswerTaken ==
  ASSUME TalkInv, NEW s \in Slot, TakeAnswer(s)
  PROVE  /\ request[s].by \in Reader
         /\ request' = [v \in Slot |-> request'[v]]
         /\ \A v \in Slot : request'[v] = IF v = s THEN NoCall ELSE request[v]
         /\ thread' \in [Reader -> Thread]
         /\ \A v \in Reader : v # request[s].by => thread'[v] = thread[v]
         /\ thread'[request[s].by].open = thread[request[s].by].open
         /\ thread'[request[s].by].crossed = thread[request[s].by].crossed
         /\ thread'[request[s].by].missed = thread[request[s].by].missed
         /\ ~request[s].mine => thread'[request[s].by] = thread[request[s].by]
         /\ (request[s].mine /\ request[s].at = "done") =>
              /\ thread'[request[s].by].shown = ShownAfter(request[s], thread[request[s].by].shown)
              /\ thread'[request[s].by].failed = (thread[request[s].by].failed /\ request[s].kind # "load")
         /\ (request[s].mine /\ request[s].at # "done") =>
              /\ thread'[request[s].by].shown = thread[request[s].by].shown
              /\ thread'[request[s].by].failed = (thread[request[s].by].failed \/ request[s].kind = "load")
<1>1. PICK q : q = request[s]
  OBVIOUS
<1>2. CallOK(q) /\ q.at \in {"done", "failed"} /\ q \in CallRow
  BY <1>1 DEF TalkInv, TakeAnswer, CallOK
<1>3. q.by \in Reader /\ q.mine \in BOOLEAN /\ thread \in [Reader -> Thread]
  BY <1>2 DEF CallOK, CallRow, TalkInv
<1>4. PICK t \in Thread : t = thread[q.by]
  BY <1>3
<1>5. PICK sh : sh = IF q.mine /\ q.at = "done" THEN ShownAfter(q, t.shown) ELSE t.shown
  OBVIOUS
<1>6. sh \in {Nobody} \cup Seq(CommentCopy)
  <2>1. t.shown \in {Nobody} \cup Seq(CommentCopy)
    BY DEF Thread
  <2>2. q.at = "done" => ShownAfter(q, t.shown) \in Seq(CommentCopy)
    BY <1>2, <2>1, ShownTyped
  <2> QED
    BY <1>5, <2>1, <2>2
<1>7. PICK fl \in BOOLEAN : fl = IF ~q.mine THEN t.failed
                                 ELSE IF q.at = "done" THEN t.failed /\ q.kind # "load"
                                 ELSE t.failed \/ q.kind = "load"
  <2>1. t.failed \in BOOLEAN
    BY DEF Thread
  <2> QED
    BY <2>1
<1>8. PICK u : u = [t EXCEPT !.shown = sh, !.failed = fl]
  OBVIOUS
<1>9. /\ u \in Thread
      /\ u.open = t.open /\ u.crossed = t.crossed /\ u.missed = t.missed
      /\ u.shown = sh /\ u.failed = fl
  BY <1>6, <1>8 DEF Thread
<1>10. thread' = [thread EXCEPT ![q.by] = u]
  <2>1. thread' = [thread EXCEPT ![q.by] =
                    IF ~q.mine THEN t
                    ELSE IF q.at = "done"
                    THEN [t EXCEPT !.shown = ShownAfter(q, t.shown),
                                   !.failed = t.failed /\ q.kind # "load"]
                    ELSE [t EXCEPT !.failed = t.failed \/ q.kind = "load"]]
    BY <1>1, <1>4 DEF TakeAnswer
  <2>2. CASE ~q.mine
    <3>1. u = t
      BY <1>5, <1>7, <1>8, <2>2 DEF Thread
    <3> QED
      BY <2>1, <2>2, <3>1
  <2>3. CASE q.mine /\ q.at = "done"
    <3>1. u = [t EXCEPT !.shown = ShownAfter(q, t.shown), !.failed = t.failed /\ q.kind # "load"]
      BY <1>5, <1>7, <1>8, <2>3
    <3> QED
      BY <2>1, <2>3, <3>1
  <2>4. CASE q.mine /\ q.at # "done"
    <3>1. u = [t EXCEPT !.failed = t.failed \/ q.kind = "load"]
      BY <1>5, <1>7, <1>8, <2>4 DEF Thread
    <3> QED
      BY <2>1, <2>4, <3>1
  <2> QED
    BY <2>2, <2>3, <2>4
<1>11. thread' \in [Reader -> Thread] /\ \A v \in Reader : thread'[v] = IF v = q.by THEN u ELSE thread[v]
  BY <1>3, <1>9, <1>10
<1>12. /\ request' = [v \in Slot |-> request'[v]]
       /\ \A v \in Slot : request'[v] = IF v = s THEN NoCall ELSE request[v]
  BY DEF TakeAnswer, Puts, TalkInv
<1>13. /\ (q.mine /\ q.at = "done") => fl = (t.failed /\ q.kind # "load")
       /\ (q.mine /\ q.at # "done") => fl = (t.failed \/ q.kind = "load")
       /\ ~q.mine => u = t
  BY <1>5, <1>7, <1>8 DEF Thread
<1> QED
  BY <1>1, <1>3, <1>4, <1>5, <1>9, <1>11, <1>12, <1>13

\* A commit writes one row and answers with it.
LEMMA RowWritten ==
  ASSUME ConversationAssumption, TalkInv, NEW s \in Slot, NEW c \in CommentId, NEW r \in CommentRow,
         NEW notes, r.life # "unborn", request[s].at = "loaded",
         request[s].kind \in {"edit", "delete"} => request[s].id = c,
         comment[c].life = "unborn" => c = Written + 1, Writes(s, c, r, notes)
  PROVE  /\ TalkInv'
         /\ \A x \in CommentId : comment'[x] = IF x = c THEN r ELSE comment[x]
         /\ request'[s].at = "done" /\ request'[s].kind = request[s].kind
         /\ request'[s].by = request[s].by /\ request'[s].mine = request[s].mine
         /\ \A v \in Slot : v # s => request'[v] = request[v]
<1>1. PICK q : q = request[s]
  OBVIOUS
<1>2. CallOK(q) /\ q.at = "loaded"
  BY <1>1 DEF TalkInv
<1>3. PICK answer : answer = <<CopyOf(c, r)>>
  OBVIOUS
<1>4. answer \in Seq(CommentCopy) /\ Len(answer) = 1 /\ answer[1].id = c
  BY <1>3, CopyTyped
<1>5. PICK x : x = Returned(q, "done", answer)
  OBVIOUS
<1>6. CallOK(x) /\ x.at = "done" /\ x.kind = q.kind /\ x.by = q.by /\ x.mine = q.mine
  <2>1. (q.kind \in {"edit", "delete"}) => Len(answer) = 1 /\ answer[1].id = q.id
    BY <1>1, <1>4
  <2>2. q.at # "free"
    BY <1>2
  <2> QED
    BY <1>2, <1>4, <1>5, <2>1, <2>2, CallReturns
<1>7. request' = [request EXCEPT ![s] = x]
  BY <1>1, <1>3, <1>5 DEF Writes, Answers, Returns, Puts, Returned
<1>8. /\ request' = [v \in Slot |-> request'[v]]
      /\ \A v \in Slot : request'[v] = IF v = s THEN x ELSE request[v]
      /\ \A v \in Slot : CallOK(request'[v])
  BY <1>6, <1>7, CallTurns
<1>9. comment \in [CommentId -> CommentRow] /\ comment' = [comment EXCEPT ![c] = r]
  BY DEF TalkInv, Writes
<1>10. /\ comment' \in [CommentId -> CommentRow]
       /\ \A y \in CommentId : comment'[y] = IF y = c THEN r ELSE comment[y]
  BY <1>9
<1>11. /\ Written \in 0 .. MaxComment
       /\ \A y \in CommentId : (comment[y].life # "unborn") = (y <= Written)
  BY WrittenIsLast DEF TalkInv
<1>12. Numbered'
  <2>1. PICK n : n = IF comment[c].life = "unborn" THEN c ELSE Written
    OBVIOUS
  <2>2. n \in 0 .. MaxComment
    BY <1>11, <2>1, ConversationAssumption DEF CommentId
  <2>3. ASSUME NEW y \in CommentId
        PROVE  (comment'[y].life # "unborn") = (y <= n)
    <3>1. (comment[y].life # "unborn") = (y <= Written) /\ (comment[c].life # "unborn") = (c <= Written)
      BY <1>11
    <3>2. y \in Nat /\ c \in Nat /\ Written \in Nat
      BY <1>11 DEF CommentId
    <3>3. CASE y = c
      BY <1>10, <2>1, <3>1, <3>2, <3>3
    <3>4. CASE y # c
      <4>1. comment'[y] = comment[y]
        BY <1>10, <3>4
      <4>2. (y <= Written) = (y <= n)
        BY <2>1, <3>1, <3>2, <3>4
      <4> QED
        BY <3>1, <4>1, <4>2
    <3> QED
      BY <3>3, <3>4
  <2> QED
    BY <2>2, <2>3 DEF Numbered
<1>13. bus' \in Nat
  BY DEF Writes, TalkInv
<1>14. TalkInv'
  BY <1>8, <1>10, <1>12, <1>13 DEF TalkInv, Writes
<1> QED
  BY <1>1, <1>6, <1>8, <1>10, <1>14

LEMMA TalkInvInit ==
  ASSUME ConversationAssumption, ConversationInit
  PROVE  TalkInv
<1>1. 0 \in Text /\ {} \in SUBSET Reader /\ <<>> \in Seq(CommentCopy)
  BY ConversationAssumption DEF Text
<1>2. CallOK(NoCall)
  <2>1. Unseen \in [text : Text, names : SUBSET Reader]
    BY <1>1 DEF Unseen
  <2> QED
    BY <1>1, <2>1 DEF NoCall, CallOK, CallRow
<1>3. NoComment \in CommentRow /\ Shut \in Thread
  BY <1>1 DEF NoComment, CommentRow, Shut, Thread
<1>4. NoComment.life = "unborn"
  BY DEF NoComment
<1>5. comment = [c \in CommentId |-> NoComment]
  BY DEF ConversationInit
<1>6. Numbered
  <2>1. 0 \in 0 .. MaxComment
    BY ConversationAssumption
  <2>2. ASSUME NEW c \in CommentId
        PROVE  (comment[c].life # "unborn") = (c <= 0)
    BY <1>4, <1>5 DEF CommentId
  <2> QED
    BY <2>1, <2>2 DEF Numbered
<1>7. comment \in [CommentId -> CommentRow]
  BY <1>3, <1>5
<1>8. /\ standing = [p \in Reader |-> standing[p]]
      /\ thread \in [Reader -> Thread]
      /\ stream = [p \in Reader |-> stream[p]]
      /\ bus \in Nat /\ due \in [Reader -> Nat]
  BY <1>3 DEF ConversationInit
<1>9. /\ request = [s \in Slot |-> request[s]]
      /\ \A s \in Slot : CallOK(request[s])
  BY <1>2 DEF ConversationInit
<1> QED
  BY <1>6, <1>7, <1>8, <1>9 DEF TalkInv

\* A check takes the comment to edit as it finds it.
LEMMA CommentChecked ==
  ASSUME ConversationAssumption, TalkInv, NEW s \in Slot, CheckComment(s)
  PROVE  /\ TalkInv'
         /\ \A v \in Slot : v # s => request'[v] = request[v]
         /\ request'[s].at = "loaded" /\ request'[s].kind = request[s].kind
         /\ request[s].kind # "load"
         /\ request'[s].by = request[s].by /\ request'[s].id = request[s].id
         /\ request[s].kind = "edit" =>
              /\ request[s].id \in CommentId
              /\ request'[s].seen.names = comment[request[s].id].names
<1>1. PICK q : q = request[s]
  OBVIOUS
<1>2. CallOK(q) /\ q.at = "sent" /\ q.kind \in {"post", "edit", "delete"}
  BY <1>1 DEF TalkInv, CheckComment
<1>3. PICK seen : seen = IF q.kind # "edit" THEN Unseen
                         ELSE [text |-> comment[q.id].text, names |-> comment[q.id].names]
  OBVIOUS
<1>4. seen \in [text : Text, names : SUBSET Reader]
  <2>1. CASE q.kind # "edit"
    BY <1>3, <2>1, ConversationAssumption DEF Unseen, Text
  <2>2. CASE q.kind = "edit"
    <3>1. q.id \in CommentId
      BY <1>2, <2>2 DEF CallOK
    <3>2. comment[q.id] \in CommentRow
      BY <3>1 DEF TalkInv
    <3> QED
      BY <1>3, <2>2, <3>2 DEF CommentRow
  <2> QED
    BY <2>1, <2>2
<1>5. PICK x : x = [q EXCEPT !.at = "loaded", !.seen = seen]
  OBVIOUS
<1>6. q \in CallRow
  BY <1>2 DEF CallOK
<1>7. /\ x \in CallRow /\ x.at = "loaded" /\ x.kind = q.kind /\ x.by = q.by
      /\ x.id = q.id /\ x.seen = seen
  BY <1>4, <1>5, <1>6 DEF CallRow
<1>8. CallOK(x)
  BY <1>2, <1>7 DEF CallOK
<1>9. request' = [request EXCEPT ![s] = x]
  BY <1>1, <1>3, <1>5 DEF CheckComment, Puts
<1>10. /\ request' = [v \in Slot |-> request'[v]]
       /\ \A v \in Slot : request'[v] = IF v = s THEN x ELSE request[v]
       /\ \A v \in Slot : CallOK(request'[v])
  BY <1>8, <1>9, CallTurns
<1>11. TalkInv'
  BY <1>10 DEF TalkInv, CheckComment, served, Numbered
<1>12. q.kind = "edit" => q.id \in CommentId /\ seen.names = comment[q.id].names
  BY <1>2, <1>3 DEF CallOK
<1> QED
  BY <1>1, <1>2, <1>7, <1>10, <1>11, <1>12

\* A call that failed keeps who made it and what for.
LEMMA CallFailed ==
  ASSUME ConversationAssumption, TalkInv, NEW s \in Slot, Fail(s)
  PROVE  /\ TalkInv'
         /\ \A v \in Slot : v # s => request'[v] = request[v]
         /\ request'[s].at = "failed" /\ request'[s].kind = request[s].kind
         /\ request'[s].by = request[s].by /\ request'[s].mine = request[s].mine
<1>1. PICK q : q = request[s]
  OBVIOUS
<1>2. CallOK(q) /\ q.at # "free"
  BY <1>1 DEF TalkInv, Fail
<1>3. PICK answer \in Seq(CommentCopy) : answer = <<>>
  <2>1. <<>> \in Seq(CommentCopy)
    OBVIOUS
  <2> QED
    BY <2>1
<1>4. PICK x : x = Returned(q, "failed", answer)
  OBVIOUS
<1>5. CallOK(x) /\ x.at = "failed" /\ x.kind = q.kind /\ x.by = q.by /\ x.mine = q.mine
  BY <1>2, <1>4, CallReturns
<1>6. request' = [request EXCEPT ![s] = x]
  BY <1>1, <1>3, <1>4 DEF Fail, Returns, Puts, Returned
<1>7. /\ request' = [v \in Slot |-> request'[v]]
      /\ \A v \in Slot : request'[v] = IF v = s THEN x ELSE request[v]
      /\ \A v \in Slot : CallOK(request'[v])
  BY <1>5, <1>6, CallTurns
<1>8. TalkInv'
  BY <1>7 DEF TalkInv, Fail, served, Numbered
<1> QED
  BY <1>1, <1>5, <1>7, <1>8

\* A list has every comment there is.
LEMMA ListReturned ==
  ASSUME ConversationAssumption, TalkInv, NEW s \in Slot, ListComments(s)
  PROVE  /\ TalkInv'
         /\ \A v \in Slot : v # s => request'[v] = request[v]
         /\ request'[s].at = "done" /\ request'[s].kind = request[s].kind
         /\ request'[s].by = request[s].by /\ request'[s].mine = request[s].mine
         /\ \A c \in CommentId : Live(c) => \E x \in ToSet(request'[s].answer) : x.id = c
<1>1. PICK q : q = request[s]
  OBVIOUS
<1>2. CallOK(q) /\ q.at = "sent" /\ q.kind = "load"
  BY <1>1 DEF TalkInv, ListComments
<1>3. /\ Written \in 0 .. MaxComment
      /\ \A y \in CommentId : (comment[y].life # "unborn") = (y <= Written)
  BY WrittenIsLast DEF TalkInv
<1>4. PICK n \in 0 .. MaxComment : n = Written
  BY <1>3
<1>5. PICK answer : answer = [c \in 1 .. n |-> CopyOf(c, comment[c])]
  OBVIOUS
<1>6. ASSUME NEW c \in 1 .. n
      PROVE  c \in CommentId /\ answer[c] \in CommentCopy /\ answer[c].id = c
  <2>1. c \in CommentId
    BY ConversationAssumption DEF CommentId
  <2>2. comment[c] \in CommentRow
    BY <2>1 DEF TalkInv
  <2> QED
    BY <1>5, <2>1, <2>2, CopyTyped
<1>7. answer \in Seq(CommentCopy)
  <2>1. answer \in [1 .. n -> CommentCopy]
    BY <1>5, <1>6
  <2>2. n \in Nat
    BY ConversationAssumption
  <2> QED
    BY <2>1, <2>2
<1>8. PICK x : x = Returned(q, "done", answer)
  OBVIOUS
<1>9. CallOK(x) /\ x.at = "done" /\ x.kind = q.kind /\ x.by = q.by /\ x.mine = q.mine /\ x.answer = answer
  BY <1>2, <1>7, <1>8, CallReturns
<1>10. request' = [request EXCEPT ![s] = x]
  BY <1>1, <1>4, <1>5, <1>8 DEF ListComments, Answers, Returns, Puts, Returned
<1>11. /\ request' = [v \in Slot |-> request'[v]]
       /\ \A v \in Slot : request'[v] = IF v = s THEN x ELSE request[v]
       /\ \A v \in Slot : CallOK(request'[v])
  BY <1>9, <1>10, CallTurns
<1>12. TalkInv'
  BY <1>11 DEF TalkInv, ListComments, served, Numbered
<1>13. ASSUME NEW c \in CommentId, Live(c)
       PROVE  \E y \in ToSet(answer) : y.id = c
  <2>1. c <= n
    BY <1>3, <1>4, <1>13 DEF Live
  <2>2. c \in 1 .. n
    BY <2>1, ConversationAssumption DEF CommentId
  <2>3. DOMAIN answer = 1 .. n
    BY <1>5
  <2>4. answer[c] \in ToSet(answer)
    BY <2>2, <2>3 DEF ToSet
  <2> QED
    BY <1>6, <2>2, <2>4
<1> QED
  BY <1>1, <1>9, <1>11, <1>12, <1>13

\* Closing a thread ends its loads and leaves the other calls without a thread.
LEMMA ThreadCloses ==
  ASSUME ConversationAssumption, TalkInv, NEW p \in Reader, CloseThread(p)
  PROVE  /\ TalkInv'
         /\ \A v \in Reader : thread'[v] = IF v = p THEN Shut ELSE thread[v]
         /\ \A s \in Slot : request[s].by # p => request'[s] = request[s]
         /\ \A s \in Slot : request[s].by = p =>
              /\ request'[s].kind # "load"
              /\ request'[s] # NoCall =>
                   /\ request'[s].by = p /\ request'[s].kind = request[s].kind
                   /\ request'[s].at = request[s].at /\ request'[s].id = request[s].id
                   /\ request'[s].seen = request[s].seen
<1>1. ASSUME NEW s \in Slot, request[s].by = p, request[s].kind # "load"
      PROVE  /\ CallOK(request'[s]) /\ request'[s].by = p /\ request'[s].kind = request[s].kind
             /\ request'[s].at = request[s].at /\ request'[s].id = request[s].id
             /\ request'[s].seen = request[s].seen
  <2>1. PICK q : q = request[s]
    OBVIOUS
  <2>2. CallOK(q) /\ q \in CallRow
    BY <2>1 DEF TalkInv, CallOK
  <2>3. PICK x : x = [q EXCEPT !.mine = FALSE]
    OBVIOUS
  <2>4. request'[s] = x
    BY <1>1, <2>1, <2>3 DEF CloseThread
  <2>5. /\ x \in CallRow /\ x.at = q.at /\ x.kind = q.kind /\ x.by = q.by /\ x.id = q.id
        /\ x.seen = q.seen /\ x.answer = q.answer
    BY <2>2, <2>3 DEF CallRow
  <2>6. CallOK(x)
    BY <2>2, <2>5 DEF CallOK
  <2> QED
    BY <1>1, <2>1, <2>4, <2>5, <2>6
<1>2. ASSUME NEW s \in Slot, request[s].by = p, request[s].kind = "load"
      PROVE  request'[s] = NoCall
  BY <1>2 DEF CloseThread
<1>3. ASSUME NEW s \in Slot, request[s].by # p
      PROVE  request'[s] = request[s]
  BY <1>3 DEF CloseThread
<1>4. CallOK(NoCall) /\ NoCall.kind # "load"
  <2>1. 0 \in Text /\ {} \in SUBSET Reader /\ <<>> \in Seq(CommentCopy)
    BY ConversationAssumption DEF Text
  <2>2. Unseen \in [text : Text, names : SUBSET Reader]
    BY <2>1 DEF Unseen
  <2> QED
    BY <2>1, <2>2 DEF NoCall, CallOK, CallRow
<1>5. \A s \in Slot : CallOK(request'[s])
  BY <1>1, <1>2, <1>3, <1>4 DEF TalkInv
<1>6. request' = [s \in Slot |-> request'[s]]
  BY DEF CloseThread
<1>7. Shut \in Thread
  BY DEF Shut, Thread
<1>8. thread' \in [Reader -> Thread] /\ \A v \in Reader : thread'[v] = IF v = p THEN Shut ELSE thread[v]
  BY <1>7 DEF TalkInv, CloseThread
<1>9. TalkInv'
  BY <1>5, <1>6, <1>8 DEF TalkInv, CloseThread, served, Numbered
<1> QED
  BY <1>1, <1>2, <1>3, <1>4, <1>8, <1>9

\* What a tab sends of a change is a call; its thread stays as it is.
LEMMA ChangeSent ==
  ASSUME ConversationAssumption, TalkInv, NEW s \in Slot, NEW p \in Reader,
         NEW kind \in {"post", "edit", "delete"},
         NEW c \in CommentId \cup {0}, kind \in {"edit", "delete"} => c \in CommentId,
         NEW text \in Text, NEW names \in SUBSET Reader,
         Sends(s, p, kind, c, text, names), UNCHANGED <<served, thread, stream, bus, due>>
  PROVE  /\ TalkInv'
         /\ \A v \in Slot : v # s => request'[v] = request[v]
         /\ request[s] = NoCall
         /\ request'[s].at = "sent" /\ request'[s].kind = kind
<1>1. PICK q : q = [NoCall EXCEPT !.at = "sent", !.kind = kind, !.by = p, !.mine = TRUE,
                               !.id = c, !.text = text, !.names = names]
  OBVIOUS
<1>2. CallOK(q)
  BY <1>1, CallSent
<1>3. q.at = "sent" /\ q.kind = kind
  BY <1>1 DEF NoCall
<1>4. request' = [request EXCEPT ![s] = q] /\ request[s] = NoCall
  BY <1>1 DEF Sends, Puts
<1>5. /\ request' = [v \in Slot |-> request'[v]]
      /\ \A v \in Slot : request'[v] = IF v = s THEN q ELSE request[v]
      /\ \A v \in Slot : CallOK(request'[v])
  BY <1>2, <1>4, CallTurns
<1>6. TalkInv'
  BY <1>5 DEF TalkInv, served, Numbered
<1> QED
  BY <1>3, <1>4, <1>5, <1>6

\* The steps of a tab load a thread or send a change.
LEMMA TabLoadsOrSends ==
  ASSUME ConversationAssumption, TalkInv, NEW s \in Slot, NEW p \in Reader, TabStep(s, p)
  PROVE  \/ /\ ~thread[p].open
            /\ Loads(s, p, [Shut EXCEPT !.open = TRUE, !.missed = ~stream[p]])
            /\ UNCHANGED <<served, stream, bus, due>>
         \/ /\ Loads(s, p, thread[p]) /\ thread[p].open
            /\ UNCHANGED <<served, stream, bus>>
            /\ \/ UNCHANGED due
               \/ due' = [due EXCEPT ![p] = due[p] - 1] /\ due[p] > 0
         \/ /\ ~thread[p].open /\ due[p] > 0
            /\ due' = [due EXCEPT ![p] = due[p] - 1]
            /\ UNCHANGED <<served, thread, request, stream, bus>>
         \/ /\ UNCHANGED <<served, thread, stream, bus, due>>
            /\ \E kind \in {"post", "edit", "delete"}, c \in CommentId \cup {0},
                  text \in Text, names \in SUBSET Reader :
                 /\ kind \in {"edit", "delete"} => c \in CommentId
                 /\ Sends(s, p, kind, c, text, names)
<1>1. CASE OpenThread(s, p)
  BY <1>1 DEF OpenThread
<1>2. CASE TryAgain(s, p)
  BY <1>2 DEF TryAgain
<1>3. CASE HandleEvent(s, p)
  BY <1>3 DEF HandleEvent
<1>4. ASSUME NEW t \in Text \ {0}, NEW n \in SUBSET Reader, Post(s, p, t, n)
      PROVE  /\ UNCHANGED <<served, thread, stream, bus, due>>
             /\ \E kind \in {"post", "edit", "delete"}, c \in CommentId \cup {0},
                   text \in Text, names \in SUBSET Reader :
                  /\ kind \in {"edit", "delete"} => c \in CommentId
                  /\ Sends(s, p, kind, c, text, names)
  <2>1. Sends(s, p, "post", 0, t, n)
    BY <1>4 DEF Post
  <2> QED
    BY <1>4, <2>1 DEF Post
<1>5. ASSUME NEW c \in CommentId, NEW t \in Text \ {0}, NEW n \in SUBSET Reader, SaveEdit(s, p, c, t, n)
      PROVE  /\ UNCHANGED <<served, thread, stream, bus, due>>
             /\ \E kind \in {"post", "edit", "delete"}, d \in CommentId \cup {0},
                   text \in Text, names \in SUBSET Reader :
                  /\ kind \in {"edit", "delete"} => d \in CommentId
                  /\ Sends(s, p, kind, d, text, names)
  <2>1. Sends(s, p, "edit", c, t, n)
    BY <1>5 DEF SaveEdit
  <2> QED
    BY <1>5, <2>1 DEF SaveEdit
<1>6. ASSUME NEW c \in CommentId, Withdraw(s, p, c)
      PROVE  /\ UNCHANGED <<served, thread, stream, bus, due>>
             /\ \E kind \in {"post", "edit", "delete"}, d \in CommentId \cup {0},
                   text \in Text, names \in SUBSET Reader :
                  /\ kind \in {"edit", "delete"} => d \in CommentId
                  /\ Sends(s, p, kind, d, text, names)
  <2>1. Sends(s, p, "delete", c, 0, {}) /\ 0 \in Text /\ {} \in SUBSET Reader
    BY <1>6, ConversationAssumption DEF Withdraw, Text
  <2> QED
    BY <1>6, <2>1 DEF Withdraw
<1> QED
  BY <1>1, <1>2, <1>3, <1>4, <1>5, <1>6 DEF TabStep

\* A commit writes a comment that is there, or the next one.
LEMMA CommitWrites ==
  ASSUME ConversationAssumption, TalkInv, NEW s \in Slot,
         CreateComment(s) \/ EditComment(s) \/ DeleteComment(s),
         request[s].kind \in {"edit", "delete"} => comment[request[s].id].life # "unborn"
  PROVE  /\ request[s].at = "loaded" /\ request[s].kind \in {"post", "edit", "delete"}
         /\ \E c \in CommentId, r \in CommentRow : \E notes :
              /\ Writes(s, c, r, notes) /\ r.life # "unborn"
              /\ request[s].kind \in {"edit", "delete"} => request[s].id = c
              /\ comment[c].life = "unborn" => c = Written + 1
              /\ request[s].kind = "post" =>
                   /\ comment[c].life = "unborn"
                   /\ r.by = request[s].by /\ r.names = request[s].names
                   /\ notes = Notes(c, 0, r.names, r.by)
              /\ request[s].kind = "edit" =>
                   /\ r.life = comment[c].life /\ r.by = comment[c].by
                   /\ r.names = request[s].names
                   /\ notes = Notes(c, comment[c].edits + 1, r.names \ request[s].seen.names, request[s].by)
              /\ request[s].kind = "delete" => r.life = "deleted" /\ notes = {} /\ r.by = comment[c].by
<1>1. PICK q : q = request[s]
  OBVIOUS
<1>2. CallOK(q) /\ q \in CallRow
  BY <1>1 DEF TalkInv, CallOK
<1>3. q.text \in Text /\ q.names \in SUBSET Reader /\ q.by \in Reader \cup {Nobody}
  BY <1>2 DEF CallRow
<1>4. CASE CreateComment(s)
  <2>1. PICK c \in CommentId : c = Written + 1
    BY <1>4 DEF CreateComment
  <2>2. PICK r : r = [NoComment EXCEPT !.life = "live", !.by = q.by, !.text = q.text, !.names = q.names]
    OBVIOUS
  <2>3. r = [life |-> "live", by |-> q.by, text |-> q.text, names |-> q.names, edits |-> 0]
    BY <2>2 DEF NoComment
  <2>4. r \in CommentRow /\ r.life = "live" /\ r.by = q.by /\ r.names = q.names
    BY <1>3, <2>3 DEF CommentRow
  <2>5. q.at = "loaded" /\ q.kind = "post" /\ Writes(s, c, r, Notes(c, 0, q.names, q.by))
    BY <1>1, <1>4, <2>1, <2>2 DEF CreateComment
  <2>6. comment[c].life = "unborn"
    <3>1. (comment[c].life # "unborn") = (c <= Written) /\ Written \in 0 .. MaxComment
      BY WrittenIsLast DEF TalkInv
    <3> QED
      BY <2>1, <3>1
  <2> QED
    BY <1>1, <2>1, <2>4, <2>5, <2>6
<1>5. CASE EditComment(s)
  <2>1. q.at = "loaded" /\ q.kind = "edit"
    BY <1>1, <1>5 DEF EditComment
  <2>2. PICK c \in CommentId : c = q.id
    BY <1>2, <2>1 DEF CallOK
  <2>3. PICK old \in CommentRow : old = comment[c]
    BY DEF TalkInv
  <2>4. PICK text : text = IF q.text # q.seen.text THEN q.text ELSE old.text
    OBVIOUS
  <2>5. text \in Text /\ old.edits \in Nat
    BY <1>3, <2>4 DEF CommentRow
  <2>6. PICK n \in Nat : n = old.edits + 1
    BY <2>5
  <2>7. PICK r : r = [old EXCEPT !.names = q.names, !.edits = n, !.text = text]
    OBVIOUS
  <2>8. r \in CommentRow /\ r.life = old.life /\ r.by = old.by /\ r.names = q.names
    BY <1>3, <2>5, <2>7 DEF CommentRow
  <2>9. Writes(s, c, r, Notes(c, n, q.names \ q.seen.names, q.by))
    BY <1>1, <1>5, <2>2, <2>3, <2>4, <2>6, <2>7 DEF EditComment, NewNames
  <2>10. old.life # "unborn"
    BY <1>1, <2>1, <2>2, <2>3
  <2> QED
    BY <1>1, <2>1, <2>2, <2>3, <2>6, <2>8, <2>9, <2>10
<1>6. CASE DeleteComment(s)
  <2>1. q.at = "loaded" /\ q.kind = "delete"
    BY <1>1, <1>6 DEF DeleteComment
  <2>2. PICK c \in CommentId : c = q.id
    BY <1>2, <2>1 DEF CallOK
  <2>3. PICK old \in CommentRow : old = comment[c]
    BY DEF TalkInv
  <2>4. PICK r : r = [old EXCEPT !.life = "deleted", !.text = 0, !.names = {}]
    OBVIOUS
  <2>5. r \in CommentRow /\ r.life = "deleted" /\ r.by = old.by
    <3>1. 0 \in Text /\ {} \in SUBSET Reader
      BY ConversationAssumption DEF Text
    <3> QED
      BY <2>4, <3>1 DEF CommentRow
  <2>6. Writes(s, c, r, {})
    BY <1>1, <1>6, <2>2, <2>3, <2>4 DEF DeleteComment
  <2>7. old.life # "unborn"
    BY <1>1, <2>1, <2>2, <2>3
  <2> QED
    BY <1>1, <2>1, <2>2, <2>3, <2>5, <2>6, <2>7
<1> QED
  BY <1>4, <1>5, <1>6

\* What an edit or a delete has loaded was written by then.
Targets ==
    \A s \in Slot : (request[s].at = "loaded" /\ request[s].kind \in {"edit", "delete"})
                      => comment[request[s].id].life # "unborn"

\* A load or a change sent leaves the comments alone.
LEMMA TabKeepsTalk ==
  ASSUME ConversationAssumption, TalkInv, Targets, NEW s \in Slot, NEW p \in Reader, TabStep(s, p)
  PROVE  /\ TalkInv' /\ Targets' /\ UNCHANGED <<served, stream, bus>>
         /\ \A v \in Slot : request'[v] = request[v] \/ request'[v].at = "sent"
<1>1. ASSUME NEW t \in Thread, Loads(s, p, t), UNCHANGED <<served, stream, bus>>, due' \in [Reader -> Nat]
      PROVE  /\ TalkInv' /\ Targets'
             /\ \A v \in Slot : request'[v] = request[v] \/ request'[v].at = "sent"
  <2>1. /\ thread' \in [Reader -> Thread]
        /\ request' = [v \in Slot |-> request'[v]]
        /\ \A v \in Slot : CallOK(request'[v])
        /\ request'[s].at = "sent"
        /\ \A v \in Slot : v # s => request'[v] = request[v]
    BY <1>1, ThreadLoads
  <2>2. TalkInv'
    BY <1>1, <2>1 DEF TalkInv, served, Numbered
  <2>3. Targets'
    BY <1>1, <2>1 DEF Targets, served
  <2> QED
    BY <2>1, <2>2, <2>3
<1>2. due' = [due EXCEPT ![p] = due[p] - 1] /\ due[p] > 0 => due' \in [Reader -> Nat]
  BY DEF TalkInv
<1>3. thread[p] \in Thread /\ due \in [Reader -> Nat]
  BY DEF TalkInv
<1>4. CASE /\ Loads(s, p, [Shut EXCEPT !.open = TRUE, !.missed = ~stream[p]])
           /\ UNCHANGED <<served, stream, bus, due>>
  <2>1. PICK b \in BOOLEAN : b = ~stream[p]
    OBVIOUS
  <2>2. [Shut EXCEPT !.open = TRUE, !.missed = b] \in Thread
    BY DEF Shut, Thread
  <2>3. [Shut EXCEPT !.open = TRUE, !.missed = ~stream[p]] \in Thread
    BY <2>1, <2>2
  <2> QED
    BY <1>1, <1>3, <1>4, <2>3
<1>5. CASE /\ Loads(s, p, thread[p])
           /\ UNCHANGED <<served, stream, bus>>
           /\ \/ UNCHANGED due
              \/ due' = [due EXCEPT ![p] = due[p] - 1] /\ due[p] > 0
  BY <1>1, <1>2, <1>3, <1>5
<1>6. CASE /\ due[p] > 0
           /\ due' = [due EXCEPT ![p] = due[p] - 1]
           /\ UNCHANGED <<served, thread, request, stream, bus>>
  <2>1. due' \in [Reader -> Nat]
    BY <1>2, <1>6
  <2>2. TalkInv'
    BY <1>6, <2>1 DEF TalkInv, served, Numbered
  <2>3. Targets'
    BY <1>6 DEF Targets, served
  <2> QED
    BY <1>6, <2>2, <2>3
<1>7. ASSUME NEW kind \in {"post", "edit", "delete"}, NEW c \in CommentId \cup {0},
             NEW text \in Text, NEW names \in SUBSET Reader,
             kind \in {"edit", "delete"} => c \in CommentId,
             Sends(s, p, kind, c, text, names), UNCHANGED <<served, thread, stream, bus, due>>
      PROVE  /\ TalkInv' /\ Targets'
             /\ \A v \in Slot : request'[v] = request[v] \/ request'[v].at = "sent"
  <2>1. /\ TalkInv' /\ request'[s].at = "sent"
        /\ \A v \in Slot : v # s => request'[v] = request[v]
    BY <1>7, ChangeSent
  <2>2. Targets'
    BY <1>7, <2>1 DEF Targets, served
  <2> QED
    BY <2>1, <2>2
<1> QED
  BY <1>4, <1>5, <1>6, <1>7, TabLoadsOrSends

LEMMA ServerKeepsTalk ==
  ASSUME ConversationAssumption, TalkInv, Targets, NEW s \in Slot, ServerStep(s)
  PROVE  TalkInv' /\ Targets'
<1>1. CASE ListComments(s)
  <2>1. TalkInv' /\ request'[s].at = "done" /\ \A v \in Slot : v # s => request'[v] = request[v]
    BY <1>1, ListReturned
  <2>2. Targets'
    BY <1>1, <2>1 DEF Targets, ListComments, served
  <2> QED
    BY <2>1, <2>2
<1>2. CASE CheckComment(s)
  <2>1. /\ TalkInv' /\ \A v \in Slot : v # s => request'[v] = request[v]
        /\ request'[s].kind = request[s].kind /\ request'[s].id = request[s].id
    BY <1>2, CommentChecked
  <2>2. request[s].kind # "post" => comment[request[s].id].life # "unborn"
    BY <1>2 DEF CheckComment, Live
  <2>3. Targets'
    BY <1>2, <2>1, <2>2 DEF Targets, CheckComment, served
  <2> QED
    BY <2>1, <2>3
<1>3. CASE CreateComment(s) \/ EditComment(s) \/ DeleteComment(s)
  <2>1. request[s].kind \in {"edit", "delete"} => comment[request[s].id].life # "unborn"
    BY <1>3 DEF Targets, CreateComment, EditComment, DeleteComment
  <2>2. /\ request[s].at = "loaded"
        /\ \E c \in CommentId, r \in CommentRow : \E notes :
              /\ Writes(s, c, r, notes) /\ r.life # "unborn"
              /\ request[s].kind \in {"edit", "delete"} => request[s].id = c
              /\ comment[c].life = "unborn" => c = Written + 1
    BY <1>3, <2>1, CommitWrites
  <2>3a. PICK c \in CommentId, r \in CommentRow : \E notes :
              /\ Writes(s, c, r, notes) /\ r.life # "unborn"
              /\ request[s].kind \in {"edit", "delete"} => request[s].id = c
              /\ comment[c].life = "unborn" => c = Written + 1
    BY <2>2
  <2>3. PICK notes :
              /\ Writes(s, c, r, notes) /\ r.life # "unborn"
              /\ request[s].kind \in {"edit", "delete"} => request[s].id = c
              /\ comment[c].life = "unborn" => c = Written + 1
    BY <2>3a
  <2>4. /\ TalkInv'
        /\ \A x \in CommentId : comment'[x] = IF x = c THEN r ELSE comment[x]
        /\ request'[s].at = "done"
        /\ \A v \in Slot : v # s => request'[v] = request[v]
    BY <2>2, <2>3, RowWritten
  <2>5. ASSUME NEW v \in Slot, request'[v].at = "loaded", request'[v].kind \in {"edit", "delete"}
        PROVE  comment'[request'[v].id].life # "unborn"
    <3>1. v # s /\ request'[v] = request[v]
      BY <2>4, <2>5
    <3>2. request[v].id \in CommentId
      BY <2>5, <3>1 DEF TalkInv, CallOK
    <3>3. comment[request[v].id].life # "unborn"
      BY <2>5, <3>1 DEF Targets
    <3> QED
      BY <2>3, <2>4, <3>1, <3>2, <3>3
  <2> QED
    BY <2>4, <2>5 DEF Targets
<1>4. CASE Fail(s)
  <2>1. TalkInv' /\ request'[s].at = "failed" /\ \A v \in Slot : v # s => request'[v] = request[v]
    BY <1>4, CallFailed
  <2>2. Targets'
    BY <1>4, <2>1 DEF Targets, Fail, served
  <2> QED
    BY <2>1, <2>2
<1>5. CASE TakeAnswer(s)
  <2>1. /\ request' = [v \in Slot |-> request'[v]]
        /\ \A v \in Slot : request'[v] = IF v = s THEN NoCall ELSE request[v]
        /\ thread' \in [Reader -> Thread]
    BY <1>5, AnswerTaken
  <2>2. CallOK(NoCall) /\ NoCall.at = "free"
    <3>1. 0 \in Text /\ {} \in SUBSET Reader /\ <<>> \in Seq(CommentCopy)
      BY ConversationAssumption DEF Text
    <3>2. Unseen \in [text : Text, names : SUBSET Reader]
      BY <3>1 DEF Unseen
    <3> QED
      BY <3>1, <3>2 DEF NoCall, CallOK, CallRow
  <2>3. TalkInv'
    BY <1>5, <2>1, <2>2 DEF TalkInv, TakeAnswer, served, Numbered
  <2>4. Targets'
    BY <1>5, <2>1, <2>2 DEF Targets, TakeAnswer, served
  <2> QED
    BY <2>3, <2>4
<1> QED
  BY <1>1, <1>2, <1>3, <1>4, <1>5 DEF ServerStep

\* The streams, the bus and the memberships touch neither comments nor calls.
LEMMA OthersKeepTalk ==
  ASSUME ConversationAssumption, TalkInv, Targets,
         (\E p \in Reader : Drop(p) \/ Reconnect(p) \/ Depart(p)) \/ Deliver \/ UNCHANGED conversationVars
  PROVE  TalkInv' /\ Targets' /\ UNCHANGED <<comment, heard, request>>
<1>1. UNCHANGED <<comment, heard, request>>
  BY DEF Drop, Reconnect, Depart, Deliver, conversationVars, served
<1>2. Targets' /\ Numbered'
  BY <1>1 DEF Targets, Numbered, TalkInv
<1>3. ASSUME NEW p \in Reader, Drop(p)
      PROVE  TalkInv'
  <2>1. PICK u : u = [thread[p] EXCEPT !.missed = thread[p].open]
    OBVIOUS
  <2>2. thread[p] \in Thread /\ thread \in [Reader -> Thread]
    BY DEF TalkInv
  <2>3. u \in Thread
    BY <2>1, <2>2 DEF Thread
  <2>4. thread' = [thread EXCEPT ![p] = u]
    BY <1>3, <2>1, <2>2 DEF Drop
  <2>5. thread' \in [Reader -> Thread]
    BY <2>2, <2>3, <2>4
  <2> QED
    BY <1>1, <1>2, <1>3, <2>5 DEF TalkInv, Drop, served
<1>4. ASSUME NEW p \in Reader, Reconnect(p) \/ Depart(p)
      PROVE  TalkInv'
  BY <1>1, <1>2, <1>4 DEF TalkInv, Reconnect, Depart, served
<1>5. CASE Deliver
  <2>1. bus' \in Nat /\ due' \in [Reader -> Nat]
    BY <1>5 DEF TalkInv, Deliver
  <2> QED
    BY <1>1, <1>2, <1>5, <2>1 DEF TalkInv, Deliver, served
<1>6. CASE UNCHANGED conversationVars
  BY <1>1, <1>2, <1>6 DEF TalkInv, conversationVars
<1> QED
  BY <1>1, <1>2, <1>3, <1>4, <1>5, <1>6

LEMMA TalkInvStep ==
  ASSUME ConversationAssumption, TalkInv, Targets, [ConversationNext]_conversationVars
  PROVE  TalkInv' /\ Targets'
<1>1. ASSUME NEW p \in Reader, CloseThread(p)
      PROVE  TalkInv' /\ Targets'
  <2>1. /\ TalkInv'
        /\ \A s \in Slot : request[s].by # p => request'[s] = request[s]
        /\ \A s \in Slot : (request[s].by = p /\ request'[s] # NoCall) =>
              /\ request'[s].by = p /\ request'[s].kind = request[s].kind
              /\ request'[s].at = request[s].at /\ request'[s].id = request[s].id
    BY <1>1, ThreadCloses
  <2>2. NoCall.at # "loaded" /\ comment' = comment
    BY <1>1 DEF NoCall, CloseThread, served
  <2>3. Targets'
    BY <2>1, <2>2 DEF Targets
  <2> QED
    BY <2>1, <2>3
<1> QED
  BY <1>1, TabKeepsTalk, ServerKeepsTalk, OthersKeepTalk DEF ConversationNext

-------------------------------------------------------------------------------
(* Conversation: whoever a comment mentions was told *)

Told(c, p) == \E n \in heard : n.of = c /\ n.to = p

\* An edit under way found those told whom the comment mentioned when it loaded it.
HeardInv ==
    /\ MentionHeard
    /\ \A s \in Slot : (request[s].at = "loaded" /\ request[s].kind = "edit") =>
         /\ comment[request[s].id].by = request[s].by
         /\ \A p \in request[s].seen.names \ {request[s].by} :
              InTeam(p) => Told(request[s].id, p)

\* A step that writes no comment and checks no edit.
LEMMA HeardStays ==
  ASSUME TalkInv, TalkInv', HeardInv, UNCHANGED <<comment, heard>>,
         \A p \in Reader : InTeam(p)' => InTeam(p),
         \A s \in Slot : (request'[s].at = "loaded" /\ request'[s].kind = "edit") =>
            /\ request[s].at = "loaded" /\ request[s].kind = "edit"
            /\ request'[s].by = request[s].by /\ request'[s].id = request[s].id
            /\ request'[s].seen = request[s].seen
  PROVE  HeardInv'
<1>1. ASSUME NEW c \in CommentId, Live(c)', NEW p \in comment'[c].names \ {comment'[c].by}, InTeam(p)'
      PROVE  Told(c, p)'
  <2>1. Live(c) /\ p \in comment[c].names \ {comment[c].by}
    BY <1>1 DEF Live
  <2>2. p \in Reader
    BY <2>1 DEF TalkInv, CommentRow
  <2>3. InTeam(p)
    BY <1>1, <2>2
  <2> QED
    BY <2>1, <2>3 DEF HeardInv, MentionHeard, Told
<1>2. ASSUME NEW s \in Slot, request'[s].at = "loaded", request'[s].kind = "edit"
      PROVE  /\ comment'[request'[s].id].by = request'[s].by
             /\ \A p \in request'[s].seen.names \ {request'[s].by} :
                  InTeam(p)' => \E n \in heard' : n.of = request'[s].id /\ n.to = p
  <2>1. /\ request[s].at = "loaded" /\ request[s].kind = "edit"
        /\ request'[s].by = request[s].by /\ request'[s].id = request[s].id
        /\ request'[s].seen = request[s].seen
    BY <1>2
  <2>2. /\ comment[request[s].id].by = request[s].by
        /\ \A p \in request[s].seen.names \ {request[s].by} : InTeam(p) => Told(request[s].id, p)
    BY <2>1 DEF HeardInv
  <2>3. request[s].seen.names \in SUBSET Reader
    <3>1. request[s] \in CallRow
      BY DEF TalkInv, CallOK
    <3> QED
      BY <3>1 DEF CallRow
  <2>4. comment'[request'[s].id].by = request'[s].by
    BY <2>1, <2>2
  <2>5. ASSUME NEW p \in request'[s].seen.names \ {request'[s].by}, InTeam(p)'
        PROVE  \E n \in heard' : n.of = request'[s].id /\ n.to = p
    <3>1. Told(request[s].id, p)
      BY <2>1, <2>2, <2>3, <2>5
    <3> QED
      BY <2>1, <3>1 DEF Told
  <2> QED
    BY <2>4, <2>5
<1> QED
  BY <1>1, <1>2 DEF HeardInv, MentionHeard, Told

LEMMA HeardInvInit ==
  ASSUME ConversationInit
  PROVE  HeardInv /\ Targets
<1>1. /\ \A c \in CommentId : comment[c].life = "unborn"
      /\ \A s \in Slot : request[s].at = "free"
  BY DEF ConversationInit, NoComment, NoCall
<1> QED
  BY <1>1 DEF HeardInv, MentionHeard, Live, Targets

\* A commit tells those the comment mentions now and did not when it was loaded;
\* the others had been told by then.
LEMMA CommitIsHeard ==
  ASSUME ConversationAssumption, TalkInv, Targets, HeardInv, NEW s \in Slot,
         CreateComment(s) \/ EditComment(s) \/ DeleteComment(s)
  PROVE  HeardInv'
<1> DEFINE q == request[s]
<1>1. q.kind \in {"edit", "delete"} => comment[request[s].id].life # "unborn"
  BY DEF Targets, CreateComment, EditComment, DeleteComment
<1>2. q.at = "loaded" /\ q.kind \in {"post", "edit", "delete"}
  BY <1>1, CommitWrites
<1>3a. PICK c \in CommentId, r \in CommentRow : \E notes :
        /\ Writes(s, c, r, notes) /\ r.life # "unborn"
        /\ q.kind \in {"edit", "delete"} => q.id = c
        /\ comment[c].life = "unborn" => c = Written + 1
        /\ q.kind = "post" =>
             /\ comment[c].life = "unborn"
             /\ r.by = q.by /\ r.names = q.names
             /\ notes = Notes(c, 0, r.names, r.by)
        /\ q.kind = "edit" =>
             /\ r.life = comment[c].life /\ r.by = comment[c].by
             /\ r.names = q.names
             /\ notes = Notes(c, comment[c].edits + 1, r.names \ q.seen.names, q.by)
        /\ q.kind = "delete" => r.life = "deleted" /\ notes = {} /\ r.by = comment[c].by
  BY <1>1, CommitWrites
<1>3. PICK notes :
        /\ Writes(s, c, r, notes) /\ r.life # "unborn"
        /\ q.kind \in {"edit", "delete"} => q.id = c
        /\ comment[c].life = "unborn" => c = Written + 1
        /\ q.kind = "post" =>
             /\ comment[c].life = "unborn"
             /\ r.by = q.by /\ r.names = q.names
             /\ notes = Notes(c, 0, r.names, r.by)
        /\ q.kind = "edit" =>
             /\ r.life = comment[c].life /\ r.by = comment[c].by
             /\ r.names = q.names
             /\ notes = Notes(c, comment[c].edits + 1, r.names \ q.seen.names, q.by)
        /\ q.kind = "delete" => r.life = "deleted" /\ notes = {} /\ r.by = comment[c].by
  BY <1>3a
<1>4. /\ TalkInv'
      /\ \A x \in CommentId : comment'[x] = IF x = c THEN r ELSE comment[x]
      /\ request'[s].at = "done"
      /\ \A v \in Slot : v # s => request'[v] = request[v]
  BY <1>2, <1>3, RowWritten
<1>5. heard' = heard \cup notes /\ standing' = standing
  BY <1>3 DEF Writes
<1>6. ASSUME NEW event, NEW names, NEW by, notes = Notes(c, event, names, by),
             NEW p \in names \ {by}, InTeam(p)
      PROVE  \E n \in heard' : n.of = c /\ n.to = p
  <2>1. PICK n : n = [of |-> c, event |-> event, to |-> p]
    OBVIOUS
  <2>2. n \in notes /\ n.of = c /\ n.to = p
    BY <1>6, <2>1 DEF Notes
  <2> QED
    BY <1>5, <2>2
<1>7. ASSUME r.life = "live", NEW p \in r.names \ {r.by}, InTeam(p)
      PROVE  \E n \in heard' : n.of = c /\ n.to = p
  <2>1. CASE q.kind = "post"
    BY <1>3, <1>6, <1>7, <2>1
  <2>2. CASE q.kind = "edit"
    <3>1. /\ comment[c].by = q.by
          /\ \A x \in q.seen.names \ {q.by} : InTeam(x) => Told(c, x)
      BY <1>2, <1>3, <2>2 DEF HeardInv
    <3>2. CASE p \in q.seen.names
      BY <1>3, <1>5, <1>7, <2>2, <3>1, <3>2 DEF Told
    <3>3. CASE p \notin q.seen.names
      <4>1. p \in (r.names \ q.seen.names) \ {q.by}
        BY <1>3, <1>7, <2>2, <3>1, <3>3
      <4> QED
        BY <1>3, <1>6, <1>7, <2>2, <4>1
    <3> QED
      BY <3>2, <3>3
  <2>3. CASE q.kind = "delete"
    BY <1>3, <1>7, <2>3
  <2> QED
    BY <1>2, <2>1, <2>2, <2>3
<1>8. ASSUME NEW x \in CommentId, Live(x)', NEW p \in comment'[x].names \ {comment'[x].by}, InTeam(p)'
      PROVE  \E n \in heard' : n.of = x /\ n.to = p
  <2>1. InTeam(p)
    BY <1>5, <1>8 DEF InTeam
  <2>2. CASE x = c
    BY <1>4, <1>7, <1>8, <2>1, <2>2 DEF Live
  <2>3. CASE x # c
    BY <1>4, <1>5, <1>8, <2>1, <2>3 DEF HeardInv, MentionHeard, Live
  <2> QED
    BY <2>2, <2>3
<1>9. ASSUME NEW v \in Slot, request'[v].at = "loaded", request'[v].kind = "edit"
       PROVE  /\ comment'[request'[v].id].by = request'[v].by
              /\ \A p \in request'[v].seen.names \ {request'[v].by} :
                   InTeam(p)' => \E n \in heard' : n.of = request'[v].id /\ n.to = p
  <2>1. v # s /\ request'[v] = request[v]
    BY <1>4, <1>9
  <2>2. PICK x : x = request[v]
    OBVIOUS
  <2>3. /\ comment[x.id].by = x.by /\ comment[x.id].life # "unborn" /\ x.id \in CommentId
        /\ \A p \in x.seen.names \ {x.by} : InTeam(p) => Told(x.id, p)
    BY <1>9, <2>1, <2>2 DEF HeardInv, Targets, TalkInv, CallOK
  <2>4. comment'[x.id].by = x.by
    BY <1>2, <1>3, <1>4, <2>3
  <2>5. \A p : InTeam(p)' => InTeam(p)
    BY <1>5 DEF InTeam
  <2>6. ASSUME NEW p \in x.seen.names \ {x.by}, InTeam(p)'
        PROVE  \E n \in heard' : n.of = x.id /\ n.to = p
    BY <1>5, <2>3, <2>5, <2>6 DEF Told
  <2> QED
    BY <2>1, <2>2, <2>4, <2>6
<1> QED
  BY <1>8, <1>9 DEF HeardInv, MentionHeard, Told

LEMMA HeardInvStep ==
  ASSUME ConversationAssumption, TalkInv, Targets, HeardInv, [ConversationNext]_conversationVars
  PROVE  HeardInv'
<1>1. TalkInv'
  BY TalkInvStep
<1>2. ASSUME NEW s \in Slot, NEW p \in Reader, TabStep(s, p)
      PROVE  HeardInv'
  <2>1. UNCHANGED served /\ \A v \in Slot : request'[v] = request[v] \/ request'[v].at = "sent"
    BY <1>2, TabKeepsTalk
  <2>2. UNCHANGED <<comment, heard>> /\ \A v \in Reader : InTeam(v)' => InTeam(v)
    BY <2>1 DEF served, InTeam
  <2> QED
    BY <1>1, <2>1, <2>2, HeardStays
<1>3. ASSUME NEW s \in Slot, ListComments(s) \/ Fail(s) \/ TakeAnswer(s)
      PROVE  HeardInv'
  <2>1. \A v \in Slot : request'[v] = request[v] \/ request'[v].at # "loaded"
    <3>1. CASE ListComments(s)
      BY <3>1, ListReturned
    <3>2. CASE Fail(s)
      BY <3>2, CallFailed
    <3>3. CASE TakeAnswer(s)
      <4>1. NoCall.at # "loaded"
        BY DEF NoCall
      <4> QED
        BY <3>3, <4>1, AnswerTaken
    <3> QED
      BY <1>3, <3>1, <3>2, <3>3
  <2>2. UNCHANGED <<comment, heard>> /\ \A v \in Reader : InTeam(v)' => InTeam(v)
    BY <1>3 DEF ListComments, Fail, TakeAnswer, served, InTeam
  <2> QED
    BY <1>1, <2>1, <2>2, HeardStays
<1>4. ASSUME NEW s \in Slot, CheckComment(s)
      PROVE  HeardInv'
  <2>1. /\ \A v \in Slot : v # s => request'[v] = request[v]
        /\ request'[s].kind = request[s].kind
        /\ request'[s].by = request[s].by /\ request'[s].id = request[s].id
        /\ request[s].kind = "edit" =>
              /\ request[s].id \in CommentId
              /\ request'[s].seen.names = comment[request[s].id].names
    BY <1>4, CommentChecked
  <2>2. UNCHANGED <<comment, heard, standing>>
    BY <1>4 DEF CheckComment, served
  <2>3. request[s].kind = "edit" =>
          Live(request[s].id) /\ comment[request[s].id].by = request[s].by
    BY <1>4 DEF CheckComment
  <2>4. MentionHeard'
    BY <2>2 DEF HeardInv, MentionHeard, Live, InTeam
  <2>5. ASSUME NEW v \in Slot, request'[v].at = "loaded", request'[v].kind = "edit"
        PROVE  /\ comment'[request'[v].id].by = request'[v].by
               /\ \A p \in request'[v].seen.names \ {request'[v].by} :
                    InTeam(p)' => \E n \in heard' : n.of = request'[v].id /\ n.to = p
    <3>1. \A p : InTeam(p)' => InTeam(p)
      BY <2>2 DEF InTeam
    <3>2. CASE v = s
      BY <2>1, <2>2, <2>3, <2>5, <3>1, <3>2 DEF HeardInv, MentionHeard
    <3>3. CASE v # s
      BY <2>1, <2>2, <2>5, <3>1, <3>3 DEF HeardInv, Told
    <3> QED
      BY <3>2, <3>3
  <2> QED
    BY <2>4, <2>5 DEF HeardInv, Told
<1>5. ASSUME NEW s \in Slot, ServerStep(s)
      PROVE  HeardInv'
  BY <1>3, <1>4, <1>5, CommitIsHeard DEF ServerStep
<1>6. ASSUME NEW p \in Reader, CloseThread(p)
      PROVE  HeardInv'
  <2>1. ASSUME NEW s \in Slot, request'[s].at = "loaded", request'[s].kind = "edit"
        PROVE  /\ request[s].at = "loaded" /\ request[s].kind = "edit"
               /\ request'[s].by = request[s].by /\ request'[s].id = request[s].id
               /\ request'[s].seen = request[s].seen
    <3>1. request'[s] # NoCall
      BY <2>1 DEF NoCall
    <3> QED
      BY <1>6, <2>1, <3>1, ThreadCloses
  <2>2. UNCHANGED <<comment, heard>> /\ \A v \in Reader : InTeam(v)' => InTeam(v)
    BY <1>6 DEF CloseThread, served, InTeam
  <2> QED
    BY <1>1, <2>1, <2>2, HeardStays
<1>7. CASE (\E p \in Reader : Drop(p) \/ Reconnect(p) \/ Depart(p)) \/ Deliver \/ UNCHANGED conversationVars
  <2>1. UNCHANGED <<comment, heard, request>>
    BY <1>7, OthersKeepTalk
  <2>2. ASSUME NEW v \in Reader, InTeam(v)'
        PROVE  InTeam(v)
    BY <1>7, <2>2 DEF Drop, Reconnect, Depart, Deliver, conversationVars, served, InTeam, TalkInv
  <2> QED
    BY <1>1, <2>1, <2>2, HeardStays
<1> QED
  BY <1>2, <1>5, <1>6, <1>7 DEF ConversationNext

\* Whoever a comment mentions and has not left was told of it: an edit tells those
\* the comment it loaded did not mention, and those it did mention had been told
\* by then, whichever edit of the same comment commits in between (SRS SR08).
THEOREM MentionsAreHeard ==
  ASSUME ConversationAssumption
  PROVE  ConversationSpec => []MentionHeard
<1> DEFINE Inv == TalkInv /\ Targets /\ HeardInv
<1>1. ConversationInit => Inv
  BY TalkInvInit, HeardInvInit
<1>2. Inv /\ [ConversationNext]_conversationVars => Inv'
  BY TalkInvStep, HeardInvStep
<1>3. Inv => MentionHeard
  BY DEF HeardInv
<1> QED
  BY <1>1, <1>2, <1>3, PTL DEF ConversationSpec

-------------------------------------------------------------------------------
(* Conversation: the thread on the page has every comment *)

LoadsOf(p) == {s \in Slot : request[s].by = p /\ request[s].kind = "load"}

\* Every comment is in the list, or an event is still on its way to p.
UpToDate(p, list) ==
    \/ bus > 0
    \/ due[p] > 0
    \/ \A c \in CommentId : Live(c) => \E x \in ToSet(list) : x.id = c

\* Only an open thread has loads; as long as they did not cross there is one at a
\* time.  What an answer or the page lacks, an event is on its way for.
FollowsAt(p) ==
    /\ \A s \in LoadsOf(p) : thread[p].open /\ request[s].mine
    /\ (thread[p].open /\ ~thread[p].missed) => stream[p]
    /\ (thread[p].open /\ ~thread[p].crossed) => \A s, v \in LoadsOf(p) : s = v
    /\ (thread[p].open /\ ~thread[p].missed /\ ~thread[p].crossed) =>
         /\ \A s \in LoadsOf(p) : request[s].at = "done" => UpToDate(p, request[s].answer)
         /\ (LoadsOf(p) = {} /\ ~thread[p].failed)
              => thread[p].shown # Nobody /\ UpToDate(p, thread[p].shown)

FollowInv == \A p \in Reader : FollowsAt(p)

\* A step that leaves the thread of p and its loads alone, and takes no event away
\* from it.
LEMMA FollowStays ==
  ASSUME NEW p \in Reader, FollowsAt(p), thread'[p] = thread[p], stream[p] => stream'[p],
         LoadsOf(p)' = LoadsOf(p), \A s \in LoadsOf(p) : request'[s] = request[s],
         stream[p] => \A list : UpToDate(p, list) => UpToDate(p, list)'
  PROVE  FollowsAt(p)'
<1>1. \A s \in LoadsOf(p)' : thread'[p].open /\ request'[s].mine
  BY DEF FollowsAt
<1>2. (thread'[p].open /\ ~thread'[p].missed) => stream'[p]
  BY DEF FollowsAt
<1>3. (thread'[p].open /\ ~thread'[p].crossed) => \A s, v \in LoadsOf(p)' : s = v
  BY DEF FollowsAt
<1>4. ASSUME thread'[p].open, ~thread'[p].missed, ~thread'[p].crossed
      PROVE  /\ \A s \in LoadsOf(p)' : request'[s].at = "done" =>
                  \A answer : answer = request'[s].answer => UpToDate(p, answer)'
             /\ (LoadsOf(p)' = {} /\ ~thread'[p].failed)
                  => /\ thread'[p].shown # Nobody
                     /\ \A shown : shown = thread'[p].shown => UpToDate(p, shown)'
  BY <1>4 DEF FollowsAt
<1> QED
  BY <1>1, <1>2, <1>3, <1>4 DEF FollowsAt, UpToDate

\* What every comment is in stays so while none is written.
LEMMA SameEvents ==
  ASSUME UNCHANGED <<comment, bus>>, NEW p, due'[p] = due[p]
  PROVE  \A list : UpToDate(p, list) => UpToDate(p, list)'
  BY DEF UpToDate, Live

LEMMA FollowInvInit ==
  ASSUME ConversationAssumption, ConversationInit
  PROVE  FollowInv
<1>1. ASSUME NEW p \in Reader
      PROVE  FollowsAt(p)
  <2>1. LoadsOf(p) = {} /\ ~thread[p].open
    BY DEF ConversationInit, LoadsOf, NoCall, Shut
  <2> QED
    BY <2>1 DEF FollowsAt
<1> QED
  BY <1>1 DEF FollowInv

\* A load that starts is the only one of an open thread, or they crossed.
LEMMA LoadFollows ==
  ASSUME ConversationAssumption, TalkInv, FollowInv, NEW s \in Slot, NEW p \in Reader, NEW t \in Thread,
         Loads(s, p, t), t.open = TRUE, ~t.missed => stream[p],
         thread[p].open => t = thread[p],
         UNCHANGED <<comment, bus, stream>>, \A v \in Reader : v # p => due'[v] = due[v]
  PROVE  FollowInv'
<1>1. /\ request[s] = NoCall
      /\ request'[s].at = "sent" /\ request'[s].kind = "load"
      /\ request'[s].by = p /\ request'[s].mine
      /\ \A v \in Slot : v # s => request'[v] = request[v]
      /\ \A v \in Reader : v # p => thread'[v] = thread[v]
  BY ThreadLoads
<1>2. thread'[p].open = t.open
  BY ThreadLoads
<1>3. thread'[p].missed = t.missed
  BY ThreadLoads
<1>4. NoCall.kind # "load"
  BY DEF NoCall
<1>5. thread'[p].crossed = (t.crossed \/ Pending(p, "load") # {})
  BY ThreadLoads
<1>6. thread'[p].open
  BY <1>2
<1>7. ASSUME NEW v \in Reader, v # p
      PROVE  FollowsAt(v)'
  <2>1. LoadsOf(v)' = LoadsOf(v) /\ \A x \in LoadsOf(v) : request'[x] = request[x]
    BY <1>1, <1>4, <1>7 DEF LoadsOf
  <2>2. \A list : UpToDate(v, list) => UpToDate(v, list)'
    BY <1>7, SameEvents
  <2> QED
    BY <1>1, <1>7, <2>1, <2>2, FollowStays DEF FollowInv
<1>8. FollowsAt(p)'
  <2>1. LoadsOf(p)' = LoadsOf(p) \cup {s}
    BY <1>1, <1>4 DEF LoadsOf
  <2>2. \A x \in LoadsOf(p) : thread[p].open /\ request[x].mine /\ x # s
    BY <1>1, <1>4 DEF FollowInv, FollowsAt, LoadsOf
  <2>3. \A x \in LoadsOf(p)' : thread'[p].open /\ request'[x].mine
    BY <1>1, <1>6, <2>1, <2>2 DEF LoadsOf
  <2>4. LoadsOf(p) = Pending(p, "load")
    BY <2>2 DEF LoadsOf, Pending
  <2>5. ~thread'[p].crossed => LoadsOf(p)' = {s}
    BY <1>5, <2>1, <2>4
  <2>6. (thread'[p].open /\ ~thread'[p].missed) => stream'[p]
    BY <1>3
  <2>7. (thread'[p].open /\ ~thread'[p].crossed) => \A x, y \in LoadsOf(p)' : x = y
    BY <2>5
  <2>8. (thread'[p].open /\ ~thread'[p].missed /\ ~thread'[p].crossed) =>
          /\ LoadsOf(p)' # {}
          /\ \A x \in LoadsOf(p)' : request'[x].at # "done"
    BY <1>1, <2>5
  <2> QED
    BY <2>3, <2>6, <2>7, <2>8 DEF FollowsAt
<1> QED
  BY <1>7, <1>8 DEF FollowInv

LEMMA TabFollows ==
  ASSUME ConversationAssumption, TalkInv, Targets, FollowInv, NEW s \in Slot, NEW p \in Reader, TabStep(s, p)
  PROVE  FollowInv'
<1>1. thread[p] \in Thread /\ due \in [Reader -> Nat]
  BY DEF TalkInv
<1>2. CASE /\ ~thread[p].open
           /\ Loads(s, p, [Shut EXCEPT !.open = TRUE, !.missed = ~stream[p]])
           /\ UNCHANGED <<served, stream, bus, due>>
  <2>1. PICK b \in BOOLEAN : b = ~stream[p]
    OBVIOUS
  <2>2. PICK t : t = [Shut EXCEPT !.open = TRUE, !.missed = b]
    OBVIOUS
  <2>3. t \in Thread /\ t.open = TRUE /\ t.missed = b
    BY <2>2 DEF Shut, Thread
  <2>4. Loads(s, p, t)
    BY <1>2, <2>1, <2>2
  <2> QED
    BY <1>2, <2>1, <2>3, <2>4, LoadFollows DEF served
<1>3. CASE /\ Loads(s, p, thread[p]) /\ thread[p].open
           /\ UNCHANGED <<served, stream, bus>>
           /\ \/ UNCHANGED due
              \/ due' = [due EXCEPT ![p] = due[p] - 1] /\ due[p] > 0
  <2>1. ~thread[p].missed => stream[p]
    BY <1>3 DEF FollowInv, FollowsAt
  <2>2. \A v \in Reader : v # p => due'[v] = due[v]
    BY <1>1, <1>3
  <2>3. UNCHANGED <<comment, bus, stream>>
    BY <1>3 DEF served
  <2>4. thread[p].open = TRUE
    BY <1>1, <1>3 DEF Thread
  <2> QED
    BY <1>1, <1>3, <2>1, <2>2, <2>3, <2>4, LoadFollows
<1>4. CASE /\ ~thread[p].open
           /\ due' = [due EXCEPT ![p] = due[p] - 1]
           /\ UNCHANGED <<served, thread, request, stream, bus>>
  <2>1. \A v : LoadsOf(v)' = LoadsOf(v)
    BY <1>4 DEF LoadsOf
  <2>2. ASSUME NEW v \in Reader, v # p
        PROVE  FollowsAt(v)'
    <3>1. due'[v] = due[v]
      BY <1>1, <1>4, <2>2
    <3>2. \A list : UpToDate(v, list) => UpToDate(v, list)'
      BY <1>4, <3>1, SameEvents DEF served
    <3> QED
      BY <1>4, <2>1, <3>2, FollowStays DEF FollowInv
  <2>3. FollowsAt(p)'
    BY <1>4, <2>1 DEF FollowInv, FollowsAt
  <2> QED
    BY <2>2, <2>3 DEF FollowInv
<1>5. ASSUME NEW kind \in {"post", "edit", "delete"}, NEW c \in CommentId \cup {0},
             NEW text \in Text, NEW names \in SUBSET Reader,
             kind \in {"edit", "delete"} => c \in CommentId,
             Sends(s, p, kind, c, text, names), UNCHANGED <<served, thread, stream, bus, due>>
      PROVE  FollowInv'
  <2>1. /\ \A v \in Slot : v # s => request'[v] = request[v]
        /\ request[s] = NoCall /\ request'[s].kind = kind
    BY <1>5, ChangeSent
  <2>2. NoCall.kind # "load"
    BY DEF NoCall
  <2>3. ASSUME NEW v \in Reader
        PROVE  FollowsAt(v)'
    <3>1. LoadsOf(v)' = LoadsOf(v) /\ \A x \in LoadsOf(v) : request'[x] = request[x]
      BY <2>1, <2>2 DEF LoadsOf
    <3>2. \A list : UpToDate(v, list) => UpToDate(v, list)'
      BY <1>5, SameEvents DEF served
    <3> QED
      BY <1>5, <3>1, <3>2, FollowStays DEF FollowInv
  <2> QED
    BY <2>3 DEF FollowInv
<1> QED
  BY <1>2, <1>3, <1>4, <1>5, TabLoadsOrSends

\* A list answers with every comment there is; that a load failed is no list.
LEMMA ListFollows ==
  ASSUME ConversationAssumption, TalkInv, FollowInv, NEW s \in Slot, ListComments(s) \/ Fail(s)
  PROVE  FollowInv'
<1>1. /\ \A v \in Slot : v # s => request'[v] = request[v]
      /\ request'[s].kind = request[s].kind
      /\ request'[s].by = request[s].by /\ request'[s].mine = request[s].mine
      /\ request'[s].at = "done" =>
           \A c \in CommentId : Live(c) => \E x \in ToSet(request'[s].answer) : x.id = c
  BY ListReturned, CallFailed
<1>2. UNCHANGED <<comment, thread, stream, bus, due>>
  BY DEF ListComments, Fail, served
<1>3. \A p : LoadsOf(p)' = LoadsOf(p)
  BY <1>1 DEF LoadsOf
<1>4. ASSUME NEW p \in Reader
      PROVE  FollowsAt(p)'
  <2>1. FollowsAt(p)
    BY DEF FollowInv
  <2>2. \A list : UpToDate(p, list) => UpToDate(p, list)'
    BY <1>2, SameEvents
  <2>3. CASE s \notin LoadsOf(p)
    <3>1. \A x \in LoadsOf(p) : request'[x] = request[x]
      BY <1>1, <2>3 DEF LoadsOf
    <3> QED
      BY <1>2, <1>3, <2>1, <2>2, <3>1, FollowStays
  <2>4. CASE s \in LoadsOf(p)
    <3>1. \A x \in LoadsOf(p)' : thread'[p].open /\ request'[x].mine
      BY <1>1, <1>2, <1>3, <2>1 DEF FollowsAt, LoadsOf
    <3>2. (thread'[p].open /\ ~thread'[p].missed) => stream'[p]
      BY <1>2, <2>1 DEF FollowsAt
    <3>3. (thread'[p].open /\ ~thread'[p].crossed) => \A x, y \in LoadsOf(p)' : x = y
      BY <1>2, <1>3, <2>1 DEF FollowsAt
    <3>4. ASSUME thread'[p].open, ~thread'[p].crossed, NEW x \in LoadsOf(p)', request'[x].at = "done",
                 NEW answer, answer = request'[x].answer
          PROVE  UpToDate(p, answer)'
      <4>1. x = s
        BY <1>3, <2>4, <3>3, <3>4
      <4>2. UpToDate(p, answer)
        BY <1>1, <3>4, <4>1 DEF UpToDate
      <4> QED
        BY <2>2, <4>2
    <3>5. LoadsOf(p)' # {}
      BY <1>3, <2>4
    <3> QED
      BY <3>1, <3>2, <3>3, <3>4, <3>5 DEF FollowsAt, UpToDate
  <2> QED
    BY <2>3, <2>4
<1> QED
  BY <1>4 DEF FollowInv

\* A check or a commit leaves the loads alone; a commit puts an event on the bus.
LEMMA CommitFollows ==
  ASSUME ConversationAssumption, TalkInv, Targets, FollowInv, NEW s \in Slot,
         CheckComment(s) \/ CreateComment(s) \/ EditComment(s) \/ DeleteComment(s)
  PROVE  FollowInv'
<1>1. ASSUME NEW p \in Reader, \A v \in Slot : v # s => request'[v] = request[v],
             request'[s].kind = request[s].kind, request[s].kind # "load",
             UNCHANGED <<thread, stream>>,
             \A list : UpToDate(p, list) => UpToDate(p, list)'
      PROVE  FollowsAt(p)'
  <2>1. LoadsOf(p)' = LoadsOf(p) /\ \A x \in LoadsOf(p) : request'[x] = request[x]
    BY <1>1 DEF LoadsOf
  <2> QED
    BY <1>1, <2>1, FollowStays DEF FollowInv
<1>2. CASE CheckComment(s)
  <2>1. /\ \A v \in Slot : v # s => request'[v] = request[v]
        /\ request'[s].kind = request[s].kind /\ request[s].kind # "load"
    BY <1>2, CommentChecked
  <2>2. \A p : \A list : UpToDate(p, list) => UpToDate(p, list)'
    BY <1>2, SameEvents DEF CheckComment, served
  <2>3. UNCHANGED <<thread, stream>>
    BY <1>2 DEF CheckComment
  <2> QED
    BY <1>1, <2>1, <2>2, <2>3 DEF FollowInv
<1>3. CASE CreateComment(s) \/ EditComment(s) \/ DeleteComment(s)
  <2>1. request[s].kind \in {"edit", "delete"} => comment[request[s].id].life # "unborn"
    BY <1>3 DEF Targets, CreateComment, EditComment, DeleteComment
  <2>2. request[s].at = "loaded" /\ request[s].kind \in {"post", "edit", "delete"}
    BY <1>3, <2>1, CommitWrites
  <2>3a. PICK c \in CommentId, r \in CommentRow : \E notes :
              /\ Writes(s, c, r, notes) /\ r.life # "unborn"
              /\ request[s].kind \in {"edit", "delete"} => request[s].id = c
              /\ comment[c].life = "unborn" => c = Written + 1
    BY <1>3, <2>1, CommitWrites
  <2>3. PICK notes :
              /\ Writes(s, c, r, notes) /\ r.life # "unborn"
              /\ request[s].kind \in {"edit", "delete"} => request[s].id = c
              /\ comment[c].life = "unborn" => c = Written + 1
    BY <2>3a
  <2>4. /\ request'[s].kind = request[s].kind
        /\ \A v \in Slot : v # s => request'[v] = request[v]
    BY <2>2, <2>3, RowWritten
  <2>5. bus' > 0 /\ UNCHANGED <<thread, stream>>
    BY <2>3 DEF Writes, TalkInv
  <2>6. \A p : \A list : UpToDate(p, list)'
    BY <2>5 DEF UpToDate
  <2> QED
    BY <1>1, <2>2, <2>4, <2>5, <2>6 DEF FollowInv
<1> QED
  BY <1>2, <1>3

\* The answer of the last load is what the page shows; other answers keep what is
\* shown and add to it.
LEMMA AnswerFollows ==
  ASSUME ConversationAssumption, NobodyIsNoList, TalkInv, FollowInv, NEW s \in Slot, TakeAnswer(s)
  PROVE  FollowInv'
<1> DEFINE q == request[s]
<1>1. PICK p \in Reader : p = q.by
  BY AnswerTaken
<1>2. /\ p \in Reader
      /\ \A v \in Slot : request'[v] = IF v = s THEN NoCall ELSE request[v]
      /\ \A v \in Reader : v # p => thread'[v] = thread[v]
      /\ thread'[p].open = thread[p].open
      /\ thread'[p].crossed = thread[p].crossed
      /\ thread'[p].missed = thread[p].missed
  BY <1>1, AnswerTaken
<1>3. /\ ~q.mine => thread'[p] = thread[p]
      /\ (q.mine /\ q.at = "done") =>
              /\ thread'[p].shown = ShownAfter(q, thread[p].shown)
              /\ thread'[p].failed = (thread[p].failed /\ q.kind # "load")
      /\ (q.mine /\ q.at # "done") =>
              /\ thread'[p].shown = thread[p].shown
              /\ thread'[p].failed = (thread[p].failed \/ q.kind = "load")
  BY <1>1, AnswerTaken
<1>4. NoCall.kind # "load" /\ UNCHANGED <<comment, stream, bus, due>>
  BY DEF NoCall, TakeAnswer, served
<1>5. \A v \in Reader : \A list : UpToDate(v, list) => UpToDate(v, list)'
  BY <1>4, SameEvents
<1>6. ASSUME NEW v \in Reader, v # p
      PROVE  FollowsAt(v)'
  <2>1. LoadsOf(v)' = LoadsOf(v) /\ \A x \in LoadsOf(v) : request'[x] = request[x]
    BY <1>2, <1>4, <1>6, <1>1 DEF LoadsOf
  <2> QED
    BY <1>2, <1>4, <1>5, <1>6, <2>1, FollowStays DEF FollowInv
<1>7. FollowsAt(p)'
  <2>1. FollowsAt(p)
    BY <1>2 DEF FollowInv
  <2>2. LoadsOf(p)' = LoadsOf(p) \ {s} /\ \A x \in LoadsOf(p)' : request'[x] = request[x]
    BY <1>2, <1>4 DEF LoadsOf
  <2>3. \A x \in LoadsOf(p)' : thread'[p].open /\ request'[x].mine
    <3>1. ASSUME NEW x \in LoadsOf(p)'
          PROVE  thread[p].open /\ request[x].mine
      BY <2>1, <2>2, <3>1 DEF FollowsAt
    <3> QED
      BY <1>2, <2>2, <3>1
  <2>4. (thread'[p].open /\ ~thread'[p].missed) => stream'[p]
    BY <1>2, <1>4, <2>1 DEF FollowsAt
  <2>5. (thread'[p].open /\ ~thread'[p].crossed) => \A x, y \in LoadsOf(p)' : x = y
    BY <1>2, <2>1, <2>2 DEF FollowsAt
  <2>6. CASE s \in LoadsOf(p)
    <3>1. q.kind = "load" /\ q.mine /\ thread[p].open
      BY <2>1, <2>6 DEF FollowsAt, LoadsOf
    <3>2. ASSUME ~thread'[p].missed, ~thread'[p].crossed
          PROVE  LoadsOf(p)' = {}
      <4>1. \A x, y \in LoadsOf(p) : x = y
        BY <1>2, <2>1, <3>1, <3>2 DEF FollowsAt
      <4> QED
        BY <2>2, <2>6, <4>1
    <3>3. ASSUME ~thread'[p].missed, ~thread'[p].crossed, ~thread'[p].failed
          PROVE  thread'[p].shown # Nobody /\ \A shown : shown = thread'[p].shown => UpToDate(p, shown)'
      <4>1. q.at = "done"
        BY <1>3, <3>1, <3>3
      <4>2. thread'[p].shown = q.answer
        BY <1>3, <3>1, <4>1 DEF ShownAfter
      <4>3. q.answer \in Seq(CommentCopy)
        BY DEF TalkInv, CallOK, CallRow
      <4>4. UpToDate(p, q.answer)
        BY <1>2, <2>1, <2>6, <3>1, <3>3, <4>1 DEF FollowsAt
      <4> QED
        BY <1>2, <1>5, <4>2, <4>3, <4>4, NobodyIsNoList
    <3> QED
      BY <2>3, <2>4, <2>5, <3>2, <3>3 DEF FollowsAt, UpToDate
  <2>7. CASE s \notin LoadsOf(p)
    <3>1. q.kind # "load" /\ LoadsOf(p)' = LoadsOf(p)
      BY <1>1, <2>2, <2>7 DEF LoadsOf
    <3>2. ASSUME thread'[p].open, ~thread'[p].missed, ~thread'[p].crossed, LoadsOf(p) = {}, ~thread'[p].failed
          PROVE  thread'[p].shown # Nobody /\ \A shown : shown = thread'[p].shown => UpToDate(p, shown)'
      <4>1. ~thread[p].failed
        BY <1>3, <3>1, <3>2
      <4>2. thread[p].shown # Nobody /\ UpToDate(p, thread[p].shown)
        BY <1>2, <2>1, <3>2, <4>1 DEF FollowsAt
      <4>3. CASE q.mine /\ q.at = "done"
        <5>1. thread[p].shown \in {Nobody} \cup Seq(CommentCopy) /\ CallOK(q)
          BY <1>2 DEF TalkInv, Thread
        <5>2. PICK new : new = ShownAfter(q, thread[p].shown)
          OBVIOUS
        <5>3. /\ new \in Seq(CommentCopy)
              /\ \A x \in ToSet(thread[p].shown) : \E y \in ToSet(new) : y.id = x.id
          BY <3>1, <4>2, <4>3, <5>1, <5>2, ShownTyped
        <5>4. UpToDate(p, new)
          BY <4>2, <5>3 DEF UpToDate
        <5> QED
          BY <1>2, <1>3, <1>5, <4>3, <5>2, <5>3, <5>4, NobodyIsNoList
      <4>4. CASE ~(q.mine /\ q.at = "done")
        <5>1. thread'[p].shown = thread[p].shown
          BY <1>3, <4>4
        <5> QED
          BY <1>2, <1>5, <4>2, <5>1
      <4> QED
        BY <4>3, <4>4
    <3>3. ASSUME thread'[p].open, ~thread'[p].missed, ~thread'[p].crossed,
                 NEW x \in LoadsOf(p)', request'[x].at = "done"
          PROVE  \A answer : answer = request'[x].answer => UpToDate(p, answer)'
      <4>1. request'[x] = request[x] /\ x \in LoadsOf(p)
        BY <2>2, <3>1, <3>3
      <4>2. UpToDate(p, request[x].answer)
        BY <1>2, <2>1, <3>3, <4>1 DEF FollowsAt
      <4> QED
        BY <1>2, <1>5, <4>1, <4>2
    <3> QED
      BY <2>3, <2>4, <2>5, <3>1, <3>2, <3>3 DEF FollowsAt, UpToDate
  <2> QED
    BY <2>6, <2>7
<1> QED
  BY <1>6, <1>7 DEF FollowInv

\* A thread that closes takes its loads with it.
LEMMA CloseFollows ==
  ASSUME ConversationAssumption, TalkInv, FollowInv, NEW p \in Reader, CloseThread(p)
  PROVE  FollowInv'
<1>1. /\ \A v \in Reader : thread'[v] = IF v = p THEN Shut ELSE thread[v]
      /\ \A s \in Slot : request[s].by # p => request'[s] = request[s]
      /\ \A s \in Slot : request[s].by = p =>
              /\ request'[s].kind # "load"
              /\ request'[s] # NoCall => request'[s].by = p
  BY ThreadCloses
<1>2. UNCHANGED <<comment, stream, bus, due>>
  BY DEF CloseThread, served
<1>3. ASSUME NEW v \in Reader, v # p
      PROVE  FollowsAt(v)'
  <2>1. LoadsOf(v)' = LoadsOf(v) /\ \A x \in LoadsOf(v) : request'[x] = request[x]
    BY <1>1, <1>3 DEF LoadsOf
  <2>2. \A list : UpToDate(v, list) => UpToDate(v, list)'
    BY <1>2, SameEvents
  <2> QED
    BY <1>1, <1>2, <1>3, <2>1, <2>2, FollowStays DEF FollowInv
<1>4. FollowsAt(p)'
  <2>1. LoadsOf(p)' = {} /\ ~thread'[p].open
    BY <1>1 DEF LoadsOf, Shut
  <2> QED
    BY <2>1 DEF FollowsAt
<1> QED
  BY <1>3, <1>4 DEF FollowInv

\* An event that leaves the bus reaches every tab that is connected, and a tab
\* that is not knows what it misses.
LEMMA EventsFollow ==
  ASSUME ConversationAssumption, TalkInv, FollowInv,
         (\E p \in Reader : Drop(p) \/ Reconnect(p) \/ Depart(p)) \/ Deliver \/ UNCHANGED conversationVars
  PROVE  FollowInv'
<1>1. UNCHANGED <<comment, request>>
  BY DEF Drop, Reconnect, Depart, Deliver, conversationVars, served
<1>2. \A v : LoadsOf(v)' = LoadsOf(v)
  BY <1>1 DEF LoadsOf
<1>3. /\ thread \in [Reader -> Thread] /\ stream = [v \in Reader |-> stream[v]]
      /\ due \in [Reader -> Nat] /\ bus \in Nat
  BY DEF TalkInv
<1>4. ASSUME NEW p \in Reader, Drop(p)
      PROVE  FollowInv'
  <2>1. PICK u : u = [thread[p] EXCEPT !.missed = thread[p].open]
    OBVIOUS
  <2>2. u.open = thread[p].open /\ u.missed = thread[p].open /\ u.crossed = thread[p].crossed
    BY <1>3, <2>1 DEF Thread
  <2>3. \A v \in Reader : thread'[v] = IF v = p THEN u ELSE thread[v]
    BY <1>3, <1>4, <2>1 DEF Drop
  <2>4. \A v \in Reader : v # p => stream'[v] = stream[v]
    BY <1>3, <1>4 DEF Drop
  <2>5. ASSUME NEW v \in Reader
        PROVE  \A list : UpToDate(v, list) => UpToDate(v, list)'
    BY <1>1, <1>4, SameEvents DEF Drop
  <2>6. ASSUME NEW v \in Reader, v # p
        PROVE  FollowsAt(v)'
    BY <1>1, <1>2, <2>3, <2>4, <2>5, <2>6, FollowStays DEF FollowInv
  <2>7. FollowsAt(p)'
    BY <1>1, <1>2, <2>2, <2>3 DEF FollowInv, FollowsAt
  <2> QED
    BY <2>6, <2>7 DEF FollowInv
<1>5. ASSUME NEW p \in Reader, Reconnect(p) \/ Depart(p)
      PROVE  FollowInv'
  <2>1. UNCHANGED <<thread, bus, due>> /\ \A v \in Reader : stream[v] => stream'[v]
    BY <1>3, <1>5 DEF Reconnect, Depart
  <2>2. \A v : \A list : UpToDate(v, list) => UpToDate(v, list)'
    BY <1>1, <2>1, SameEvents
  <2> QED
    BY <1>1, <1>2, <2>1, <2>2, FollowStays DEF FollowInv
<1>6. CASE Deliver
  <2>1. UNCHANGED <<thread, stream>>
    BY <1>6 DEF Deliver
  <2>2. ASSUME NEW v \in Reader, stream[v]
        PROVE  due'[v] > 0
    BY <1>3, <1>6, <2>2 DEF Deliver, Reaches
  <2>3. \A v \in Reader : stream[v] => \A list : UpToDate(v, list)'
    BY <2>2 DEF UpToDate
  <2> QED
    BY <1>1, <1>2, <2>1, <2>3, FollowStays DEF FollowInv
<1>7. CASE UNCHANGED conversationVars
  <2>1. UNCHANGED <<thread, stream, bus, due>>
    BY <1>7 DEF conversationVars
  <2>2. \A v : \A list : UpToDate(v, list) => UpToDate(v, list)'
    BY <1>1, <2>1, SameEvents
  <2> QED
    BY <1>1, <1>2, <2>1, <2>2, FollowStays DEF FollowInv
<1> QED
  BY <1>4, <1>5, <1>6, <1>7

LEMMA FollowInvStep ==
  ASSUME ConversationAssumption, NobodyIsNoList, TalkInv, Targets, FollowInv,
         [ConversationNext]_conversationVars
  PROVE  FollowInv'
<1>1. ASSUME NEW s \in Slot, ServerStep(s)
      PROVE  FollowInv'
  BY <1>1, ListFollows, CommitFollows, AnswerFollows DEF ServerStep
<1> QED
  BY <1>1, TabFollows, CloseFollows, EventsFollow DEF ConversationNext

\* Whoever has a task open sees every comment on it without reloading, once their
\* events have been handled, as long as their loads did not overlap and their
\* stream was up: a comment written after the server made a list puts an event on
\* the bus, and the event makes the thread load again (comment.controller.ts:145).
THEOREM CommentsAreSeen ==
  ASSUME ConversationAssumption, NobodyIsNoList
  PROVE  ConversationSpec => []SeesNewComment
<1> DEFINE Inv == TalkInv /\ Targets /\ FollowInv
<1>1. ConversationInit => Inv
  BY TalkInvInit, HeardInvInit, FollowInvInit
<1>2. Inv /\ [ConversationNext]_conversationVars => Inv'
  BY TalkInvStep, FollowInvStep
<1>3. Inv => SeesNewComment
  <2>1. SUFFICES ASSUME TalkInv, FollowInv, NEW p \in Reader,
                        Watching(p), ~thread[p].crossed, Quiet(p)
                 PROVE  Complete(p)
    BY DEF SeesNewComment
  <2>2. FollowsAt(p)
    BY <2>1 DEF FollowInv
  <2>3. LoadsOf(p) = {}
    BY <2>1, <2>2 DEF FollowsAt, LoadsOf, Quiet, Pending
  <2>4. UpToDate(p, thread[p].shown)
    BY <2>1, <2>2, <2>3 DEF FollowsAt, Watching
  <2>5. \A c \in CommentId : Live(c) => \E x \in ToSet(thread[p].shown) : x.id = c
    BY <2>1, <2>4 DEF UpToDate, Quiet, TalkInv
  <2> QED
    BY <2>5 DEF Complete
<1> QED
  BY <1>1, <1>2, <1>3, PTL DEF ConversationSpec

-------------------------------------------------------------------------------
(* TaskBoard: what an edit computes from the row it loaded *)

\* What the fields written over a row make of it.
LEMMA WrittenOver ==
  ASSUME NEW f, NEW g
  PROVE  /\ DOMAIN (f ++ g) = DOMAIN f \cup DOMAIN g
         /\ \A x \in DOMAIN f \cup DOMAIN g : (f ++ g)[x] = IF x \in DOMAIN g THEN g[x] ELSE f[x]
  BY DEF ++

TaskField == {"life", "parent", "project", "creator", "assignee", "status", "finished", "note",
              "start", "due", "original", "extended", "keyed", "version"}

\* A body names some fields and holds a value of each.
LEMMA BodyFields ==
  ASSUME NEW b \in Body
  PROVE  /\ DOMAIN b \subseteq {"status", "note", "assignee", "project", "due", "start"}
         /\ "status" \in DOMAIN b => b["status"] \in Progress
         /\ "assignee" \in DOMAIN b => b["assignee"] \in Person \cup {None}
         /\ "project" \in DOMAIN b => b["project"] \in Project \cup {None}
         /\ "due" \in DOMAIN b => b["due"] \in Date
         /\ "start" \in DOMAIN b => b["start"] \in Date /\ "due" \in DOMAIN b
<1>1. CASE b \in [status : Progress] \cup [status : Progress, note : {TRUE}] \cup [note : {TRUE}]
  BY <1>1
<1>2. CASE b \in [assignee : Person \cup {None}] \cup [project : Project \cup {None}]
  BY <1>2
<1>3. CASE b \in [due : Date] \cup [start : Date, due : Date]
  BY <1>3
<1> QED
  BY <1>1, <1>2, <1>3 DEF Body

\* A row that is consistent: see CompletionConsistent.
Sound(t, r) ==
    r.life = "live" =>
      /\ r.finished <=> r.status = "completed"
      /\ r.note => r.finished
      /\ (t \in Top /\ r.finished) => r.note

\* A deadline that row n has later than row r is counted and logged: see
\* ExtensionsRecorded.
Logged(r, n, log) ==
    (r.due # None /\ n.due # None /\ n.due > r.due) =>
      /\ n.extended = r.extended + 1
      /\ log # None /\ log.from = r.due /\ log.to = n.due
      /\ (r.status # "todo" /\ role[log.by] # "owner") => log.reason

\* What a request q to edit row r does to it.
Fits(r, q) ==
    /\ r ++ q.write \in TaskRow
    /\ (r ++ q.write).life = r.life
    /\ Sound(q.task, r ++ q.write)
    /\ q.right = "assignee" => r.assignee = q.who
    /\ Logged(r, r ++ q.write, q.log)

\* The fields named, those of the completion, the note, the first deadline and
\* the count of extensions, over a row.
LEMMA FieldsWritten ==
  ASSUME NEW r, DOMAIN r = TaskField, NEW a, NEW d, NEW n, NEW f, NEW l,
         DOMAIN a \subseteq {"status", "assignee", "project", "due", "start"},
         DOMAIN d \subseteq {"finished", "note"}, DOMAIN n \subseteq {"note"},
         DOMAIN f \subseteq {"original"}, DOMAIN l \subseteq {"extended"},
         NEW m, m = r ++ (a ++ d ++ n ++ f ++ l)
  PROVE  /\ DOMAIN m = TaskField
         /\ m["life"] = r["life"] /\ m["parent"] = r["parent"] /\ m["creator"] = r["creator"]
         /\ m["keyed"] = r["keyed"] /\ m["version"] = r["version"]
         /\ \A x \in {"status", "assignee", "project", "due", "start"} :
              m[x] = IF x \in DOMAIN a THEN a[x] ELSE r[x]
         /\ m["finished"] = IF "finished" \in DOMAIN d THEN d["finished"] ELSE r["finished"]
         /\ m["note"] = IF "note" \in DOMAIN n THEN n["note"]
                        ELSE IF "note" \in DOMAIN d THEN d["note"] ELSE r["note"]
         /\ m["original"] = IF "original" \in DOMAIN f THEN f["original"] ELSE r["original"]
         /\ m["extended"] = IF "extended" \in DOMAIN l THEN l["extended"] ELSE r["extended"]
<1>1. PICK ad : ad = a ++ d
  OBVIOUS
<1>2. PICK adn : adn = ad ++ n
  OBVIOUS
<1>3. PICK adnf : adnf = adn ++ f
  OBVIOUS
<1>4. PICK w : w = adnf ++ l
  OBVIOUS
<1>5. m = r ++ w
  BY <1>1, <1>2, <1>3, <1>4
<1>6. /\ DOMAIN ad = DOMAIN a \cup DOMAIN d
      /\ \A x \in DOMAIN a \cup DOMAIN d : ad[x] = IF x \in DOMAIN d THEN d[x] ELSE a[x]
  BY <1>1, WrittenOver
<1>7. /\ DOMAIN adn = DOMAIN ad \cup DOMAIN n
      /\ \A x \in DOMAIN ad \cup DOMAIN n : adn[x] = IF x \in DOMAIN n THEN n[x] ELSE ad[x]
  BY <1>2, WrittenOver
<1>8. /\ DOMAIN adnf = DOMAIN adn \cup DOMAIN f
      /\ \A x \in DOMAIN adn \cup DOMAIN f : adnf[x] = IF x \in DOMAIN f THEN f[x] ELSE adn[x]
  BY <1>3, WrittenOver
<1>9. /\ DOMAIN w = DOMAIN adnf \cup DOMAIN l
      /\ \A x \in DOMAIN adnf \cup DOMAIN l : w[x] = IF x \in DOMAIN l THEN l[x] ELSE adnf[x]
  BY <1>4, WrittenOver
<1>10. /\ DOMAIN m = DOMAIN r \cup DOMAIN w
       /\ \A x \in DOMAIN r \cup DOMAIN w : m[x] = IF x \in DOMAIN w THEN w[x] ELSE r[x]
  <2>1. /\ DOMAIN (r ++ w) = DOMAIN r \cup DOMAIN w
        /\ \A x \in DOMAIN r \cup DOMAIN w : (r ++ w)[x] = IF x \in DOMAIN w THEN w[x] ELSE r[x]
    BY WrittenOver
  <2> QED
    BY <1>5, <2>1
<1>11. DOMAIN w \subseteq {"status", "assignee", "project", "due", "start", "finished", "note",
                           "original", "extended"}
  BY <1>6, <1>7, <1>8, <1>9
<1>12. DOMAIN m = TaskField
  BY <1>10, <1>11 DEF TaskField
<1>13. \A x \in TaskField \ DOMAIN w : m[x] = r[x]
  BY <1>10
<1>14. /\ m["life"] = r["life"] /\ m["parent"] = r["parent"] /\ m["creator"] = r["creator"]
       /\ m["keyed"] = r["keyed"] /\ m["version"] = r["version"]
  BY <1>11, <1>13 DEF TaskField
<1>15. ASSUME NEW x \in {"status", "assignee", "project", "due", "start"}
       PROVE  m[x] = IF x \in DOMAIN a THEN a[x] ELSE r[x]
  <2>1. x \notin DOMAIN d /\ x \notin DOMAIN n /\ x \notin DOMAIN f /\ x \notin DOMAIN l /\ x \in TaskField
    BY DEF TaskField
  <2>2. x \in DOMAIN w <=> x \in DOMAIN a
    BY <1>6, <1>7, <1>8, <1>9, <2>1
  <2>3. x \in DOMAIN a => w[x] = a[x]
    BY <1>6, <1>7, <1>8, <1>9, <2>1
  <2> QED
    BY <1>10, <1>12, <2>1, <2>2, <2>3
<1>16. m["finished"] = IF "finished" \in DOMAIN d THEN d["finished"] ELSE r["finished"]
  <2>1. /\ "finished" \notin DOMAIN a /\ "finished" \notin DOMAIN n /\ "finished" \notin DOMAIN f
        /\ "finished" \notin DOMAIN l /\ "finished" \in TaskField
    BY DEF TaskField
  <2>2. "finished" \in DOMAIN w <=> "finished" \in DOMAIN d
    BY <1>6, <1>7, <1>8, <1>9, <2>1
  <2>3. "finished" \in DOMAIN d => w["finished"] = d["finished"]
    BY <1>6, <1>7, <1>8, <1>9, <2>1
  <2> QED
    BY <1>10, <1>12, <2>1, <2>2, <2>3
<1>17. m["note"] = IF "note" \in DOMAIN n THEN n["note"]
                   ELSE IF "note" \in DOMAIN d THEN d["note"] ELSE r["note"]
  <2>1. "note" \notin DOMAIN a /\ "note" \notin DOMAIN f /\ "note" \notin DOMAIN l /\ "note" \in TaskField
    BY DEF TaskField
  <2>2. "note" \in DOMAIN w <=> "note" \in DOMAIN d \/ "note" \in DOMAIN n
    BY <1>6, <1>7, <1>8, <1>9, <2>1
  <2>3. /\ "note" \in DOMAIN n => w["note"] = n["note"]
        /\ ("note" \in DOMAIN d /\ "note" \notin DOMAIN n) => w["note"] = d["note"]
    BY <1>6, <1>7, <1>8, <1>9, <2>1
  <2> QED
    BY <1>10, <1>12, <2>1, <2>2, <2>3
<1>18. m["original"] = IF "original" \in DOMAIN f THEN f["original"] ELSE r["original"]
  <2>1. /\ "original" \notin DOMAIN a /\ "original" \notin DOMAIN d /\ "original" \notin DOMAIN n
        /\ "original" \notin DOMAIN l /\ "original" \in TaskField
    BY DEF TaskField
  <2>2. "original" \in DOMAIN w <=> "original" \in DOMAIN f
    BY <1>6, <1>7, <1>8, <1>9, <2>1
  <2>3. "original" \in DOMAIN f => w["original"] = f["original"]
    BY <1>8, <1>9, <2>1
  <2> QED
    BY <1>10, <1>12, <2>1, <2>2, <2>3
<1>19. m["extended"] = IF "extended" \in DOMAIN l THEN l["extended"] ELSE r["extended"]
  <2>1. /\ "extended" \notin DOMAIN a /\ "extended" \notin DOMAIN d /\ "extended" \notin DOMAIN n
        /\ "extended" \notin DOMAIN f /\ "extended" \in TaskField
    BY DEF TaskField
  <2>2. "extended" \in DOMAIN w <=> "extended" \in DOMAIN l
    BY <1>6, <1>7, <1>8, <1>9, <2>1
  <2>3. "extended" \in DOMAIN l => w["extended"] = l["extended"]
    BY <1>9
  <2> QED
    BY <1>10, <1>12, <2>1, <2>2, <2>3
<1> QED
  BY <1>12, <1>14, <1>15, <1>16, <1>17, <1>18, <1>19

\* A function of the fields of a row is a row if its values are.
LEMMA RowOfFields ==
  ASSUME NEW m, m = [x \in TaskField |-> m[x]],
         m["life"] \in {"unborn", "live", "deleted"}, m["parent"] \in Top \cup {None},
         m["project"] \in Project \cup {None}, m["creator"] \in Person \cup {None},
         m["assignee"] \in Person \cup {None}, m["status"] \in Progress,
         m["finished"] \in BOOLEAN, m["note"] \in BOOLEAN, m["start"] \in Date, m["due"] \in Date,
         m["original"] \in Date, m["extended"] \in Nat, m["keyed"] \in BOOLEAN,
         m["version"] \in 1 .. MaxEdit
  PROVE  m \in TaskRow
  BY DEF TaskRow, TaskField

LEMMA FieldsOfRow ==
  ASSUME NEW r \in TaskRow
  PROVE  /\ DOMAIN r = TaskField
         /\ r["life"] \in {"unborn", "live", "deleted"} /\ r["parent"] \in Top \cup {None}
         /\ r["project"] \in Project \cup {None} /\ r["creator"] \in Person \cup {None}
         /\ r["assignee"] \in Person \cup {None} /\ r["status"] \in Progress
         /\ r["finished"] \in BOOLEAN /\ r["note"] \in BOOLEAN /\ r["start"] \in Date /\ r["due"] \in Date
         /\ r["original"] \in Date /\ r["extended"] \in Nat /\ r["keyed"] \in BOOLEAN
         /\ r["version"] \in 1 .. MaxEdit
  BY DEF TaskRow, TaskField

\* A request that loaded a sound row and passed the checks fits that row.
LEMMA EditComputed ==
  ASSUME BoardAssumption, RecordsAreNotNull, row \in [TaskId -> TaskRow], NEW w, NEW p \in Person, NEW t \in TaskId,
         NEW b \in Body, NEW reason \in BOOLEAN, Sound(t, row[t]), EditLoad(w, p, t, b, reason)
  PROVE  \E q : /\ Start(w, q) /\ Exists(t)
                /\ q.op = "edit" /\ q.who = p /\ q.task = t /\ q.version = row[t].version
                /\ q.log # None => q.log.by = p
                /\ Fits(row[t], q)
<1>1. PICK r \in TaskRow : r = row[t]
  OBVIOUS
<1>2. PICK status : status = IF "status" \in DOMAIN b THEN b.status ELSE r.status
  OBVIOUS
<1>3. PICK noted \in BOOLEAN : noted = ("note" \in DOMAIN b)
  <2>1. ("note" \in DOMAIN b) \in BOOLEAN
    OBVIOUS
  <2> QED
    BY <2>1
<1>4. PICK start : start = IF "start" \in DOMAIN b THEN b.start ELSE r.start
  OBVIOUS
<1>5. PICK deadline : deadline = IF "due" \in DOMAIN b THEN b.due ELSE r.due
  OBVIOUS
<1>6. PICK moved \in BOOLEAN : moved = ([start |-> start, due |-> deadline] # [start |-> r.start, due |-> r.due])
  OBVIOUS
<1>7. PICK log : log = IF "due" \in DOMAIN b THEN ExtensionOf(r, b.due, reason, p) ELSE None
  OBVIOUS
<1>8. PICK done : done = CompletionChange(r.status, status, noted)
  OBVIOUS
<1>9. PICK noting : noting = IF r.status = "completed" /\ status = "completed" /\ noted
                             THEN [note |-> TRUE] ELSE <<>>
  OBVIOUS
<1>10. PICK first : first = IF "due" \in DOMAIN b /\ deadline # None /\ r.original = None
                            THEN [original |-> deadline] ELSE <<>>
  OBVIOUS
<1>11. PICK longer : longer = IF log # None THEN [extended |-> r.extended + 1] ELSE <<>>
  OBVIOUS
<1>12. PICK named : named = [f \in DOMAIN b \ {"note"} |-> b[f]]
  OBVIOUS
<1>13. PICK write : write = named ++ done ++ noting ++ first ++ longer
  OBVIOUS
<1>14. PICK q : q = [pc |-> "loaded", op |-> "edit", who |-> p, task |-> t,
                     right |-> EditRight(p, t), version |-> r.version,
                     write |-> write, log |-> log]
  OBVIOUS
<1>15. Start(w, q) /\ Exists(t)
  BY <1>1, <1>2, <1>3, <1>4, <1>5, <1>6, <1>7, <1>8, <1>9, <1>10, <1>11, <1>12, <1>13, <1>14 DEF EditLoad
<1>16. (t \in Top /\ status = "completed" /\ r.status # "completed") => noted
  BY <1>1, <1>2, <1>3 DEF EditLoad
<1>17. (moved /\ r.status # "todo" /\ role[p] # "owner") => reason
  BY <1>1, <1>4, <1>5, <1>6 DEF EditLoad
<1>18. /\ DOMAIN b \subseteq {"status", "note", "assignee", "project", "due", "start"}
       /\ "status" \in DOMAIN b => b["status"] \in Progress
       /\ "assignee" \in DOMAIN b => b["assignee"] \in Person \cup {None}
       /\ "project" \in DOMAIN b => b["project"] \in Project \cup {None}
       /\ "due" \in DOMAIN b => b["due"] \in Date
       /\ "start" \in DOMAIN b => b["start"] \in Date /\ "due" \in DOMAIN b
  BY BodyFields
<1>19. /\ DOMAIN r = TaskField
       /\ r["life"] \in {"unborn", "live", "deleted"} /\ r["parent"] \in Top \cup {None}
       /\ r["project"] \in Project \cup {None} /\ r["creator"] \in Person \cup {None}
       /\ r["assignee"] \in Person \cup {None} /\ r["status"] \in Progress
       /\ r["finished"] \in BOOLEAN /\ r["note"] \in BOOLEAN /\ r["start"] \in Date /\ r["due"] \in Date
       /\ r["original"] \in Date /\ r["extended"] \in Nat /\ r["keyed"] \in BOOLEAN
       /\ r["version"] \in 1 .. MaxEdit
  BY FieldsOfRow
<1>20. status \in Progress /\ deadline \in Date /\ start \in Date
  BY <1>2, <1>4, <1>5, <1>18, <1>19
<1>21. /\ DOMAIN named \subseteq {"status", "assignee", "project", "due", "start"}
       /\ \A f \in {"status", "assignee", "project", "due", "start"} :
            (f \in DOMAIN named <=> f \in DOMAIN b) /\ (f \in DOMAIN named => named[f] = b[f])
  BY <1>12, <1>18
<1>22. /\ DOMAIN done \subseteq {"finished", "note"}
       /\ status = r.status => DOMAIN done = {}
       /\ (status # r.status /\ status = "completed") =>
            /\ DOMAIN done = {"finished", "note"}
            /\ done["finished"] = TRUE /\ done["note"] = noted
       /\ (status # r.status /\ r.status = "completed") =>
            /\ DOMAIN done = {"finished", "note"}
            /\ done["finished"] = FALSE /\ done["note"] = FALSE
       /\ (status # "completed" /\ r.status # "completed") => DOMAIN done = {}
  <2>1. CASE status = r.status
    <3>1. done = <<>>
      BY <1>8, <2>1 DEF CompletionChange
    <3>2. DOMAIN done = {}
      BY <3>1
    <3> QED
      BY <2>1, <3>2
  <2>2. CASE status # r.status /\ status = "completed"
    <3>1. done = [finished |-> TRUE, note |-> noted]
      BY <1>8, <2>2 DEF CompletionChange
    <3>2. DOMAIN done = {"finished", "note"} /\ done["finished"] = TRUE /\ done["note"] = noted
      BY <3>1
    <3> QED
      BY <2>2, <3>2
  <2>3. CASE status # r.status /\ status # "completed" /\ r.status = "completed"
    <3>1. done = [finished |-> FALSE, note |-> FALSE]
      BY <1>8, <2>3 DEF CompletionChange
    <3>2. DOMAIN done = {"finished", "note"} /\ done["finished"] = FALSE /\ done["note"] = FALSE
      BY <3>1
    <3> QED
      BY <2>3, <3>2
  <2>4. CASE status # r.status /\ status # "completed" /\ r.status # "completed"
    <3>1. done = <<>>
      BY <1>8, <2>4 DEF CompletionChange
    <3>2. DOMAIN done = {}
      BY <3>1
    <3> QED
      BY <2>4, <3>2
  <2> QED
    BY <2>1, <2>2, <2>3, <2>4
<1>23. /\ DOMAIN noting \subseteq {"note"}
       /\ "note" \in DOMAIN noting <=> r.status = "completed" /\ status = "completed" /\ noted
       /\ "note" \in DOMAIN noting => noting["note"] = TRUE
  <2>1. CASE r.status = "completed" /\ status = "completed" /\ noted
    <3>1. noting = [note |-> TRUE]
      BY <1>9, <2>1
    <3>2. DOMAIN noting = {"note"} /\ noting["note"] = TRUE
      BY <3>1
    <3> QED
      BY <2>1, <3>2
  <2>2. CASE ~(r.status = "completed" /\ status = "completed" /\ noted)
    <3>1. noting = <<>>
      BY <1>9, <2>2
    <3>2. DOMAIN noting = {}
      BY <3>1
    <3> QED
      BY <2>2, <3>2
  <2> QED
    BY <2>1, <2>2
<1>24. /\ DOMAIN first \subseteq {"original"}
       /\ "original" \in DOMAIN first => first["original"] = deadline
  <2>1. CASE first = [original |-> deadline]
    BY <2>1
  <2>2. CASE first = <<>>
    BY <2>2
  <2> QED
    BY <1>10, <2>1, <2>2
<1>25. /\ DOMAIN longer \subseteq {"extended"}
       /\ "extended" \in DOMAIN longer <=> log # None
       /\ "extended" \in DOMAIN longer => longer["extended"] = r["extended"] + 1
  <2>1. CASE log # None
    <3>1. longer = [extended |-> r["extended"] + 1]
      BY <1>11, <2>1
    <3>2. DOMAIN longer = {"extended"} /\ longer["extended"] = r["extended"] + 1
      BY <3>1
    <3> QED
      BY <2>1, <3>2
  <2>2. CASE log = None
    <3>1. longer = <<>>
      BY <1>11, <2>2
    <3>2. DOMAIN longer = {}
      BY <3>1
    <3> QED
      BY <2>2, <3>2
  <2> QED
    BY <2>1, <2>2
<1>26. PICK m : m = r ++ write
  OBVIOUS
<1>27. /\ DOMAIN m = TaskField
       /\ m["life"] = r["life"] /\ m["parent"] = r["parent"] /\ m["creator"] = r["creator"]
       /\ m["keyed"] = r["keyed"] /\ m["version"] = r["version"]
       /\ \A x \in {"status", "assignee", "project", "due", "start"} :
            m[x] = IF x \in DOMAIN named THEN named[x] ELSE r[x]
       /\ m["finished"] = IF "finished" \in DOMAIN done THEN done["finished"] ELSE r["finished"]
       /\ m["note"] = IF "note" \in DOMAIN noting THEN noting["note"]
                      ELSE IF "note" \in DOMAIN done THEN done["note"] ELSE r["note"]
       /\ m["original"] = IF "original" \in DOMAIN first THEN first["original"] ELSE r["original"]
       /\ m["extended"] = IF "extended" \in DOMAIN longer THEN longer["extended"] ELSE r["extended"]
  BY <1>13, <1>19, <1>21, <1>22, <1>23, <1>24, <1>25, <1>26, FieldsWritten
<1>28. m["status"] = status /\ m["due"] = deadline /\ m["start"] = start
  BY <1>2, <1>4, <1>5, <1>21, <1>27
<1>29. m["assignee"] \in Person \cup {None} /\ m["project"] \in Project \cup {None}
  BY <1>18, <1>19, <1>21, <1>27
<1>30. m["finished"] \in BOOLEAN /\ m["note"] \in BOOLEAN
  BY <1>19, <1>20, <1>22, <1>23, <1>27
<1>31. m["original"] \in Date
  BY <1>19, <1>20, <1>24, <1>27
<1>32. m["extended"] \in Nat
  BY <1>19, <1>25, <1>27
<1>33. m \in TaskRow
  <2>1. m = [x \in TaskField |-> m[x]]
    <3>1. m = [x \in DOMAIN r \cup DOMAIN write |-> IF x \in DOMAIN write THEN write[x] ELSE r[x]]
      BY <1>26 DEF ++
    <3>2. m = [x \in DOMAIN m |-> m[x]]
      BY <3>1
    <3> QED
      BY <1>27, <3>2
  <2> QED
    BY <1>19, <1>20, <1>27, <1>28, <1>29, <1>30, <1>31, <1>32, <2>1, RowOfFields
<1>34. Sound(t, m)
  <2>1. Sound(t, r) /\ r.life = "live"
    BY <1>1, <1>15 DEF Exists
  <2>2. /\ r["finished"] <=> r["status"] = "completed"
        /\ r["note"] => r["finished"]
        /\ (t \in Top /\ r["finished"]) => r["note"]
    BY <2>1 DEF Sound
  <2>3. CASE status = r["status"]
    BY <1>22, <1>23, <1>27, <1>28, <2>2, <2>3 DEF Sound
  <2>4. CASE status # r["status"] /\ status = "completed"
    <3>1. "note" \notin DOMAIN noting
      BY <1>23, <2>4
    <3>2. m["finished"] = TRUE /\ m["note"] = noted
      BY <1>22, <1>27, <2>4, <3>1
    <3> QED
      BY <1>16, <1>28, <2>4, <3>2 DEF Sound
  <2>5. CASE status # r["status"] /\ r["status"] = "completed"
    <3>1. "note" \notin DOMAIN noting
      BY <1>23, <2>5
    <3>2. m["finished"] = FALSE /\ m["note"] = FALSE
      BY <1>22, <1>27, <2>5, <3>1
    <3> QED
      BY <1>28, <2>5, <3>2 DEF Sound
  <2>6. CASE status # r["status"] /\ status # "completed" /\ r["status"] # "completed"
    BY <1>22, <1>23, <1>27, <1>28, <2>2, <2>6 DEF Sound
  <2> QED
    BY <2>3, <2>4, <2>5, <2>6
<1>35. q.right = "assignee" => r.assignee = p
  BY <1>1, <1>14 DEF EditRight
<1>36. log # None => log.by = p
  BY <1>7 DEF ExtensionOf
<1>37. Logged(r, m, log)
  <2>1. SUFFICES ASSUME r["due"] # None, deadline # None, deadline > r["due"]
                 PROVE  /\ m["extended"] = r["extended"] + 1
                        /\ log # None /\ log.from = r["due"] /\ log.to = deadline
                        /\ (r["status"] # "todo" /\ role[log.by] # "owner") => log.reason
    BY <1>28 DEF Logged
  <2>2. deadline \in Nat /\ r["due"] \in Nat
    BY <1>19, <1>20, <2>1, BoardAssumption DEF Date
  <2>3. "due" \in DOMAIN b /\ b["due"] = deadline
    BY <1>5, <2>1, <2>2
  <2>4. log = [from |-> r["due"], to |-> deadline, reason |-> reason, by |-> p]
    BY <1>7, <2>1, <2>3 DEF ExtensionOf
  <2>5. log # None
    <3>1. r["due"] \in 1 .. MaxInstant /\ deadline \in 1 .. MaxInstant
      BY <1>19, <1>20, <2>1 DEF Date
    <3>2. log \in Extension
      BY <2>4, <3>1 DEF Extension
    <3> QED
      BY <3>2, RecordsAreNotNull
  <2>6. moved
    <3>1. deadline # r.due
      BY <2>1, <2>2
    <3>2. [start |-> start, due |-> deadline] # [start |-> r.start, due |-> r.due]
      BY <3>1
    <3> QED
      BY <1>6, <3>2
  <2> QED
    BY <1>17, <1>25, <1>27, <2>4, <2>5, <2>6
<1>38. Fits(r, q)
  <2>1. q.write = write /\ q.task = t /\ q.who = p /\ q.log = log
    BY <1>14
  <2>2. r ++ q.write = m
    BY <1>26, <2>1
  <2>3. m.life = r.life
    BY <1>27
  <2> QED
    BY <1>33, <1>34, <1>35, <1>37, <2>1, <2>2, <2>3 DEF Fits
<1>39. q.op = "edit" /\ q.who = p /\ q.task = t /\ q.version = r.version /\ q.log = log
  BY <1>14
<1> QED
  BY <1>1, <1>15, <1>36, <1>38, <1>39

-------------------------------------------------------------------------------
(* TaskBoard: the rows and the requests in flight *)

\* An edit knows a version the row has had, and fits the row while it still has it.
EditFits(q) ==
    q.op = "edit" =>
      /\ q.task \in TaskId /\ row[q.task].life # "unborn"
      /\ q.version \in Nat
      /\ q.log # None => q.log.by \in Person
      /\ Exists(q.task) => q.version <= row[q.task].version
      /\ VersionMatches(q) => Fits(row[q.task], q)

\* A new row waits for an id that no row has and no other request names.
NewWaits(w) ==
    work[w].op \in {"create", "subtask"} =>
      /\ work[w].task \in TaskId /\ row[work[w].task].life = "unborn"
      /\ work[w].write \in TaskRow /\ work[w].write.life = "live"
      /\ Sound(work[w].task, work[w].write)
      /\ \A v \in Worker : v # w => work[v].task # work[w].task

RequestsHold ==
    \A w \in Worker : /\ EditFits(work[w]) /\ NewWaits(w)
                      /\ work[w].op = "delete" => work[w].task \in TaskId

BoardInv ==
    /\ role = [p \in Person |-> role[p]]
    /\ row \in [TaskId -> TaskRow]
    /\ extension = [t \in TaskId |-> extension[t]]
    /\ work = [w \in Worker |-> work[w]]
    /\ \A t \in TaskId : Sound(t, row[t])
    /\ RequestsHold

\* How a row may change under the requests that loaded it.
Moves(r, n) ==
    \/ n = r
    \/ r.life # "unborn" /\ n.life = "deleted"
    \/ n.life = r.life /\ n.version > r.version

LEMMA EditStays ==
  ASSUME NEW q, EditFits(q), row \in [TaskId -> TaskRow], row' \in [TaskId -> TaskRow],
         q.op = "edit" => Moves(row[q.task], row'[q.task]),
         \A p \in Person : role'[p] = "owner" <=> role[p] = "owner"
  PROVE  EditFits(q)'
<1>1. SUFFICES ASSUME q.op = "edit"
               PROVE  /\ q.task \in TaskId /\ row'[q.task].life # "unborn"
                      /\ q.version \in Nat
                      /\ q.log # None => q.log.by \in Person
                      /\ Exists(q.task)' => q.version <= row'[q.task].version
                      /\ VersionMatches(q)' => Fits(row[q.task], q)'
  BY DEF EditFits
<1>2. /\ q.task \in TaskId /\ row[q.task].life # "unborn" /\ q.version \in Nat
      /\ q.log # None => q.log.by \in Person
      /\ Exists(q.task) => q.version <= row[q.task].version
      /\ VersionMatches(q) => Fits(row[q.task], q)
  BY <1>1 DEF EditFits
<1>3. PICK r, n \in TaskRow : r = row[q.task] /\ n = row'[q.task]
  BY <1>2
<1>4. r.version \in Nat /\ n.version \in Nat
  BY DEF TaskRow
<1>5. r.life # "unborn" /\ (r.life = "live" => q.version <= r.version)
  BY <1>2, <1>3 DEF Exists
<1>6. CASE n = r
  <2>1. Exists(q.task)' = Exists(q.task) /\ VersionMatches(q)' = VersionMatches(q)
    BY <1>3, <1>6 DEF Exists, VersionMatches
  <2>2. ASSUME Fits(r, q), VersionMatches(q)
        PROVE  Fits(row[q.task], q)'
    <3>1. Logged(r, r ++ q.write, q.log)
      BY <2>2 DEF Fits
    <3>2. Logged(n, n ++ q.write, q.log)'
      BY <1>2, <1>6, <3>1 DEF Logged
    <3>3. /\ n ++ q.write \in TaskRow /\ (n ++ q.write).life = n.life
          /\ Sound(q.task, n ++ q.write)
          /\ q.right = "assignee" => n.assignee = q.who
      BY <1>6, <2>2 DEF Fits
    <3> QED
      BY <1>3, <3>2, <3>3 DEF Fits
  <2> QED
    BY <1>2, <1>3, <1>5, <1>6, <2>1, <2>2
<1>7. CASE n.life = "deleted"
  BY <1>2, <1>3, <1>7 DEF Exists, VersionMatches
<1>8. CASE n.life = r.life /\ n.version > r.version
  <2>1. n.life = "live" => q.version <= r.version
    BY <1>5, <1>8
  <2>2. n.life = "live" => q.version < n.version
    BY <1>2, <1>4, <1>8, <2>1
  <2>3. Exists(q.task)' => q.version < n.version
    BY <1>3, <2>2 DEF Exists
  <2>4. ~VersionMatches(q)'
    BY <1>2, <1>3, <1>4, <2>3 DEF VersionMatches
  <2> QED
    BY <1>2, <1>3, <1>4, <1>5, <1>8, <2>3, <2>4
<1> QED
  BY <1>1, <1>3, <1>6, <1>7, <1>8 DEF Moves

\* Rows move under requests that stay or end.
LEMMA RequestsStay ==
  ASSUME BoardAssumption, BoardInv, row' \in [TaskId -> TaskRow],
         \A p \in Person : role'[p] = "owner" <=> role[p] = "owner",
         \A v \in Worker : work'[v] = work[v] \/ work'[v] = NoWork,
         \A t \in TaskId : \/ Moves(row[t], row'[t])
                           \/ row[t].life = "unborn" /\ \A v \in Worker : work'[v].task # t
  PROVE  RequestsHold'
<1>1. \A t \in TaskId : None # t
  BY BoardAssumption DEF TaskId
<1>2. NoWork.op = "none" /\ NoWork.task = None
  BY DEF NoWork
<1>3. ASSUME NEW w \in Worker, work'[w] = NoWork
      PROVE  EditFits(work[w])' /\ NewWaits(w)' /\ (work'[w].op = "delete" => work'[w].task \in TaskId)
  BY <1>2, <1>3 DEF EditFits, NewWaits
<1>4. ASSUME NEW w \in Worker, work'[w] = work[w]
      PROVE  EditFits(work[w])' /\ NewWaits(w)' /\ (work'[w].op = "delete" => work'[w].task \in TaskId)
  <2>1. EditFits(work[w]) /\ NewWaits(w) /\ (work[w].op = "delete" => work[w].task \in TaskId)
    BY DEF BoardInv, RequestsHold
  <2>2. PICK q : q = work'[w]
    OBVIOUS
  <2>3. EditFits(q)
    BY <1>4, <2>1, <2>2
  <2>4. row \in [TaskId -> TaskRow]
    BY DEF BoardInv
  <2>5. q.op = "edit" => q.task \in TaskId /\ row[q.task].life # "unborn"
    BY <2>3 DEF EditFits
  <2>6. q.op = "edit" => Moves(row[q.task], row'[q.task])
    BY <2>5
  <2>7. EditFits(q)'
    BY <2>3, <2>4, <2>6, EditStays
  <2>8. EditFits(work[w])'
    BY <2>2, <2>7 DEF EditFits
  <2>9. NewWaits(w)'
    <3>1. SUFFICES ASSUME work[w].op \in {"create", "subtask"}
                   PROVE  NewWaits(w)'
      BY <1>4 DEF NewWaits
    <3>2. /\ work[w].task \in TaskId /\ row[work[w].task].life = "unborn"
          /\ work[w].write \in TaskRow /\ work[w].write.life = "live"
          /\ Sound(work[w].task, work[w].write)
          /\ \A v \in Worker : v # w => work[v].task # work[w].task
      BY <2>1, <3>1 DEF NewWaits
    <3>3. Moves(row[work[w].task], row'[work[w].task])
      BY <1>4, <3>2
    <3>4. row'[work[w].task].life = "unborn"
      BY <3>2, <3>3 DEF Moves
    <3>5. ASSUME NEW v \in Worker, v # w
          PROVE  work'[v].task # work[w].task
      BY <1>1, <1>2, <3>2, <3>5
    <3> QED
      BY <1>4, <3>2, <3>4, <3>5 DEF NewWaits, Sound
  <2> QED
    BY <1>4, <2>1, <2>8, <2>9
<1> QED
  BY <1>3, <1>4 DEF RequestsHold

\* A request that begins.
LEMMA RequestsBegin ==
  ASSUME BoardAssumption, BoardInv, NEW w \in Worker, NEW q, Start(w, q), EditFits(q),
         q.op \in {"edit", "delete"} => q.task \in TaskId /\ Exists(q.task),
         q.op \in {"create", "subtask"} =>
           /\ q.task \in TaskId /\ Fresh(q.task) /\ q.write \in TaskRow /\ q.write.life = "live"
           /\ Sound(q.task, q.write),
         q.op \in {"edit", "delete", "create", "subtask"}
  PROVE  BoardInv'
<1>1. /\ UNCHANGED <<role, row, extension>> /\ work' = [v \in Worker |-> work'[v]]
      /\ \A v \in Worker : work'[v] = IF v = w THEN q ELSE work[v]
  BY DEF Start, BoardInv
<1>2. ASSUME NEW v \in Worker
      PROVE  EditFits(work[v])' /\ NewWaits(v)' /\ (work'[v].op = "delete" => work'[v].task \in TaskId)
  <2>1. EditFits(work[v]) /\ NewWaits(v) /\ (work[v].op = "delete" => work[v].task \in TaskId)
    BY DEF BoardInv, RequestsHold
  <2>2. ASSUME NEW x, EditFits(x)
        PROVE  EditFits(x)'
    BY <1>1, <2>2 DEF EditFits, Exists, VersionMatches, Fits, Logged
  <2>3. EditFits(work[v])'
    <3>1. PICK x : x = work'[v]
      OBVIOUS
    <3>2. EditFits(x)
      BY <1>1, <2>1, <3>1
    <3>3. EditFits(x)'
      BY <2>2, <3>2
    <3> QED
      BY <3>1, <3>3 DEF EditFits
  <2>4. CASE v = w
    <3>1. NewWaits(v)'
      BY <1>1, <2>4 DEF NewWaits, Fresh, Sound
    <3> QED
      BY <1>1, <2>3, <2>4, <3>1
  <2>5. CASE v # w
    <3>1. work[v].op \in {"create", "subtask"} => q.task # work[v].task
      BY <2>1 DEF NewWaits, Exists, Fresh
    <3>2. NewWaits(v)'
      BY <1>1, <2>1, <2>5, <3>1 DEF NewWaits, Sound
    <3> QED
      BY <1>1, <2>1, <2>3, <2>5, <3>2
  <2> QED
    BY <2>4, <2>5
<1>3. RequestsHold'
  BY <1>2 DEF RequestsHold
<1> QED
  BY <1>1, <1>3 DEF BoardInv, Sound

\* A row as whoever creates it leaves it: noted if it is completed.
Born(m) ==
    /\ m \in TaskRow /\ m.life = "live"
    /\ m.finished <=> m.status = "completed"
    /\ m.note <=> m.status = "completed"

LEMMA NewRowIsBorn ==
  ASSUME BoardAssumption, NEW p \in Person, NEW status \in Progress,
         NEW window \in [start : Date, due : Date], NEW a \in Person \cup {None}
  PROVE  Born(NewRow(p, status, window, a))
<1>1. PICK done \in BOOLEAN : done = (status = "completed")
  <2>1. (status = "completed") \in BOOLEAN
    OBVIOUS
  <2> QED
    BY <2>1
<1>2. PICK start \in Date, deadline \in Date : start = window.start /\ deadline = window.due
  OBVIOUS
<1>3. PICK z : z = NoTask
  OBVIOUS
<1>4. /\ DOMAIN z = TaskField /\ z["parent"] = None /\ z["project"] = None
      /\ z["extended"] = 0 /\ z["keyed"] = FALSE /\ z["version"] = 1
  BY <1>3 DEF NoTask, TaskField
<1>5. PICK n : n = [z EXCEPT !.life = "live", !.creator = p, !.assignee = a, !.status = status,
                         !.finished = done, !.note = done,
                         !.start = start, !.due = deadline, !.original = deadline]
  OBVIOUS
<1>6. n = NewRow(p, status, window, a)
  BY <1>1, <1>2, <1>3, <1>5 DEF NewRow
<1>7. n["life"] = "live" /\ n["creator"] = p /\ n["assignee"] = a
  BY <1>4, <1>5 DEF TaskField
<1>8. n["status"] = status /\ n["finished"] = done /\ n["note"] = done
  BY <1>4, <1>5 DEF TaskField
<1>9. n["start"] = start /\ n["due"] = deadline /\ n["original"] = deadline
  BY <1>4, <1>5 DEF TaskField
<1>10. n["parent"] = None /\ n["project"] = None /\ n["extended"] = 0
  BY <1>4, <1>5 DEF TaskField
<1>11. n["keyed"] = FALSE /\ n["version"] = 1
  BY <1>4, <1>5 DEF TaskField
<1>12. n = [x \in TaskField |-> n[x]]
  BY <1>4, <1>5
<1>13. 1 \in 1 .. MaxEdit
  BY BoardAssumption
<1>14. n \in TaskRow
  <2>1. /\ n["life"] \in {"unborn", "live", "deleted"} /\ n["creator"] \in Person \cup {None}
        /\ n["assignee"] \in Person \cup {None} /\ n["parent"] \in Top \cup {None}
        /\ n["project"] \in Project \cup {None}
    BY <1>7, <1>10
  <2>2. n["extended"] \in Nat /\ n["version"] \in 1 .. MaxEdit
    BY <1>10, <1>11, <1>13
  <2>3. n["finished"] \in BOOLEAN /\ n["note"] \in BOOLEAN
    BY <1>8
  <2>4. n["keyed"] \in BOOLEAN
    BY <1>11
  <2> QED
    BY <1>8, <1>9, <1>12, <2>1, <2>2, <2>3, <2>4, RowOfFields
<1>15. Born(n)
  BY <1>1, <1>7, <1>8, <1>14 DEF Born
<1> QED
  BY <1>6, <1>15

\* Where it is put leaves a new row consistent.
LEMMA BornIsSound ==
  ASSUME NEW m, Born(m), NEW t, NEW pr \in Project \cup {None}, NEW parent \in Top \cup {None},
         NEW k \in BOOLEAN,
         NEW n, \/ n = [m EXCEPT !.project = pr, !.keyed = k]
                \/ n = [m EXCEPT !.parent = parent, !.project = pr]
                \/ n = [m EXCEPT !.project = pr]
  PROVE  n \in TaskRow /\ n.life = "live" /\ Sound(t, n)
<1>1. m \in TaskRow /\ m.life = "live"
  BY DEF Born
<1>2. /\ n \in TaskRow /\ n.life = m.life /\ n.status = m.status
      /\ n.finished = m.finished /\ n.note = m.note
  <2>1. CASE n = [m EXCEPT !.project = pr, !.keyed = k]
    BY <1>1, <2>1 DEF TaskRow
  <2>2. CASE n = [m EXCEPT !.parent = parent, !.project = pr]
    BY <1>1, <2>2 DEF TaskRow
  <2>3. CASE n = [m EXCEPT !.project = pr]
    BY <1>1, <2>3 DEF TaskRow
  <2> QED
    BY <2>1, <2>2, <2>3
<1> QED
  BY <1>1, <1>2 DEF Born, Sound

LEMMA LoadKeeps ==
  ASSUME BoardAssumption, RecordsAreNotNull, BoardInv, NEW w \in Worker, NEW p \in Person,
         LoadStep(w, p, {"edit", "delete", "create", "subtask"}, Body)
  PROVE  BoardInv'
<1>1. ASSUME NEW t \in TaskId, NEW b \in Body, NEW reason \in BOOLEAN, EditLoad(w, p, t, b, reason)
      PROVE  BoardInv'
  <2>1. row \in [TaskId -> TaskRow] /\ Sound(t, row[t])
    BY DEF BoardInv
  <2>2. PICK q : /\ Start(w, q) /\ Exists(t)
                 /\ q.op = "edit" /\ q.who = p /\ q.task = t /\ q.version = row[t].version
                 /\ q.log # None => q.log.by = p
                 /\ Fits(row[t], q)
    BY <1>1, <2>1, EditComputed
  <2>3. row[t].version \in Nat
    BY <2>1 DEF TaskRow
  <2>4. EditFits(q)
    BY <2>2, <2>3 DEF EditFits, Exists
  <2> QED
    BY <2>2, <2>4, RequestsBegin
<1>2. ASSUME NEW t \in TaskId, DeleteLoad(w, p, t)
      PROVE  BoardInv'
  <2>1. PICK right : right = DeleteRight(p, t)
    OBVIOUS
  <2>2. PICK q : q = [NoWork EXCEPT !.pc = "loaded", !.op = "delete", !.who = p, !.task = t, !.right = right]
    OBVIOUS
  <2>3. q.op = "delete" /\ q.task = t
    BY <2>2 DEF NoWork
  <2>4. Start(w, q) /\ Exists(t)
    BY <1>2, <2>1, <2>2 DEF DeleteLoad
  <2>5. EditFits(q)
    BY <2>3 DEF EditFits
  <2> QED
    BY <2>3, <2>4, <2>5, RequestsBegin
<1>3. ASSUME NEW t \in TaskId, Fresh(t), NEW op \in {"create", "subtask"},
             NEW n \in TaskRow, n.life = "live", Sound(t, n), Insert(w, p, t, op, n)
      PROVE  BoardInv'
  <2>1. PICK q : q = [NoWork EXCEPT !.pc = "loaded", !.op = op, !.who = p, !.task = t, !.write = n]
    OBVIOUS
  <2>2. q.op = op /\ q.task = t /\ q.write = n
    BY <2>1 DEF NoWork
  <2>3. Start(w, q)
    BY <1>3, <2>1 DEF Insert
  <2>4. EditFits(q)
    BY <2>2 DEF EditFits
  <2> QED
    BY <1>3, <2>2, <2>3, <2>4, RequestsBegin
<1>4. ASSUME NEW t \in Top, NEW s \in {"todo", "completed"}, NEW pr \in Project \cup {None},
             NEW a \in Person \cup {None}, NEW d \in Date, NEW k \in BOOLEAN,
             CreateLoad(w, p, t, s, pr, [start |-> None, due |-> d], a, k)
      PROVE  BoardInv'
  <2>1. s \in Progress /\ None \in Date /\ None \in Top \cup {None} /\ t \in TaskId
    BY DEF Progress, Date, TaskId
  <2>2. PICK m : m = NewRow(p, s, [start |-> None, due |-> d], a)
    OBVIOUS
  <2>3. PICK n : n = [m EXCEPT !.project = pr, !.keyed = k]
    OBVIOUS
  <2>4. n \in TaskRow /\ n.life = "live" /\ Sound(t, n)
    <3>1. [start |-> None, due |-> d] \in [start : Date, due : Date]
      BY <2>1
    <3>2. Born(m)
      BY <2>1, <2>2, <3>1, NewRowIsBorn
    <3> QED
      BY <2>1, <2>3, <3>2, BornIsSound
  <2>5. Fresh(t) /\ Insert(w, p, t, "create", n)
    BY <1>4, <2>2, <2>3 DEF CreateLoad
  <2> QED
    BY <1>3, <2>1, <2>4, <2>5
<1>5. ASSUME NEW t \in Sub, NEW parent \in Top, NEW s \in {"todo", "completed"},
             NEW a \in Person \cup {None}, NEW d \in Date,
             SubtaskLoad(w, p, t, parent, s, [start |-> None, due |-> d], a)
      PROVE  BoardInv'
  <2>1. s \in Progress /\ None \in Date /\ parent \in Top \cup {None} /\ t \in TaskId /\ parent \in TaskId
    BY DEF Progress, Date, TaskId
  <2>2. PICK m : m = NewRow(p, s, [start |-> None, due |-> d], a)
    OBVIOUS
  <2>3. PICK pr \in Project \cup {None} : pr = row[parent].project
    BY <2>1 DEF BoardInv, TaskRow
  <2>4. PICK n : n = [m EXCEPT !.parent = parent, !.project = pr]
    OBVIOUS
  <2>5. n \in TaskRow /\ n.life = "live" /\ Sound(t, n)
    <3>1. [start |-> None, due |-> d] \in [start : Date, due : Date] /\ TRUE \in BOOLEAN
      BY <2>1
    <3>2. Born(m)
      BY <2>1, <2>2, <3>1, NewRowIsBorn
    <3> QED
      BY <2>1, <2>4, <3>1, <3>2, BornIsSound
  <2>6. Fresh(t) /\ Insert(w, p, t, "subtask", n)
    BY <1>5, <2>2, <2>3, <2>4 DEF SubtaskLoad
  <2> QED
    BY <1>3, <2>1, <2>5, <2>6
<1>6. CASE \E t \in {s \in TaskId : Exists(s) /\ EditRight(p, s) # "none"} :
             \E b \in Body, reason \in BOOLEAN : EditLoad(w, p, t, b, reason)
  BY <1>1, <1>6
<1>7. CASE \E t \in TaskId : DeleteLoad(w, p, t)
  BY <1>2, <1>7
<1>8. CASE \E t \in Top, s \in {"todo", "completed"}, pr \in Project \cup {None},
              a \in Person \cup {None}, d \in Date, k \in BOOLEAN :
             CreateLoad(w, p, t, s, pr, [start |-> None, due |-> d], a, k)
  BY <1>4, <1>8
<1>9. CASE \E t \in Sub, parent \in Top, s \in {"todo", "completed"},
              a \in Person \cup {None}, d \in Date :
             SubtaskLoad(w, p, t, parent, s, [start |-> None, due |-> d], a)
  BY <1>5, <1>9
<1> QED
  BY <1>6, <1>7, <1>8, <1>9 DEF LoadStep

LEMMA BoardInvInit ==
  ASSUME BoardAssumption, BoardInit
  PROVE  BoardInv
<1>1. 1 \in 1 .. MaxEdit
  BY BoardAssumption
<1>2. NoTask \in TaskRow /\ NoTask.life = "unborn"
  BY <1>1 DEF NoTask, TaskRow, Progress, Date
<1>3. \A t \in TaskId : Sound(t, NoTask)
  BY <1>2 DEF Sound
<1>4. row \in [TaskId -> TaskRow] /\ \A t \in TaskId : Sound(t, row[t])
  <2>1. CASE row = [s \in TaskId |-> NoTask]
    BY <1>2, <1>3, <2>1
  <2>2. ASSUME NEW t \in Top, NEW p \in Person, NEW pr \in Project \cup {None},
               NEW a \in Person \cup {None}, NEW d \in Date,
               row = [s \in TaskId |-> IF s # t THEN NoTask
                        ELSE [NewRow(p, "todo", [start |-> None, due |-> d], a) EXCEPT !.project = pr]]
        PROVE  row \in [TaskId -> TaskRow] /\ \A s \in TaskId : Sound(s, row[s])
    <3>1. "todo" \in Progress /\ None \in Date /\ None \in Top \cup {None} /\ t \in TaskId /\ TRUE \in BOOLEAN
      BY DEF Progress, Date, TaskId
    <3>2. PICK m : m = NewRow(p, "todo", [start |-> None, due |-> d], a)
      OBVIOUS
    <3>3. PICK n : n = [m EXCEPT !.project = pr]
      OBVIOUS
    <3>4. n \in TaskRow /\ n.life = "live" /\ Sound(t, n)
      <4>1. [start |-> None, due |-> d] \in [start : Date, due : Date]
        BY <3>1
      <4>2. Born(m)
        BY <3>1, <3>2, <4>1, NewRowIsBorn
      <4> QED
        BY <3>1, <3>3, <4>2, BornIsSound
    <3>5. row = [s \in TaskId |-> IF s # t THEN NoTask ELSE n]
      BY <2>2, <3>2, <3>3
    <3> QED
      BY <1>2, <1>3, <3>4, <3>5
  <2>3. CASE \E t \in Top, p \in Person, pr \in Project \cup {None}, a \in Person \cup {None}, d \in Date :
               row = [s \in TaskId |-> IF s # t THEN NoTask
                        ELSE [NewRow(p, "todo", [start |-> None, due |-> d], a) EXCEPT !.project = pr]]
    BY <2>2, <2>3
  <2> QED
    BY <2>1, <2>3 DEF BoardInit
<1>5. work = [w \in Worker |-> NoWork] /\ NoWork.op = "none"
  BY DEF BoardInit, NoWork
<1>6. ASSUME NEW w \in Worker
      PROVE  /\ EditFits(work[w]) /\ NewWaits(w)
             /\ work[w].op = "delete" => work[w].task \in TaskId
  BY <1>5 DEF EditFits, NewWaits
<1>7. RequestsHold
  BY <1>6 DEF RequestsHold
<1>8. role = [p \in Person |-> role[p]] /\ extension = [t \in TaskId |-> extension[t]]
      /\ work = [w \in Worker |-> work[w]]
  BY DEF BoardInit
<1> QED
  BY <1>4, <1>7, <1>8 DEF BoardInv

\* What a step does about deadlines it moves later: see ExtensionsRecorded.
Recorded(t) ==
    (Exists(t) /\ row[t].due # None /\ row'[t].due # None /\ row'[t].due > row[t].due)
    => /\ row'[t].extended = row[t].extended + 1
       /\ \E x \in extension'[t] :
            /\ x.from = row[t].due /\ x.to = row'[t].due
            /\ (row[t].status # "todo" /\ role[x.by] # "owner") => x.reason

\* What a request that ends changed as an assignee: see OnlyWhileAssigned.
Assigned(w) ==
    (work[w].op = "edit" /\ work[w].right = "assignee" /\ row'[work[w].task] # row[work[w].task]
       /\ work'[w] = NoWork)
    => row[work[w].task].assignee = work[w].who

\* What a step keeps.
Keeps == BoardInv' /\ (\A t \in TaskId : Recorded(t)) /\ \A w \in Worker : Assigned(w)

\* A row whose deadline stays needs no record.
LEMMA StillRecorded ==
  ASSUME BoardAssumption, NEW t, row[t] \in TaskRow, row'[t].due \in {row[t].due, None}
  PROVE  Recorded(t)
<1>1. row[t].due # None => row[t].due \in Nat
  BY BoardAssumption DEF TaskRow, Date
<1> QED
  BY <1>1 DEF Recorded

\* A step that ends request w, unless it leaves the requests alone.
LEMMA StepKeeps ==
  ASSUME BoardAssumption, BoardInv, row' \in [TaskId -> TaskRow],
         role' = [p \in Person |-> role'[p]], extension' = [t \in TaskId |-> extension'[t]],
         \A p \in Person : role'[p] = "owner" <=> role[p] = "owner",
         work' = work \/ \E w \in Worker : Done(w) /\ Assigned(w),
         \A t \in TaskId : \/ Moves(row[t], row'[t])
                           \/ row[t].life = "unborn" /\ \A v \in Worker : work'[v].task # t,
         \A t \in TaskId : Sound(t, row'[t]) /\ Recorded(t)
  PROVE  Keeps
<1>1. work = [v \in Worker |-> work[v]]
  BY DEF BoardInv
<1>2. /\ work' = [v \in Worker |-> work'[v]]
      /\ \A v \in Worker : work'[v] = work[v] \/ work'[v] = NoWork
  BY <1>1 DEF Done
<1>3. RequestsHold'
  BY <1>2, RequestsStay
<1>4. ASSUME NEW v \in Worker
      PROVE  Assigned(v)
  <2>1. NoWork.op = "none"
    BY DEF NoWork
  <2>2. work'[v] # work[v] => Assigned(v)
    BY <1>1 DEF Done
  <2>3. work'[v] = work[v] => Assigned(v)
    BY <2>1 DEF Assigned
  <2> QED
    BY <2>2, <2>3
<1>5. BoardInv'
  BY <1>2, <1>3 DEF BoardInv, Sound
<1> QED
  BY <1>4, <1>5 DEF Keeps

LEMMA EditKeeps ==
  ASSUME BoardAssumption, BoardInv, NEW w \in Worker, EditTask(w)
  PROVE  Keeps
<1>1. PICK q : q = work[w]
  OBVIOUS
<1>2. EditFits(q) /\ q.op = "edit" /\ VersionMatches(q)
  BY <1>1 DEF BoardInv, RequestsHold, EditTask
<1>3. PICK t \in TaskId : t = q.task
  BY <1>2 DEF EditFits
<1>4. row \in [TaskId -> TaskRow] /\ \A s \in TaskId : Sound(s, row[s])
  BY DEF BoardInv
<1>5. PICK r \in TaskRow : r = row[t]
  BY <1>4
<1>6. Fits(r, q) /\ r.life = "live"
  BY <1>2, <1>3, <1>5 DEF EditFits, VersionMatches, Exists
<1>7. PICK m \in TaskRow : m = r ++ q.write
  BY <1>6 DEF Fits
<1>8. /\ m.life = "live" /\ Sound(t, m) /\ Logged(r, m, q.log)
      /\ q.right = "assignee" => r.assignee = q.who
  BY <1>3, <1>6, <1>7 DEF Fits
<1>9. PICK later \in Nat : later = r.version + 1
  BY DEF TaskRow
<1>10. PICK u : u = [m EXCEPT !.version = later]
  OBVIOUS
<1>11. later \in 1 .. MaxEdit /\ later > r.version
  <2>1. r.version < MaxEdit
    <3>1. \A s \in Subtasks(t) \cup {t} : row[s].version < MaxEdit
      BY <1>1, <1>3 DEF EditTask
    <3> QED
      BY <1>5, <3>1
  <2>2. r.version \in 1 .. MaxEdit /\ MaxEdit \in Nat
    BY BoardAssumption DEF TaskRow
  <2> QED
    BY <1>9, <2>1, <2>2
<1>12. /\ u \in TaskRow /\ u.version = later
       /\ u.life = m.life /\ u.status = m.status /\ u.finished = m.finished /\ u.note = m.note
       /\ u.due = m.due /\ u.extended = m.extended
  BY <1>10, <1>11 DEF TaskRow
<1>13. "project" \in DOMAIN q.write => q.write["project"] \in Project \cup {None}
  <2>1. "project" \in DOMAIN q.write => (r ++ q.write)["project"] = q.write["project"]
    BY WrittenOver
  <2>2. m["project"] \in Project \cup {None}
    BY DEF TaskRow
  <2> QED
    BY <1>7, <2>1, <2>2
<1>14. row'[t] = u
  BY <1>1, <1>3, <1>5, <1>7, <1>9, <1>10 DEF EditTask
<1>15. ASSUME NEW s \in TaskId, s # t
       PROVE  /\ row'[s] \in TaskRow /\ Moves(row[s], row'[s]) /\ Sound(s, row'[s])
              /\ row'[s].due = row[s].due
  <2>1. PICK x \in TaskRow : x = row[s]
    BY <1>4
  <2>2. CASE row'[s] = row[s]
    BY <1>4, <2>2 DEF Moves
  <2>3. CASE row'[s] # row[s]
    <3>1. PICK pr : pr = q.write.project
      OBVIOUS
    <3>2. s \in Subtasks(t) /\ "project" \in DOMAIN q.write
      BY <1>1, <1>3, <1>15, <2>3 DEF EditTask
    <3>3. PICK new \in Nat : new = x.version + 1
      BY DEF TaskRow
    <3>4. row'[s] = [x EXCEPT !.project = pr, !.version = new]
      BY <1>1, <1>3, <1>15, <2>1, <2>3, <3>1, <3>3 DEF EditTask
    <3>5. new \in 1 .. MaxEdit /\ new > x.version
      <4>1. x.version < MaxEdit
        <5>1. \A v \in Subtasks(t) \cup {t} : row[v].version < MaxEdit
          BY <1>1, <1>3 DEF EditTask
        <5> QED
          BY <2>1, <3>2, <5>1
      <4>2. x.version \in 1 .. MaxEdit /\ MaxEdit \in Nat
        BY BoardAssumption DEF TaskRow
      <4> QED
        BY <3>3, <4>1, <4>2
    <3>6. pr \in Project \cup {None}
      BY <1>13, <3>1, <3>2
    <3>7. PICK y : y = [x EXCEPT !.project = pr, !.version = new]
      OBVIOUS
    <3>8. /\ y \in TaskRow /\ y.version = new /\ y.life = x.life /\ y.status = x.status
          /\ y.finished = x.finished /\ y.note = x.note /\ y.due = x.due
      BY <3>5, <3>6, <3>7 DEF TaskRow
    <3>9. Moves(x, y)
      BY <3>5, <3>8 DEF Moves
    <3>10. Sound(s, y)
      BY <1>4, <2>1, <3>8 DEF Sound
    <3> QED
      BY <2>1, <3>4, <3>7, <3>8, <3>9, <3>10
  <2> QED
    BY <2>2, <2>3
<1>16. row' \in [TaskId -> TaskRow]
  <2>1. \A s \in TaskId : row'[s] \in TaskRow
    BY <1>12, <1>14, <1>15
  <2>2. row' = [s \in TaskId |-> row'[s]]
    BY DEF EditTask
  <2> QED
    BY <2>1, <2>2
<1>17. \A s \in TaskId : Moves(row[s], row'[s])
  <2>1. Moves(r, u)
    BY <1>6, <1>8, <1>11, <1>12 DEF Moves
  <2> QED
    BY <1>5, <1>14, <1>15, <2>1
<1>18. \A s \in TaskId : Sound(s, row'[s])
  <2>1. Sound(t, u)
    BY <1>8, <1>12 DEF Sound
  <2> QED
    BY <1>14, <1>15, <2>1
<1>19. extension' = [s \in TaskId |-> extension'[s]] /\ (q.log # None => q.log \in extension'[t])
  <2>1. extension = [s \in TaskId |-> extension[s]]
    BY DEF BoardInv
  <2>2. extension' = IF q.log = None THEN extension
                     ELSE [extension EXCEPT ![t] = extension[t] \cup {q.log}]
    BY <1>1, <1>3 DEF EditTask
  <2> QED
    BY <2>1, <2>2
<1>20. Recorded(t)
  <2>1. SUFFICES ASSUME r.due # None, u.due # None, u.due > r.due
                 PROVE  /\ u.extended = r.extended + 1
                        /\ \E x \in extension'[t] :
                             /\ x.from = r.due /\ x.to = u.due
                             /\ (r.status # "todo" /\ role[x.by] # "owner") => x.reason
    BY <1>5, <1>14 DEF Recorded
  <2>2. /\ m.extended = r.extended + 1
        /\ q.log # None /\ q.log.from = r.due /\ q.log.to = m.due
        /\ (r.status # "todo" /\ role[q.log.by] # "owner") => q.log.reason
    BY <1>8, <1>12, <2>1 DEF Logged
  <2> QED
    BY <1>12, <1>19, <2>2
<1>21. \A s \in TaskId : Recorded(s)
  BY <1>4, <1>15, <1>20, StillRecorded
<1>22. Assigned(w)
  BY <1>1, <1>3, <1>5, <1>8 DEF Assigned
<1>23. Done(w) /\ role' = role
  BY DEF EditTask
<1> QED
  BY <1>16, <1>17, <1>18, <1>19, <1>21, <1>22, <1>23, StepKeeps DEF BoardInv

LEMMA DeleteKeeps ==
  ASSUME BoardAssumption, BoardInv, NEW w \in Worker, DeleteTask(w)
  PROVE  Keeps
<1>1. PICK q : q = work[w]
  OBVIOUS
<1>2. q.op = "delete" /\ q.task \in TaskId /\ Exists(q.task)
  BY <1>1 DEF BoardInv, RequestsHold, DeleteTask
<1>3. PICK gone : gone = {q.task} \cup Subtasks(q.task)
  OBVIOUS
<1>4. row \in [TaskId -> TaskRow] /\ \A t \in TaskId : Sound(t, row[t])
  BY DEF BoardInv
<1>5. PICK z : z = [NoTask EXCEPT !.life = "deleted"]
  OBVIOUS
<1>6. NoTask \in TaskRow
  <2>1. 1 \in 1 .. MaxEdit
    BY BoardAssumption
  <2> QED
    BY <2>1 DEF NoTask, TaskRow, Progress, Date
<1>7. z \in TaskRow /\ z.life = "deleted" /\ z.due = None
  <2>1. NoTask.due = None
    BY DEF NoTask
  <2> QED
    BY <1>5, <1>6, <2>1 DEF TaskRow
<1>8. row' = [t \in TaskId |-> IF t \in gone THEN z ELSE row[t]]
  BY <1>1, <1>3, <1>5 DEF DeleteTask
<1>9. extension' = [t \in TaskId |-> IF t \in gone THEN {} ELSE extension[t]]
  BY <1>1, <1>3 DEF DeleteTask
<1>10. \A t \in gone : row[t].life = "live"
  BY <1>2, <1>3 DEF Subtasks, Exists
<1>11. row' \in [TaskId -> TaskRow]
  BY <1>4, <1>7, <1>8
<1>12. ASSUME NEW t \in TaskId
       PROVE  Moves(row[t], row'[t]) /\ Sound(t, row'[t]) /\ Recorded(t)
  <2>1. CASE t \in gone
    <3>1. row'[t] = z
      BY <1>8, <2>1
    <3>2. Moves(row[t], row'[t])
      BY <1>7, <1>10, <2>1, <3>1 DEF Moves
    <3>3. Sound(t, row'[t])
      BY <1>7, <3>1 DEF Sound
    <3> QED
      BY <1>4, <1>7, <3>1, <3>2, <3>3, StillRecorded
  <2>2. CASE t \notin gone
    <3>1. row'[t] = row[t]
      BY <1>8, <2>2
    <3> QED
      BY <1>4, <3>1, StillRecorded DEF Moves
  <2> QED
    BY <2>1, <2>2
<1>13. Assigned(w)
  BY <1>1, <1>2 DEF Assigned
<1>14. Done(w) /\ role' = role /\ extension' = [t \in TaskId |-> extension'[t]]
  BY <1>9 DEF DeleteTask
<1> QED
  BY <1>11, <1>12, <1>13, <1>14, StepKeeps DEF BoardInv

LEMMA InsertKeeps ==
  ASSUME BoardAssumption, BoardInv, NEW w \in Worker, CreateTask(w) \/ CreateSubtask(w)
  PROVE  Keeps
<1>1. PICK q : q = work[w]
  OBVIOUS
<1>2. q.op \in {"create", "subtask"} /\ row' = [row EXCEPT ![q.task] = q.write]
  BY <1>1 DEF CreateTask, CreateSubtask
<1>3. /\ q.task \in TaskId /\ row[q.task].life = "unborn"
      /\ q.write \in TaskRow /\ Sound(q.task, q.write)
      /\ \A v \in Worker : v # w => work[v].task # q.task
  BY <1>1, <1>2 DEF BoardInv, RequestsHold, NewWaits
<1>4. row \in [TaskId -> TaskRow] /\ work = [v \in Worker |-> work[v]]
      /\ \A t \in TaskId : Sound(t, row[t])
  BY DEF BoardInv
<1>5. Done(w) /\ UNCHANGED <<role, extension>>
  BY DEF CreateTask, CreateSubtask
<1>6. row' \in [TaskId -> TaskRow]
  BY <1>2, <1>3, <1>4
<1>7. \A v \in Worker : work'[v].task # q.task
  <2>1. NoWork.task = None /\ None # q.task
    BY <1>3, BoardAssumption DEF NoWork, TaskId
  <2> QED
    BY <1>3, <1>4, <1>5, <2>1 DEF Done
<1>8. ASSUME NEW t \in TaskId
      PROVE  /\ \/ Moves(row[t], row'[t])
                \/ row[t].life = "unborn" /\ \A v \in Worker : work'[v].task # t
             /\ Sound(t, row'[t]) /\ Recorded(t)
  <2>1. CASE t = q.task
    BY <1>2, <1>3, <1>4, <1>7, <2>1 DEF Recorded, Exists
  <2>2. CASE t # q.task
    <3>1. row'[t] = row[t]
      BY <1>2, <1>4, <2>2
    <3> QED
      BY <1>4, <3>1, StillRecorded DEF Moves
  <2> QED
    BY <2>1, <2>2
<1>9. Assigned(w)
  BY <1>1, <1>2 DEF Assigned
<1> QED
  BY <1>5, <1>6, <1>8, <1>9, StepKeeps DEF BoardInv

LEMMA GiveUpKeeps ==
  ASSUME BoardAssumption, BoardInv, NEW w \in Worker, GiveUp(w)
  PROVE  Keeps
<1>1. Done(w) /\ UNCHANGED <<role, row, extension>>
  BY DEF GiveUp
<1>2. row \in [TaskId -> TaskRow]
  BY DEF BoardInv
<1>3. \A t \in TaskId : Recorded(t)
  BY <1>1, <1>2, StillRecorded
<1>4. \A t \in TaskId : Moves(row[t], row'[t])
  BY <1>1 DEF Moves
<1>5. Assigned(w)
  BY <1>1 DEF Assigned
<1> QED
  BY <1>1, <1>2, <1>3, <1>4, <1>5, StepKeeps DEF BoardInv

LEMMA LeaveKeeps ==
  ASSUME BoardAssumption, BoardInv, NEW p \in Person, MemberLeaves(p)
  PROVE  Keeps
<1>1. row \in [TaskId -> TaskRow] /\ role = [x \in Person |-> role[x]]
      /\ \A t \in TaskId : Sound(t, row[t])
  BY DEF BoardInv
<1>2. UNCHANGED <<extension, work>> /\ role[p] \in {"admin", "member"} /\ role' = [role EXCEPT ![p] = "gone"]
  BY DEF MemberLeaves
<1>3. \A x \in Person : role'[x] = "owner" <=> role[x] = "owner"
  BY <1>1, <1>2
<1>4. ASSUME NEW t \in TaskId
      PROVE  /\ row'[t] \in TaskRow /\ Moves(row[t], row'[t]) /\ Sound(t, row'[t])
             /\ row'[t].due = row[t].due
  <2>1. CASE row'[t] = row[t]
    BY <1>1, <2>1 DEF Moves
  <2>2. CASE row'[t] # row[t]
    <3>1. PICK x \in TaskRow : x = row[t]
      BY <1>1
    <3>2. PICK new \in Nat : new = x.version + 1
      BY DEF TaskRow
    <3>3. x.version < MaxEdit /\ row'[t] = [x EXCEPT !.assignee = None, !.version = new]
      BY <2>2, <3>1, <3>2 DEF MemberLeaves
    <3>4. new \in 1 .. MaxEdit /\ new > x.version
      <4>1. x.version \in 1 .. MaxEdit /\ MaxEdit \in Nat
        BY BoardAssumption DEF TaskRow
      <4> QED
        BY <3>2, <3>3, <4>1
    <3>5. PICK y : y = [x EXCEPT !.assignee = None, !.version = new]
      OBVIOUS
    <3>6. /\ y \in TaskRow /\ y.version = new /\ y.life = x.life /\ y.status = x.status
          /\ y.finished = x.finished /\ y.note = x.note /\ y.due = x.due
      BY <3>4, <3>5 DEF TaskRow
    <3>7. Moves(x, y)
      BY <3>4, <3>6 DEF Moves
    <3>8. Sound(t, y)
      BY <1>1, <3>1, <3>6 DEF Sound
    <3> QED
      BY <3>1, <3>3, <3>5, <3>6, <3>7, <3>8
  <2> QED
    BY <2>1, <2>2
<1>5. row' \in [TaskId -> TaskRow]
  <2>1. row' = [t \in TaskId |-> row'[t]]
    BY DEF MemberLeaves
  <2> QED
    BY <1>4, <2>1
<1>6. \A t \in TaskId : Recorded(t)
  BY <1>1, <1>4, StillRecorded
<1> QED
  BY <1>1, <1>2, <1>3, <1>4, <1>5, <1>6, StepKeeps DEF BoardInv

\* Every step of the board keeps the invariant, records the deadlines it moves
\* later and lets nobody edit what is no longer theirs.
LEMMA BoardKeeps ==
  ASSUME BoardAssumption, RecordsAreNotNull, BoardInv, [BoardNext]_boardVars
  PROVE  Keeps
<1>1. ASSUME NEW w \in Worker, work[w] = NoWork, NEW p \in Person,
             LoadStep(w, p, {"edit", "delete", "create", "subtask"}, Body)
      PROVE  Keeps
  <2>1. BoardInv'
    BY <1>1, LoadKeeps
  <2>2. row' = row
    <3>1. ASSUME NEW t, NEW b, NEW reason, EditLoad(w, p, t, b, reason)
          PROVE  row' = row
      BY <3>1 DEF EditLoad, Start
    <3>2. ASSUME NEW t, DeleteLoad(w, p, t)
          PROVE  row' = row
      BY <3>2 DEF DeleteLoad, Start
    <3>3. ASSUME NEW t, NEW op, NEW n, Insert(w, p, t, op, n)
          PROVE  row' = row
      BY <3>3 DEF Insert, Start
    <3>4. ASSUME NEW t, NEW s, NEW pr, NEW d, NEW a, NEW k,
                 CreateLoad(w, p, t, s, pr, [start |-> None, due |-> d], a, k)
          PROVE  row' = row
      BY <3>3, <3>4 DEF CreateLoad
    <3>5. ASSUME NEW t, NEW parent, NEW s, NEW d, NEW a,
                 SubtaskLoad(w, p, t, parent, s, [start |-> None, due |-> d], a)
          PROVE  row' = row
      BY <3>3, <3>5 DEF SubtaskLoad
    <3>6. CASE \E t \in Top, s \in {"todo", "completed"}, pr \in Project \cup {None},
                  a \in Person \cup {None}, d \in Date, k \in BOOLEAN :
                 CreateLoad(w, p, t, s, pr, [start |-> None, due |-> d], a, k)
      BY <3>4, <3>6
    <3>7. CASE \E t \in Sub, parent \in Top, s \in {"todo", "completed"},
                  a \in Person \cup {None}, d \in Date :
                 SubtaskLoad(w, p, t, parent, s, [start |-> None, due |-> d], a)
      BY <3>5, <3>7
    <3> QED
      BY <1>1, <3>1, <3>2, <3>6, <3>7 DEF LoadStep
  <2>3. \A t \in TaskId : Recorded(t)
    BY <2>2, StillRecorded DEF BoardInv
  <2>4. \A v \in Worker : Assigned(v)
    BY <2>2 DEF Assigned
  <2> QED
    BY <2>1, <2>3, <2>4 DEF Keeps
<1>2. ASSUME NEW w \in Worker, CommitStep(w)
      PROVE  Keeps
  BY <1>2, EditKeeps, DeleteKeeps, InsertKeeps, GiveUpKeeps DEF CommitStep
<1>3. ASSUME NEW p \in Person, MemberLeaves(p)
      PROVE  Keeps
  BY <1>3, LeaveKeeps
<1>4. CASE UNCHANGED boardVars
  <2>1. UNCHANGED <<role, row, extension, work>>
    BY <1>4 DEF boardVars
  <2>2. row \in [TaskId -> TaskRow]
    BY DEF BoardInv
  <2>3. \A t \in TaskId : Recorded(t) /\ Moves(row[t], row'[t])
    BY <2>1, <2>2, StillRecorded DEF Moves
  <2> QED
    BY <2>1, <2>2, <2>3, StepKeeps DEF BoardInv
<1> QED
  BY <1>1, <1>2, <1>3, <1>4 DEF BoardNext, BoardStep

\* A task is completed exactly when it carries its completion time, and a top-level
\* one then has its note, although a status change and a note edit are computed
\* from a row that may have changed when they are written (task.controller.ts:343):
\* an edit that is written finds the version its fields were computed for.
THEOREM CompletionsAgree ==
  ASSUME BoardAssumption, RecordsAreNotNull
  PROVE  BoardSpec => []CompletionConsistent
<1>1. BoardInit => BoardInv
  BY BoardInvInit
<1>2. BoardInv /\ [BoardNext]_boardVars => BoardInv'
  BY BoardKeeps DEF Keeps
<1>3. BoardInv => CompletionConsistent
  <2>1. SUFFICES ASSUME BoardInv, NEW t \in TaskId, Exists(t)
                 PROVE  /\ row[t].finished <=> row[t].status = "completed"
                        /\ row[t].note => row[t].finished
                        /\ (t \in Top /\ row[t].finished) => row[t].note
    BY DEF CompletionConsistent
  <2>2. Sound(t, row[t])
    BY <2>1 DEF BoardInv
  <2> QED
    BY <2>1, <2>2 DEF Sound, Exists
<1> QED
  BY <1>1, <1>2, <1>3, PTL DEF BoardSpec

\* Whoever may edit a task only because it is assigned to them changes nothing
\* once it was reassigned or they have left, not even by a request that was checked
\* before: taking the task from them gave it a new version (taskPermissions.ts,
\* member.controller.ts:33).
THEOREM AssigneesOnly ==
  ASSUME BoardAssumption, RecordsAreNotNull
  PROVE  BoardSpec => OnlyWhileAssigned
<1>1. BoardInit => BoardInv
  BY BoardInvInit
<1>2. BoardInv /\ [BoardNext]_boardVars => BoardInv'
  BY BoardKeeps DEF Keeps
<1>3. BoardInv /\ [BoardNext]_boardVars
      => [\A w \in Worker :
            LET q == work[w] IN
            (q.op = "edit" /\ q.right = "assignee" /\ row'[q.task] # row[q.task] /\ work'[w] = NoWork)
            => row[q.task].assignee = q.who]_boardVars
  BY BoardKeeps DEF Keeps, Assigned
<1> QED
  BY <1>1, <1>2, <1>3, PTL DEF BoardSpec, OnlyWhileAssigned

\* Every time a deadline is moved later, one extension keeps the deadline that was
\* really replaced, and a reason if work had started and it was not the Owner who
\* moved it, however many edits are on their way (task.controller.ts:690-720).
THEOREM ExtensionsAreKept ==
  ASSUME BoardAssumption, RecordsAreNotNull
  PROVE  BoardSpec => ExtensionsRecorded
<1>1. BoardInit => BoardInv
  BY BoardInvInit
<1>2. BoardInv /\ [BoardNext]_boardVars => BoardInv'
  BY BoardKeeps DEF Keeps
<1>3. BoardInv /\ [BoardNext]_boardVars
      => [\A t \in TaskId :
            (Exists(t) /\ row[t].due # None /\ row'[t].due # None /\ row'[t].due > row[t].due)
            => /\ row'[t].extended = row[t].extended + 1
               /\ \E x \in extension'[t] :
                    /\ x.from = row[t].due /\ x.to = row'[t].due
                    /\ (row[t].status # "todo" /\ role[x.by] # "owner") => x.reason]_boardVars
  BY BoardKeeps DEF Keeps, Recorded
<1> QED
  BY <1>1, <1>2, <1>3, PTL DEF BoardSpec, ExtensionsRecorded
===============================================================================

----------------------------- MODULE Conversation -----------------------------
(***************************************************************************)
(* The comments on one task: posting, editing and deleting them with their *)
(* mentions, the live event that follows each change, and the threads open *)
(* in people's tabs, which reload on it.                                   *)
(*                                                                         *)
(* Sources: controllers/comment.controller.ts, services/realtimeService.ts *)
(* (the bus and the streams) and notifyMentions of                         *)
(* services/notificationService.ts under src/server/src;                   *)
(* components/tasks/TaskComments.tsx and the stream of                     *)
(* context/LiveUpdatesContext.tsx under src/client/src.                    *)
(*                                                                         *)
(* A text is a number; drafts and the archiving of the task's project are  *)
(* left out, and so is the suspension of an account that is mentioned.     *)
(***************************************************************************)
EXTENDS Naturals, Sequences, SequencesExt

CONSTANTS
    Reader,       \* people with a membership in the workspace, a tab each
    Slot,         \* calls in flight at the same time, of all tabs together
    MaxComment,   \* bounds the comments
    MaxText,      \* texts are 1 .. MaxText; 0 is no text
    MaxEvent,     \* bounds the events on the bus and in a tab
    Nobody        \* no person, no thread loaded

ASSUME ConversationAssumption ==
    /\ MaxComment \in Nat /\ MaxText \in Nat \ {0} /\ MaxEvent \in Nat \ {0}
    /\ Nobody \notin Reader

VARIABLES
    standing,     \* what each person is in the workspace
    comment,      \* the Comment rows with their CommentMention rows
    heard,        \* the comment_mention notifications
    thread,       \* the thread in each tab
    stream,       \* is the tab's event stream connected
    bus,          \* events published and not yet delivered
    due,          \* events delivered to each tab and not yet handled
    request       \* the calls in flight

conversationVars == <<standing, comment, heard, thread, stream, bus, due, request>>
served == <<standing, comment, heard>>

-------------------------------------------------------------------------------
(* Rows, threads and calls *)

CommentId == 1 .. MaxComment
Text      == 0 .. MaxText

\* `edits' tells the events of a comment's edits apart (the updatedAt in their key).
CommentRow == [life : {"unborn", "live", "deleted"}, by : Reader \cup {Nobody},
               text : Text, names : SUBSET Reader, edits : Nat]
NoComment  == [life |-> "unborn", by |-> Nobody, text |-> 0, names |-> {}, edits |-> 0]

\* toCommentResponse: a deleted comment keeps its place, never its text.
CopyOf(c, row) == [id |-> c, gone |-> row.life = "deleted",
                   text |-> IF row.life = "deleted" THEN 0 ELSE row.text]
CommentCopy    == [id : CommentId, gone : BOOLEAN, text : Text]

\* A thread that is not loaded is told from an empty one.
ASSUME NobodyIsNoList == Nobody \notin Seq(CommentCopy)

\* `crossed' and `missed' tell that since the thread opened two of its loads were
\* in flight together, or its stream was down.
Thread == [open : BOOLEAN, shown : {Nobody} \cup Seq(CommentCopy), failed : BOOLEAN,
           crossed : BOOLEAN, missed : BOOLEAN]
Shut   == [open |-> FALSE, shown |-> Nobody, failed |-> FALSE, crossed |-> FALSE, missed |-> FALSE]

\* `mine': the thread that sent it is still the one on the page; `seen': the
\* text and the mentions of the comment to edit, as the handler loaded it.
Unseen == [text |-> 0, names |-> {}]
NoCall == [at |-> "free", kind |-> "none", by |-> Nobody, mine |-> FALSE, id |-> 0,
           text |-> 0, names |-> {}, seen |-> Unseen, answer |-> <<>>]

Live(c)   == comment[c].life = "live"
InTeam(p) == standing[p] # "gone"

ConversationTypeOK ==
    /\ standing \in [Reader -> {"manager", "member", "gone"}]
    /\ comment \in [CommentId -> CommentRow]
    /\ heard \subseteq [of : CommentId, event : Nat, to : Reader]
    /\ \A p \in Reader : thread[p] \in Thread /\ (~thread[p].open => thread[p] = Shut)
    /\ stream \in [Reader -> BOOLEAN]
    /\ bus \in 0 .. MaxEvent /\ due \in [Reader -> 0 .. MaxEvent]
    /\ \A s \in Slot : request[s] # NoCall =>
         /\ request[s].at \in {"sent", "loaded", "done", "failed"}
         /\ request[s].kind \in {"load", "post", "edit", "delete"}
         /\ request[s].by \in Reader /\ request[s].id \in CommentId \cup {0}
         /\ request[s].text \in Text /\ request[s].names \subseteq Reader
         /\ request[s].answer \in Seq(CommentCopy)

-------------------------------------------------------------------------------
(* In the tab *)

Puts(s, q)  == request' = [request EXCEPT ![s] = q]
Sends(s, p, kind, c, text, names) ==
    /\ request[s] = NoCall
    /\ Puts(s, [NoCall EXCEPT !.at = "sent", !.kind = kind, !.by = p, !.mine = TRUE,
                              !.id = c, !.text = text, !.names = names])

Pending(p, kind) == {s \in Slot : request[s].by = p /\ request[s].mine /\ request[s].kind = kind}

\* loadComments: nothing keeps one load from overtaking another.
Loads(s, p, t) ==
    /\ Sends(s, p, "load", 0, 0, {})
    /\ thread' = [thread EXCEPT ![p] =
                    [t EXCEPT !.crossed = t.crossed \/ Pending(p, "load") # {}]]

OpenThread(s, p) ==
    /\ ~thread[p].open
    /\ Loads(s, p, [Shut EXCEPT !.open = TRUE, !.missed = ~stream[p]])
    /\ UNCHANGED <<served, stream, bus, due>>

\* The calls go on without it; a load has nothing left to do.
CloseThread(p) ==
    /\ thread[p].open
    /\ thread' = [thread EXCEPT ![p] = Shut]
    /\ request' = [s \in Slot |-> IF request[s].by # p THEN request[s]
                                  ELSE IF request[s].kind = "load" THEN NoCall
                                  ELSE [request[s] EXCEPT !.mine = FALSE]]
    /\ UNCHANGED <<served, stream, bus, due>>

TryAgain(s, p) ==
    /\ thread[p].open /\ thread[p].failed
    /\ Loads(s, p, thread[p])
    /\ UNCHANGED <<served, stream, bus, due>>

\* The "comment" event: an open thread reloads.
HandleEvent(s, p) ==
    /\ due[p] > 0
    /\ due' = [due EXCEPT ![p] = due[p] - 1]
    /\ IF thread[p].open THEN Loads(s, p, thread[p]) ELSE UNCHANGED <<thread, request>>
    /\ UNCHANGED <<served, stream, bus>>

Post(s, p, text, names) ==
    /\ thread[p].open /\ Pending(p, "post") = {}
    /\ Sends(s, p, "post", 0, text, names)
    /\ UNCHANGED <<served, thread, stream, bus, due>>

\* The buttons under a comment that is shown: its author's, or a manager's.
Shows(p, c) == /\ thread[p].open /\ thread[p].shown # Nobody
               /\ \E x \in ToSet(thread[p].shown) : x.id = c /\ ~x.gone
IsBusy(p, kind, c) == \E s \in Pending(p, kind) : request[s].id = c

SaveEdit(s, p, c, text, names) ==
    /\ Shows(p, c) /\ comment[c].by = p /\ ~IsBusy(p, "edit", c)
    /\ Sends(s, p, "edit", c, text, names)
    /\ UNCHANGED <<served, thread, stream, bus, due>>

Withdraw(s, p, c) ==
    /\ Shows(p, c) /\ ~IsBusy(p, "delete", c)
    /\ comment[c].by = p \/ standing[p] = "manager"
    /\ Sends(s, p, "delete", c, 0, {})
    /\ UNCHANGED <<served, thread, stream, bus, due>>

\* Every answer, in a thread that is still there: a load shows the list, a post
\* adds what was posted, an edit and a delete replace the comment.
ShownAfter(q, shown) ==
    LET list == IF shown = Nobody THEN <<>> ELSE shown
    IN  CASE q.kind = "load" -> q.answer
          [] q.kind = "post" -> list \o q.answer
          [] OTHER -> [i \in DOMAIN list |-> IF list[i].id = q.id THEN q.answer[1] ELSE list[i]]

TakeAnswer(s) ==
    LET q == request[s]
        t == thread[q.by]
    IN
    /\ q.at \in {"done", "failed"}
    /\ Puts(s, NoCall)
    /\ thread' = [thread EXCEPT ![q.by] =
                    IF ~q.mine THEN t
                    ELSE IF q.at = "done"
                    THEN [t EXCEPT !.shown = ShownAfter(q, t.shown),
                                   !.failed = t.failed /\ q.kind # "load"]
                    ELSE [t EXCEPT !.failed = t.failed \/ q.kind = "load"]]
    /\ UNCHANGED <<served, stream, bus, due>>

-------------------------------------------------------------------------------
(* On the server *)

Returns(s, at, answer) ==
    Puts(s, [request[s] EXCEPT !.at = at, !.answer = answer, !.text = 0, !.names = {},
                               !.seen = Unseen])
Answers(s, answer) == Returns(s, "done", answer)

\* Refused, lost on the way, or its answer lost.
Fail(s) ==
    /\ request[s].at \in {"sent", "loaded", "done"}
    /\ Returns(s, "failed", <<>>)
    /\ UNCHANGED <<served, thread, stream, bus, due>>

Written == CHOOSE n \in 0 .. MaxComment :
             \A c \in CommentId : (comment[c].life # "unborn") = (c <= n)

ListComments(s) ==
    /\ request[s].at = "sent" /\ request[s].kind = "load" /\ InTeam(request[s].by)
    /\ Answers(s, [c \in 1 .. Written |-> CopyOf(c, comment[c])])
    /\ UNCHANGED <<served, thread, stream, bus, due>>

\* The checks of createComment, editComment and deleteComment, with what they load.
CheckComment(s) ==
    LET q == request[s] IN
    /\ q.at = "sent" /\ q.kind \in {"post", "edit", "delete"} /\ InTeam(q.by)
    /\ \A p \in q.names : InTeam(p)
    /\ q.kind # "post"  => Live(q.id)
    /\ q.kind = "edit"  => comment[q.id].by = q.by
    /\ q.kind = "delete" => comment[q.id].by = q.by \/ standing[q.by] = "manager"
    /\ Puts(s, [q EXCEPT !.at = "loaded",
                         !.seen = IF q.kind # "edit" THEN Unseen
                                  ELSE [text |-> comment[q.id].text, names |-> comment[q.id].names]])
    /\ UNCHANGED <<served, thread, stream, bus, due>>

\* notifyMentions: the ones that are members, never the author.
Notes(c, event, names, by) ==
    {[of |-> c, event |-> event, to |-> p] : p \in {n \in names \ {by} : InTeam(n)}}

\* One transaction, then the event.
Writes(s, c, row, notes) ==
    /\ comment' = [comment EXCEPT ![c] = row]
    /\ heard' = heard \cup notes
    /\ bus < MaxEvent /\ bus' = bus + 1
    /\ Answers(s, <<CopyOf(c, row)>>)
    /\ UNCHANGED <<standing, thread, stream, due>>

CreateComment(s) ==
    LET q == request[s]
        c == Written + 1
    IN
    /\ q.at = "loaded" /\ q.kind = "post" /\ c \in CommentId
    /\ Writes(s, c, [NoComment EXCEPT !.life = "live", !.by = q.by, !.text = q.text, !.names = q.names],
             Notes(c, 0, q.names, q.by))

\* Mutant: those the edit no longer mentions hear of it.
DroppedNames(q) == q.seen.names \ q.names

\* Those the comment did not mention when it was loaded hear of the edit.
NewNames(q) == q.names \ q.seen.names

EditComment(s) ==
    LET q   == request[s]
        row == comment[q.id]
    IN
    /\ q.at = "loaded" /\ q.kind = "edit"
    /\ Writes(s, q.id, [row EXCEPT !.names = q.names, !.edits = row.edits + 1,
                                  !.text = IF q.text # q.seen.text THEN q.text ELSE row.text],
             Notes(q.id, row.edits + 1, NewNames(q), q.by))

DeleteComment(s) ==
    LET q == request[s] IN
    /\ q.at = "loaded" /\ q.kind = "delete"
    /\ Writes(s, q.id, [comment[q.id] EXCEPT !.life = "deleted", !.text = 0, !.names = {}], {})

-------------------------------------------------------------------------------
(* The bus and the streams *)

\* Mutant: an event goes to the tabs of plain members only.
ReachesMembers(p) == stream[p] /\ standing[p] = "member"

\* deliverLocally: whoever is connected and has a membership row in the workspace.
Reaches(p) == stream[p]

Deliver ==
    /\ bus > 0
    /\ \A p \in Reader : due[p] < MaxEvent
    /\ bus' = bus - 1
    /\ due' = [p \in Reader |-> IF Reaches(p) THEN due[p] + 1 ELSE due[p]]
    /\ UNCHANGED <<served, thread, stream, request>>

\* The stream drops, or an event is lost on the bus.
Drop(p) ==
    /\ stream[p]
    /\ stream' = [stream EXCEPT ![p] = FALSE]
    /\ thread' = [thread EXCEPT ![p].missed = thread[p].open]
    /\ UNCHANGED <<served, bus, due, request>>

\* Connecting again does not reload anything.
Reconnect(p) ==
    /\ ~stream[p]
    /\ stream' = [stream EXCEPT ![p] = TRUE]
    /\ UNCHANGED <<served, thread, bus, due, request>>

Depart(p) ==
    /\ InTeam(p)
    /\ standing' = [standing EXCEPT ![p] = "gone"]
    /\ UNCHANGED <<comment, heard, thread, stream, bus, due, request>>

-------------------------------------------------------------------------------

ConversationInit ==
    /\ standing \in [Reader -> {"manager", "member"}]
    /\ comment = [c \in CommentId |-> NoComment]
    /\ heard = {}
    /\ thread = [p \in Reader |-> Shut]
    /\ stream \in [Reader -> BOOLEAN]
    /\ bus = 0 /\ due = [p \in Reader |-> 0]
    /\ request = [s \in Slot |-> NoCall]

TabStep(s, p) ==
    \/ OpenThread(s, p) \/ TryAgain(s, p) \/ HandleEvent(s, p)
    \/ \E t \in Text \ {0}, n \in SUBSET Reader : Post(s, p, t, n)
    \/ \E c \in CommentId, t \in Text \ {0}, n \in SUBSET Reader : SaveEdit(s, p, c, t, n)
    \/ \E c \in CommentId : Withdraw(s, p, c)

ServerStep(s) ==
    \/ ListComments(s) \/ CheckComment(s)
    \/ CreateComment(s) \/ EditComment(s) \/ DeleteComment(s)
    \/ Fail(s) \/ TakeAnswer(s)

ConversationNext ==
    \/ \E s \in {x \in Slot : request[x] = NoCall}, p \in Reader : TabStep(s, p)
    \/ \E s \in Slot : ServerStep(s)
    \/ \E p \in Reader : CloseThread(p) \/ Drop(p) \/ Reconnect(p) \/ Depart(p)
    \/ Deliver

ConversationSpec == ConversationInit /\ [][ConversationNext]_conversationVars

-------------------------------------------------------------------------------
(* What must hold *)

\* Nothing is on its way to the thread of p.
Quiet(p) == bus = 0 /\ due[p] = 0 /\ Pending(p, "load") = {}

Complete(p) == \A c \in CommentId : Live(c) => c \in {x.id : x \in ToSet(thread[p].shown)}

Watching(p) == thread[p].open /\ thread[p].shown # Nobody /\ ~thread[p].failed /\ ~thread[p].missed

\* Anyone with the task open sees the new comment without reloading
\* (comment.controller.ts:145), as long as the loads of their thread do not overlap
\* and their stream is up.
SeesNewComment ==
    \A p \in Reader : (Watching(p) /\ ~thread[p].crossed /\ Quiet(p)) => Complete(p)

\* Whoever a comment mentions, and has not left, was told of it at least once: no
\* two edits that cross leave a mention nobody heard of (SRS SR08).
MentionHeard ==
    \A c \in CommentId : Live(c) =>
      \A p \in comment[c].names \ {comment[c].by} :
        InTeam(p) => \E n \in heard : n.of = c /\ n.to = p
===============================================================================

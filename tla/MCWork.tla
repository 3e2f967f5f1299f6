-------------------------------- MODULE MCWork --------------------------------
(***************************************************************************)
(* Small instances of TaskBoard, TaskDrawer and Conversation for TLC.  As  *)
(* in MCAccounts a behaviour follows one scenario, chosen at the start:    *)
(*   assigning, dating, splitting, submitting   one of the board's concerns *)
(*   drawing     the drawers                                               *)
(*   watching    one person's thread while another posts                   *)
(*   naming      one person's posts and edits, and whom they mention       *)
(***************************************************************************)
EXTENDS TaskBoard, TaskDrawer, Conversation, TLC

CONSTANT Writer  \* who posts, in the last two

VARIABLE scenario

workVars == <<boardVars, drawerVars, conversationVars, scenario>>

\* What the requests of each of the board's scenarios do, and which field their
\* edits change.
BoardOps == [assigning  |-> {"edit"}, dating |-> {"edit"},
             splitting  |-> {"edit", "subtask", "delete"},
             submitting |-> {"create", "delete"}]
Bodies   == [assigning  |-> {b \in Body : DOMAIN b \subseteq {"assignee", "status", "note"}},
             dating     |-> {b \in Body : DOMAIN b \subseteq {"due", "status", "note"}},
             splitting  |-> {b \in Body : DOMAIN b = {"project"}},
             submitting |-> {}]

\* What a scenario is not about is left unset.
Plain(new) ==
    /\ scenario # "assigning" => new.assignee = None
    /\ scenario # "splitting" => new.project = None
    /\ scenario # "dating"    => new.due = None

Watcher == Reader \ {Writer}

WorkInit ==
    /\ BoardInit /\ DrawerInit /\ ConversationInit
    /\ scenario \in DOMAIN BoardOps \cup {"drawing", "watching", "naming"}
    /\ \A t \in TaskId : Plain(row[t])
    /\ \E p \in Person : role[p] = "member"
    /\ (\E p \in Person : role[p] = "owner") <=> scenario = "dating"
    /\ (\A t \in TaskId : ~Exists(t)) <=> scenario \notin {"assigning", "dating", "splitting"}
    /\ scenario \notin DOMAIN BoardOps => \A p \in Person : role[p] = "member"
    /\ stream = [p \in Reader |-> scenario = "watching" /\ p # Writer]
    /\ standing[Writer] = "member"
    /\ scenario # "naming" => \A p \in Watcher : standing[p] = "manager"

InScenario(q) == q.op \in {"create", "subtask"} =>
    q.write.status = "todo" /\ Plain(q.write) /\ (q.write.keyed \/ q.write.parent # None)

OnBoard == /\ BoardStep(BoardOps[scenario], Bodies[scenario])
           /\ \A w \in Worker : InScenario(work'[w])
           /\ scenario # "assigning" => role' = role

\* The writer posts, from a thread that stays open; the watcher deletes the first
\* comment; only the watcher's loads fail.
Watched(q) ==
    /\ q.kind # "edit" /\ q.text <= 1 /\ q.names = {}
    /\ q.at = "failed" => q.kind = "load" /\ q.by \in Watcher
    /\ q.by = Writer   => q.kind \in {"load", "post"}
    /\ q.by \in Watcher => q.kind \in {"load", "delete"} /\ q.id <= 1

WatchingOne ==
    /\ UNCHANGED standing /\ ~stream'[Writer]
    /\ thread[Writer].open => thread'[Writer].open
    /\ \A s \in Slot : Watched(request'[s])

\* One comment, posted with text 1 and edited twice to text 2, and nobody watches.
Named(q) ==
    /\ q.names \subseteq Watcher
    /\ q.kind = "post" => q.text <= 1 /\ q.at # "failed"
    /\ q.kind = "edit" => q.text # 1
    /\ q.kind \in {"load", "delete"} => q.at # "failed"

NamingOne ==
    /\ UNCHANGED stream /\ bus' <= 1 /\ comment'[2].life = "unborn" /\ comment'[1].edits <= 2
    /\ \A p \in Watcher : ~thread'[p].open
    /\ \A s \in Slot : Named(request'[s])

WorkNext ==
    /\ \/ /\ scenario \in DOMAIN BoardOps /\ OnBoard
          /\ UNCHANGED <<drawerVars, conversationVars>>
       \/ /\ scenario = "drawing" /\ DrawerNext
          /\ UNCHANGED <<boardVars, conversationVars>>
       \/ /\ scenario \in {"watching", "naming"} /\ ConversationNext
          /\ (IF scenario = "watching" THEN WatchingOne ELSE NamingOne)
          /\ UNCHANGED <<boardVars, drawerVars>>
    /\ UNCHANGED scenario

WorkSpec == WorkInit /\ [][WorkNext]_workVars

\* One set of values stands for people and what their forms hold, another for
\* request slots and the form's fields.
Interchangeable == Permutations(Person) \cup Permutations(Worker)
===============================================================================

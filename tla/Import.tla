-------------------------------- MODULE Import --------------------------------
(***************************************************************************)
(* The one-off import of users and tasks from the old MongoDB, while the   *)
(* new application may already take sign-ups and the old one may still     *)
(* change its data.  It goes through the users and then the tasks in the   *)
(* order of their ids, one statement at a time, may die between any two,   *)
(* and is then started again; every row is upserted on its source id.      *)
(*                                                                         *)
(* Imported accounts are not used before an import ended with nothing      *)
(* skipped, as the script asks.  A dry run writes nothing and is left out; *)
(* the links the old server mailed are carried over with their account and *)
(* are left out too.                                                       *)
(***************************************************************************)
EXTENDS Naturals, FiniteSets

CONSTANTS
    LastUser,       \* ids of source users: 1 to this
    LastTask,       \* ids of source tasks: 1 to this
    Mailbox,        \* email addresses
    NoMailbox,      \* the address of a user that cannot be mapped
    Absent,         \* an id the source does not have
    MaxImports,     \* bound: runs of the script
    MaxEdits        \* bound: changes of the source

ASSUME ImportBounds == /\ LastUser \in Nat \ {0} /\ LastTask \in Nat \ {0}
                       /\ MaxImports \in Nat /\ MaxEdits \in Nat

VARIABLES
    mongo,          \* the source
    accounts,       \* users of the new application; legacy 0: signed up in it
    homes,          \* workspaces the import made: [of, no], of a legacy id
    imported,       \* [source task -> its row in the new application]
    importer        \* the run of the script

importVars == <<mongo, accounts, homes, imported, importer>>

Users == 1..LastUser
Tasks == 1..LastTask
Homes == [of : Users, no : 1..MaxImports]

ASSUME AbsentIsNoRow == Absent \notin [home : Homes, of : Users, says : 1..2]

\* A task is its owner and what it says; owner 0: it has none, or cannot be
\* mapped for another reason.
UserDocs == [Users -> Mailbox \cup {NoMailbox, Absent}]
TaskDocs == [Tasks -> [of : 0..LastUser, says : 1..2] \cup {Absent}]
Source == [users : UserDocs, tasks : TaskDocs, live : BOOLEAN, edits : 0..MaxEdits]

\* `at': the next statement, for the user or task `id' of the batch that was
\* read before (here a batch holds them all).  `home': the workspace of each
\* imported account, as read before the tasks.  `quiet': started when the old
\* server had been stopped.
Importer == [at : {"stopped", "look", "save", "house", "build", "owners", "tasks", "done"},
             id : 1..(LastUser + LastTask + 1), skipped : BOOLEAN, quiet : BOOLEAN, no : 0..MaxImports,
             users : UserDocs, tasks : TaskDocs, home : [Users -> Homes \cup {Absent}]]

NoUsers == [u \in Users |-> Absent]
NoTasks == [t \in Tasks |-> Absent]

ImportTypeOK ==
    /\ mongo \in Source
    /\ accounts \subseteq [legacy : 0..LastUser, email : Mailbox]
    /\ homes \subseteq Homes
    /\ imported \in [Tasks -> [home : Homes, of : Users, says : 1..2] \cup {Absent}]
    /\ importer \in Importer

-----------------------------------------------------------------------------
AccountOf(u) == {a \in accounts : a.legacy = u}
HomesOf(u) == {h \in homes : h.of = u}

\* The next user, or the tasks when there is none.
After(i) == IF i.id < LastUser THEN [i EXCEPT !.at = "look", !.id = i.id + 1]
                               ELSE [i EXCEPT !.at = "owners"]
AfterTask(i) == IF i.id < LastTask THEN [i EXCEPT !.id = i.id + 1] ELSE [i EXCEPT !.at = "done"]
Skip(i) == [i EXCEPT !.skipped = TRUE]

StartImport ==
    /\ importer.at \in {"stopped", "done"} /\ importer.no < MaxImports
    /\ importer' = [importer EXCEPT !.at = "look", !.id = 1, !.skipped = FALSE, !.no = @ + 1,
                                    !.quiet = ~mongo.live, !.users = mongo.users,
                                    !.tasks = NoTasks, !.home = NoUsers]
    /\ UNCHANGED <<mongo, accounts, homes, imported>>

\* A user without an address, or whose address is another account's, is
\* skipped and reported.
LookUser ==
    /\ importer.at = "look"
    /\ LET email == importer.users[importer.id]
           taken == \E a \in accounts : a.email = email /\ a.legacy # importer.id
       IN  importer' = IF email = Absent THEN After(importer)
                       ELSE IF email = NoMailbox \/ taken THEN After(Skip(importer))
                       ELSE [importer EXCEPT !.at = "save"]
    /\ UNCHANGED <<mongo, accounts, homes, imported>>

\* Creates or updates the account of the source id; the unique index on the
\* address makes the script fail if somebody took it since.
SaveUser ==
    /\ importer.at = "save"
    /\ LET email == importer.users[importer.id] IN
       IF \E a \in accounts : a.email = email /\ a.legacy # importer.id
       THEN importer' = [importer EXCEPT !.at = "stopped"] /\ UNCHANGED accounts
       ELSE /\ accounts' = (accounts \ AccountOf(importer.id))
                              \cup {[legacy |-> importer.id, email |-> email]}
            /\ importer' = [importer EXCEPT !.at = "house"]
    /\ UNCHANGED <<mongo, homes, imported>>

\* Mutated form: a workspace is made without looking for one.
HouseAnew == /\ importer.at = "house"
             /\ importer' = [importer EXCEPT !.at = "build"]
             /\ UNCHANGED <<mongo, accounts, homes, imported>>

\* ensurePersonalWorkspace looks for a workspace the account owns, and makes one.
HouseUser ==
    /\ importer.at = "house"
    /\ importer' = IF HomesOf(importer.id) # {} THEN After(importer) ELSE [importer EXCEPT !.at = "build"]
    /\ UNCHANGED <<mongo, accounts, homes, imported>>

BuildHome ==
    /\ importer.at = "build"
    /\ homes' = homes \cup {[of |-> importer.id, no |-> importer.no]}
    /\ importer' = After(importer)
    /\ UNCHANGED <<mongo, accounts, imported>>

\* Who was imported, with the first workspace they own.
ReadOwners ==
    /\ importer.at = "owners"
    /\ importer' = [importer EXCEPT !.at = "tasks", !.id = 1, !.tasks = mongo.tasks,
           !.home = [u \in Users |-> IF AccountOf(u) # {} /\ HomesOf(u) # {}
                                     THEN CHOOSE h \in HomesOf(u) : \A g \in HomesOf(u) : h.no <= g.no
                                     ELSE Absent]]
    /\ UNCHANGED <<mongo, accounts, homes, imported>>

SaveTask ==
    /\ importer.at = "tasks"
    /\ LET t == importer.tasks[importer.id] IN
       IF t = Absent THEN importer' = AfterTask(importer) /\ UNCHANGED imported
       ELSE IF t.of = 0 \/ (t.of \in Users /\ importer.home[t.of] = Absent)
            THEN importer' = AfterTask(Skip(importer)) /\ UNCHANGED imported
       ELSE /\ imported' = [imported EXCEPT ![importer.id] =
                                [home |-> importer.home[t.of], of |-> t.of, says |-> t.says]]
            /\ importer' = AfterTask(importer)
    /\ UNCHANGED <<mongo, accounts, homes>>

StopImport ==
    /\ importer.at \notin {"stopped", "done"}
    /\ importer' = [importer EXCEPT !.at = "stopped"]
    /\ UNCHANGED <<mongo, accounts, homes, imported>>

-----------------------------------------------------------------------------
SignUpAnew(email) ==
    /\ \A a \in accounts : a.email # email
    /\ accounts' = accounts \cup {[legacy |-> 0, email |-> email]}
    /\ UNCHANGED <<mongo, homes, imported, importer>>

\* The old application goes on until it is stopped; its addresses are unique.
EditUser(u, email) ==
    /\ mongo.live /\ mongo.edits < MaxEdits /\ email # mongo.users[u]
    /\ email \in Mailbox => \A v \in Users : mongo.users[v] # email
    /\ mongo' = [mongo EXCEPT !.users[u] = email, !.edits = @ + 1]
    /\ UNCHANGED <<accounts, homes, imported, importer>>

EditSource(t, task) ==
    /\ mongo.live /\ mongo.edits < MaxEdits /\ task # mongo.tasks[t]
    /\ mongo' = [mongo EXCEPT !.tasks[t] = task, !.edits = @ + 1]
    /\ UNCHANGED <<accounts, homes, imported, importer>>

StopOldServer ==
    /\ mongo.live /\ mongo' = [mongo EXCEPT !.live = FALSE]
    /\ UNCHANGED <<accounts, homes, imported, importer>>

-----------------------------------------------------------------------------
ImportInit ==
    /\ mongo \in {s \in Source : /\ s.live /\ s.edits = 0
                                 /\ \A u \in Users : s.users[u] \in Mailbox \cup {Absent}
                                 /\ \A u, v \in Users : s.users[u] = s.users[v] => u = v \/ s.users[u] = Absent
                                 /\ \A t \in Tasks : s.tasks[t] = Absent \/ s.tasks[t].says = 1}
    /\ accounts = {} /\ homes = {}
    /\ imported = NoTasks
    /\ importer = [at |-> "stopped", id |-> 1, skipped |-> FALSE, quiet |-> FALSE, no |-> 0,
                   users |-> NoUsers, tasks |-> NoTasks, home |-> NoUsers]

ScriptStep == \/ StartImport \/ LookUser \/ SaveUser \/ HouseUser \/ BuildHome
              \/ ReadOwners \/ SaveTask \/ StopImport

ImportNext ==
    \/ ScriptStep
    \/ \E email \in Mailbox : SignUpAnew(email)
    \/ \E u \in Users, email \in Mailbox \cup {NoMailbox, Absent} : EditUser(u, email)
    \/ \E t \in Tasks, task \in [of : 0..LastUser, says : 1..2] \cup {Absent} : EditSource(t, task)
    \/ StopOldServer

ImportSpec == ImportInit /\ [][ImportNext]_importVars

-----------------------------------------------------------------------------
\* However many runs died before it, an import of the stopped source that skips
\* nothing has made of every user there one account, with its address, and one
\* workspace, and of every task one row, as it is, in its owner's workspace
\* (importFromMongo.ts:9-10 "a second run updates instead of duplicating, and an
\* interrupted run can simply be restarted").
ImportedWhole ==
    importer.at = "done" /\ importer.quiet /\ ~importer.skipped =>
        /\ \A u \in {v \in Users : mongo.users[v] # Absent} :
              /\ AccountOf(u) = {[legacy |-> u, email |-> mongo.users[u]]}
              /\ Cardinality(HomesOf(u)) = 1
        /\ \A t \in {s \in Tasks : mongo.tasks[s] # Absent} :
              /\ imported[t] # Absent
              /\ <<imported[t].of, imported[t].says>> = <<mongo.tasks[t].of, mongo.tasks[t].says>>
              /\ imported[t].home \in HomesOf(mongo.tasks[t].of)
===============================================================================

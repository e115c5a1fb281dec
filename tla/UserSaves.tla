----------------------------- MODULE UserSaves -----------------------------
(***************************************************************************)
(* Saves of the users table.  That usernames are unique is only a          *)
(* validation (app/models/user.rb:13): db/schema.rb:125 has no index on    *)
(* the column.  The validation's query and the write of a save run in one  *)
(* transaction on the thread's own connection to the SQLite file           *)
(* (config/database.yml), and what stands between two saves that both      *)
(* found a name free are SQLite's file locks:                              *)
(*                                                                         *)
(*   - a read needs SHARED, which nobody gets while another connection is  *)
(*     committing (PENDING); inside a transaction it is kept;              *)
(*   - the first write needs RESERVED, which one connection holds at a     *)
(*     time; a transaction that has read is refused at once, not made to   *)
(*     wait, when another holds it;                                        *)
(*   - a commit announces itself (PENDING), waits until no other           *)
(*     connection holds SHARED, and changes the file.                      *)
(*                                                                         *)
(* Category names (app/models/category.rb:7) are saved the same way.       *)
(***************************************************************************)
EXTENDS UniqueNames

CONSTANTS
  Connections,   (* one per request thread                                 *)
  Timeouts,      (* may a wait for a lock exceed the busy timeout?         *)
  Faults         (* may a transaction fail at any point?                   *)

ASSUME UserSavesAssumption == Timeouts \in BOOLEAN /\ Faults \in BOOLEAN

VARIABLES
  at,    (* where each connection is in its transaction                    *)
  op     (* what each connection is doing                                  *)

saveVars == <<table, at, op>>

Kinds     == {"create", "update", "destroy"}
Operation == [kind: Kinds, account: Accounts, name: Names \cup {NoName}]
Idle      == <<>>

(* The locks a connection holds at each point.                             *)
SharedPoints   == {"reading", "checked", "written", "committing"}
ReservedPoints == {"written", "committing"}
Points         == {"idle", "begun"} \cup SharedPoints

Goto(c, from, to) ==
  /\ at[c] = from
  /\ at' = [at EXCEPT ![c] = to]
  /\ UNCHANGED op

(* COMMIT or ROLLBACK: the locks are released.                             *)
EndTransaction(c, from) ==
  /\ at[c] = from
  /\ at' = [at EXCEPT ![c] = "idle"]
  /\ op' = [op EXCEPT ![c] = Idle]

SaveInit ==
  /\ Init
  /\ at = [c \in Connections |-> "idle"]
  /\ op = [c \in Connections |-> Idle]

CanRead(c)   == \A d \in Connections \ {c} : at[d] # "committing"
CanWrite(c)  == \A d \in Connections \ {c} : at[d] \notin ReservedPoints
CanCommit(c) == \A d \in Connections \ {c} : at[d] \notin SharedPoints
-----------------------------------------------------------------------------
(* A page that only reads.                                                 *)
Read(c) ==
  /\ CanRead(c)
  /\ Goto(c, "idle", "reading")
  /\ UNCHANGED table

(* Faulty variant: the result set is never closed.                         *)
CloseNever(c) ==
  /\ Goto(c, "reading", "reading")
  /\ UNCHANGED table

Close(c) ==
  /\ Goto(c, "reading", "idle")
  /\ UNCHANGED table

(* Sign-up, profile edit and account cancellation: BEGIN takes no lock.    *)
Begin(c, kind, a, n) ==
  /\ at[c] = "idle"
  /\ at' = [at EXCEPT ![c] = "begun"]
  /\ op' = [op EXCEPT ![c] = [kind |-> kind, account |-> a, name |-> n]]
  /\ UNCHANGED table

(* Primary keys are not reused (AUTOINCREMENT), so no request that is      *)
(* under way concerns the row a sign-up will insert.                       *)
SignUp(c, a, n) ==
  /\ table[a] = NoName
  /\ \A d \in Connections : op[d] # Idle => op[d].account # a
  /\ Begin(c, "create", a, n)

EditProfile(c, a, n) ==
  /\ table[a] # NoName
  /\ Begin(c, "update", a, n)

Cancel(c, a) ==
  /\ table[a] # NoName
  /\ Begin(c, "destroy", a, NoName)

(* The query of the uniqueness validation leaves the row itself out.       *)
Taken(o) ==
  /\ o.kind # "destroy"
  /\ \E b \in Accounts \ {o.account} : table[b] = o.name

(* The validation's query, or for a cancellation that of the comments to   *)
(* destroy first.  A name that is taken ends the save with false.          *)
Validate(c) ==
  /\ at[c] = "begun"
  /\ CanRead(c)
  /\ \/ ~Taken(op[c]) /\ Goto(c, "begun", "checked")
     \/ Taken(op[c]) /\ EndTransaction(c, "begun")
  /\ UNCHANGED table

Write(c) ==
  /\ \/ CanWrite(c) /\ Goto(c, "checked", "written")
     \/ ~CanWrite(c) /\ EndTransaction(c, "checked")
  /\ UNCHANGED table

AnnounceCommit(c) ==
  /\ Goto(c, "written", "committing")
  /\ UNCHANGED table

(* An UPDATE of a row that has been destroyed meanwhile changes no row.    *)
Written(o) ==
  CASE o.kind = "create"  -> [table EXCEPT ![o.account] = o.name]
    [] o.kind = "update"  -> IF table[o.account] = NoName THEN table
                               ELSE [table EXCEPT ![o.account] = o.name]
    [] o.kind = "destroy" -> [table EXCEPT ![o.account] = NoName]

(* Faulty variant: the commit does not wait for readers.                   *)
CommitOver(c) ==
  /\ at[c] = "committing"
  /\ EndTransaction(c, "committing")
  /\ table' = Written(op[c])

Commit(c) ==
  /\ at[c] = "committing"
  /\ CanCommit(c)
  /\ EndTransaction(c, "committing")
  /\ table' = Written(op[c])

(* The busy timeout (config/database.yml:10) ends a wait with a rollback.  *)
Timeout(c) ==
  /\ Timeouts
  /\ \/ ~CanRead(c) /\ EndTransaction(c, "begun")
     \/ ~CanCommit(c) /\ EndTransaction(c, "committing")
  /\ UNCHANGED table

(* The request raises or the server stops: SQLite rolls back.              *)
Fail(c) ==
  /\ Faults
  /\ at[c] # "idle"
  /\ EndTransaction(c, at[c])
  /\ UNCHANGED table

Step(c) ==
  \/ Close(c)
  \/ Validate(c) \/ Write(c) \/ AnnounceCommit(c) \/ Commit(c)

SaveNext ==
  \E c \in Connections :
    \/ Step(c)
    \/ Read(c)
    \/ Timeout(c)
    \/ Fail(c)
    \/ \E a \in Accounts, n \in Names : SignUp(c, a, n) \/ EditProfile(c, a, n)
    \/ \E a \in Accounts : Cancel(c, a)

SaveSpec == SaveInit /\ [][SaveNext]_saveVars

(* A thread inside a transaction goes on when the lock it needs is free or *)
(* refused.                                                                *)
FairSaveSpec == SaveSpec /\ \A c \in Connections : WF_saveVars(Step(c))
-----------------------------------------------------------------------------
(* Type correctness.                                                       *)
SavesTypeOK ==
  /\ table \in [Accounts -> Names \cup {NoName}]
  /\ at \in [Connections -> Points]
  /\ op \in [Connections -> Operation \cup {Idle}]
  /\ \A c \in Connections :
       /\ at[c] \in {"begun", "checked", "written", "committing"} => op[c] \in Operation
       /\ op[c] # Idle /\ op[c].kind # "destroy" => op[c].name \in Names

(* No two accounts have the same username, although nothing but a query    *)
(* made before the write keeps them apart (app/models/user.rb:13).         *)
NamesUnique ==
  \A a, b \in Accounts : a # b /\ table[a] # NoName => table[a] # table[b]

(* Saves take effect one at a time, each as a check and a write in a       *)
(* single step.                                                            *)
UniqueSpec == Spec

(* A save that has announced its commit is not kept waiting for ever, with *)
(* no need of the busy timeout: a transaction that has read and comes to   *)
(* write is refused and lets go of its lock.                               *)
WriterCommits ==
  \A c \in Connections : at[c] = "committing" ~> at[c] = "idle"
=============================================================================

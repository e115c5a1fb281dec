------------------------------ MODULE Tickets ------------------------------
(***************************************************************************)
(* Support tickets and their comments (app/controllers/                    *)
(* tickets_controller.rb, tcomments_controller.rb), the support flag       *)
(* (users_controller.rb mark_supp) and accounts that are cancelled         *)
(* meanwhile.  Every change is made in two steps: the filters and finders  *)
(* load the user, the ticket and the comment and decide on what they       *)
(* loaded; the save runs its validations against the database and writes.  *)
(* A save is one atomic step: module UserSaves.                            *)
(***************************************************************************)
EXTENDS Naturals, FiniteSets

CONSTANTS
  Users,      (* accounts                                                  *)
  Admins,     (* those with the admin flag, which no handler sets          *)
  Tickets,    (* primary keys of tickets                                   *)
  Comments,   (* primary keys of tcomments                                 *)
  Threads     (* request threads: a pool of fixed size                     *)

ASSUME TicketsAssumption ==
  Admins \subseteq Users /\ Threads # {} /\ IsFiniteSet(Threads)

VARIABLES
  live,       (* accounts that have not been cancelled                     *)
  support,    (* accounts with the support flag                            *)
  tickets,    (* rows of tickets                                           *)
  comments,   (* rows of tcomments                                         *)
  given,      (* primary keys of comments given out, never given again     *)
  at,         (* what each thread is about to save                         *)
  req,        (* what each thread's handler holds in memory                *)
  \* History, read by no action.
  late,       (* changes made to the comments of a ticket after its close  *)
  reported    (* tickets the site has reported closed                      *)

database == <<live, support, tickets, comments, given>>
vars == <<database, at, req, late, reported>>

TicketRow  == [id: Tickets, owner: Users, open: BOOLEAN]
CommentRow == [id: Comments, ticket: Tickets, author: Users,
               content: BOOLEAN, photo: BOOLEAN]

NoRequest == <<>>
Saves     == {"ticket", "close", "comment", "edit", "destroy", "support"}

Init ==
  /\ live = Users /\ support = {}
  /\ tickets = {} /\ comments = {} /\ given = {}
  /\ at  = [h \in Threads |-> "idle"]
  /\ req = [h \in Threads |-> NoRequest]
  /\ late = [k \in Tickets |-> 0] /\ reported = {}

(* The filters pass; nothing is written yet.                               *)
Begin(h, save, request) ==
  /\ at[h] = "idle"
  /\ at'  = [at EXCEPT ![h] = save]
  /\ req' = [req EXCEPT ![h] = request]
  /\ UNCHANGED <<database, late, reported>>

Answer(h, save) ==
  /\ at[h] = save
  /\ at'  = [at EXCEPT ![h] = "idle"]
  /\ req' = [req EXCEPT ![h] = NoRequest]

Staff(u)     == u \in Admins \cup support
IsOpen(k)    == \E row \in tickets : row.id = k /\ row.open
IsClosed(k)  == \E row \in tickets : row.id = k /\ ~row.open
Owner(k)     == (CHOOSE row \in tickets : row.id = k).owner
-----------------------------------------------------------------------------
(* tickets#create.  The owner's presence is checked on the user in memory, *)
(* so the ticket of an account cancelled meanwhile is saved.               *)
OpenTicket(h, u, k) ==
  /\ u \in live
  /\ \A row \in tickets : row.id # k
  /\ \A g \in Threads : at[g] = "ticket" => req[g].id # k
  /\ Begin(h, "ticket", [id |-> k, owner |-> u, open |-> TRUE])

SaveTicket(h) ==
  /\ Answer(h, "ticket")
  /\ tickets' = tickets \cup {req[h]}
  /\ UNCHANGED <<live, support, comments, given, late, reported>>

(* tickets#close_ticket, of staff only; a closed ticket is left alone.     *)
CloseTicket(h, u, k) ==
  /\ u \in live /\ Staff(u)
  /\ IsOpen(k)
  /\ Begin(h, "close", k)

(* Faulty variant: the close is reported and not written.                  *)
SaveCloseNot(h) ==
  /\ Answer(h, "close")
  /\ reported' = reported \cup {req[h]}
  /\ UNCHANGED <<live, support, tickets, comments, given, late>>

(* update runs the validations, and a ticket must have a user: without one *)
(* it returns false, which the handler does not look at.                   *)
SaveClose(h) ==
  LET k == req[h] IN
  /\ Answer(h, "close")
  /\ tickets' = IF Owner(k) \in live
                  THEN {IF row.id = k THEN [row EXCEPT !.open = FALSE] ELSE row :
                          row \in tickets}
                  ELSE tickets
  /\ reported' = reported \cup {k}
  /\ UNCHANGED <<live, support, comments, given, late>>
-----------------------------------------------------------------------------
(* tcomments#create: find_ticket loads the status, require_not_closed      *)
(* reads it.                                                               *)
WriteComment(h, u, k, c, content, photo) ==
  /\ u \in live
  /\ IsOpen(k)
  /\ c \notin given
  /\ \A g \in Threads : at[g] = "comment" => req[g].id # c
  /\ Begin(h, "comment", [id |-> c, ticket |-> k, author |-> u,
                          content |-> content, photo |-> photo])

(* A change to the comments of ticket k, counted if it comes after a close.*)
Changed(k) == late' = IF IsClosed(k) THEN [late EXCEPT ![k] = @ + 1] ELSE late

(* The first create fails its validation, for the author is set only       *)
(* after it; an empty comment is refused there; save needs the author's    *)
(* row, and its result is not looked at.                                   *)
SaveComment(h) ==
  LET new == req[h]
      saved == (new.content \/ new.photo) /\ new.author \in live IN
  /\ Answer(h, "comment")
  /\ \/ /\ saved
        /\ comments' = comments \cup {new}
        /\ given' = given \cup {new.id}
        /\ Changed(new.ticket)
     \/ ~saved /\ UNCHANGED <<comments, given, late>>
  /\ UNCHANGED <<live, support, tickets, reported>>

(* Faulty variant: the filter require_not_closed does not cover update.    *)
EditCommentAnyway(h, u, c, content) ==
  /\ u \in live
  /\ \E row \in comments :
       /\ row.id = c /\ row.author = u
       /\ Begin(h, "edit", [row EXCEPT !.content = content])

(* tcomments#update, by the comment's author.                              *)
EditComment(h, u, c, content) ==
  /\ u \in live
  /\ \E row \in comments :
       /\ row.id = c /\ row.author = u /\ IsOpen(row.ticket)
       /\ Begin(h, "edit", [row EXCEPT !.content = content])

(* Faulty variant: an edit is inserted beside the row it edits.            *)
SaveEditInserting(h) ==
  LET new == req[h] IN
  /\ Answer(h, "edit")
  /\ comments' = comments \cup {new}
  /\ Changed(new.ticket)
  /\ UNCHANGED <<live, support, tickets, given, reported>>

(* The content is written whatever it is; nothing is written to a comment  *)
(* that is gone or whose author is.                                        *)
SaveEdit(h) ==
  LET new == req[h]
      there == \E row \in comments : row.id = new.id
      saved == there /\ new.author \in live IN
  /\ Answer(h, "edit")
  /\ \/ /\ saved
        /\ comments' = {row \in comments : row.id # new.id} \cup {new}
        /\ Changed(new.ticket)
     \/ ~saved /\ UNCHANGED <<comments, late>>
  /\ UNCHANGED <<live, support, tickets, given, reported>>

(* tcomments#destroy, by the comment's author or an administrator.         *)
DestroyComment(h, u, c) ==
  /\ u \in live
  /\ \E row \in comments :
       /\ row.id = c /\ IsOpen(row.ticket)
       /\ row.author = u \/ u \in Admins
       /\ Begin(h, "destroy", row)

RemoveComment(h) ==
  LET old == req[h]
      there == \E row \in comments : row.id = old.id IN
  /\ Answer(h, "destroy")
  /\ comments' = {row \in comments : row.id # old.id}
  /\ IF there THEN Changed(old.ticket) ELSE late' = late
  /\ UNCHANGED <<live, support, tickets, given, reported>>
-----------------------------------------------------------------------------
(* users#mark_supp, of administrators: toggles the flag of the row loaded. *)
MarkSupp(h, u, v) ==
  /\ u \in live \cap Admins /\ v \in live
  /\ Begin(h, "support", [user |-> v, flag |-> v \notin support])

SaveSupport(h) ==
  LET v == req[h].user IN
  /\ Answer(h, "support")
  /\ support' = IF v \notin live THEN support
                ELSE IF req[h].flag THEN support \cup {v} ELSE support \ {v}
  /\ UNCHANGED <<live, tickets, comments, given, late, reported>>

(* Account cancellation (Devise's DELETE /users): tickets and their        *)
(* comments stay (app/models/user.rb:2-4).                                 *)
CancelAccount(u) ==
  /\ u \in live
  /\ live' = live \ {u}
  /\ support' = support \ {u}
  /\ UNCHANGED <<tickets, comments, given, at, req, late, reported>>

(* A save raises or its input is refused, or the server stops.             *)
Raise(h) ==
  /\ at[h] # "idle"
  /\ Answer(h, at[h])
  /\ UNCHANGED <<database, late, reported>>

Next ==
  \/ \E h \in Threads :
       \/ SaveTicket(h) \/ SaveClose(h)
       \/ SaveComment(h) \/ SaveEdit(h) \/ RemoveComment(h)
       \/ SaveSupport(h)
       \/ Raise(h)
       \/ \E u \in Users :
            \/ \E k \in Tickets : OpenTicket(h, u, k) \/ CloseTicket(h, u, k)
            \/ \E k \in Tickets, c \in Comments, content, photo \in BOOLEAN :
                 WriteComment(h, u, k, c, content, photo)
            \/ \E c \in Comments, content \in BOOLEAN : EditComment(h, u, c, content)
            \/ \E c \in Comments : DestroyComment(h, u, c)
            \/ \E v \in Users : MarkSupp(h, u, v)
  \/ \E u \in Users : CancelAccount(u)

Spec == Init /\ [][Next]_vars
-----------------------------------------------------------------------------
(* Type correctness, with primary keys that identify rows.                 *)
TypeOK ==
  /\ live \subseteq Users /\ support \subseteq Users
  /\ tickets \subseteq TicketRow /\ comments \subseteq CommentRow
  /\ \A r1, r2 \in tickets : r1.id = r2.id => r1 = r2
  /\ \A r1, r2 \in comments : r1.id = r2.id => r1 = r2
  /\ given \subseteq Comments /\ \A row \in comments : row.id \in given
  /\ at \in [Threads -> Saves \cup {"idle"}] /\ DOMAIN req = Threads
  /\ \A h \in Threads :
       /\ at[h] = "idle" => req[h] = NoRequest
       /\ at[h] = "ticket" => req[h] \in TicketRow
       /\ at[h] = "close" => req[h] \in Tickets
       /\ at[h] \in {"comment", "edit", "destroy"} => req[h] \in CommentRow
       /\ at[h] = "support" => req[h] \in [user: Users, flag: BOOLEAN]
  /\ late \in [Tickets -> Nat]
  /\ reported \subseteq Tickets

(* The check of the status can be overtaken by a close, but each other     *)
(* thread can be in the middle of one change only: no more than that many  *)
(* changes reach a closed ticket (tcomments_controller.rb:63-68).          *)
LateChangesBounded == \A k \in Tickets : late[k] < Cardinality(Threads)

(* A ticket reported closed is closed, unless its owner's account is gone  *)
(* (tickets_controller.rb:31-33).                                          *)
ReportedIsClosed ==
  \A k \in reported : IsClosed(k) \/ Owner(k) \notin live

(* A closed ticket stays closed, although two administrators may close it  *)
(* at once (tickets_controller.rb:31-32).                                  *)
ClosedStaysClosed == [][\A k \in Tickets : IsClosed(k) => IsClosed(k)']_vars

(* Nothing happens to the comments of a closed ticket: "This ticket        *)
(* closed!!!" (tcomments_controller.rb:65).                                *)
ClosedIsQuiet == \A k \in Tickets : late[k] = 0
=============================================================================

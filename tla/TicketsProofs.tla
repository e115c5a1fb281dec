--------------------------- MODULE TicketsProofs ---------------------------
(***************************************************************************)
(* What holds of Tickets for any accounts, tickets, comments and finite    *)
(* pool of threads.                                                        *)
(***************************************************************************)
EXTENDS Tickets, FiniteSetTheorems, TLAPS

(* A key about to be inserted is of no row, and of no other thread.        *)
KeysFresh ==
  /\ \A h \in Threads : at[h] = "ticket" => \A row \in tickets : row.id # req[h].id
  /\ \A h \in Threads : at[h] = "comment" => req[h].id \notin given
  /\ \A g, h \in Threads :
       g # h /\ at[g] = at[h] /\ at[g] \in {"ticket", "comment"}
         => req[g].id # req[h].id

(* A ticket about to be inserted is open (the default of its column).      *)
NewIsOpen == \A h \in Threads : at[h] = "ticket" => req[h].open

(* Inductive: types, fresh keys, open new tickets.                         *)
TypeInv == TypeOK /\ KeysFresh /\ NewIsOpen

LEMMA TypeInit == Init => TypeInv
BY TicketsAssumption DEF Init, TypeInv, TypeOK, KeysFresh, NewIsOpen, Saves

(* The part of TypeInv about a thread's memory and the keys it holds.       *)
Held(a, r) ==
  /\ a \in Saves \cup {"idle"}
  /\ a = "idle" => r = NoRequest
  /\ a = "ticket" => r \in TicketRow /\ r.open
  /\ a = "close" => r \in Tickets
  /\ a \in {"comment", "edit", "destroy"} => r \in CommentRow
  /\ a = "support" => r \in [user: Users, flag: BOOLEAN]

(* Filters that pass keep the invariant when what they load is well typed  *)
(* and the key they reserve is fresh.                                      *)
LEMMA BeginKeepsType ==
  ASSUME TypeInv, NEW h \in Threads, NEW save \in Saves, NEW request,
         Begin(h, save, request), Held(save, request),
         save = "ticket" =>
           /\ \A row \in tickets : row.id # request.id
           /\ \A g \in Threads : at[g] = "ticket" => req[g].id # request.id,
         save = "comment" =>
           /\ request.id \notin given
           /\ \A g \in Threads : at[g] = "comment" => req[g].id # request.id
  PROVE  TypeInv'
<1>1. /\ at' = [at EXCEPT ![h] = save] /\ req' = [req EXCEPT ![h] = request]
      /\ UNCHANGED <<live, support, tickets, comments, given, late, reported>>
  BY DEF Begin, database
<1>2. /\ DOMAIN req' = Threads /\ at' \in [Threads -> Saves \cup {"idle"}]
      /\ at'[h] = save /\ req'[h] = request
      /\ \A g \in Threads \ {h} : at'[g] = at[g] /\ req'[g] = req[g]
  BY <1>1 DEF TypeInv, TypeOK
<1>3. \A g \in Threads : Held(at'[g], req'[g])
  BY <1>2 DEF TypeInv, TypeOK, NewIsOpen, Held
<1>4. TypeOK'
  <2>1. \A g \in Threads :
          /\ at'[g] = "idle" => req'[g] = NoRequest
          /\ at'[g] = "ticket" => req'[g] \in TicketRow
          /\ at'[g] = "close" => req'[g] \in Tickets
          /\ at'[g] \in {"comment", "edit", "destroy"} => req'[g] \in CommentRow
          /\ at'[g] = "support" => req'[g] \in [user: Users, flag: BOOLEAN]
    BY <1>3 DEF Held
  <2> QED BY <1>1, <1>2, <2>1 DEF TypeInv, TypeOK
<1>5. KeysFresh'
  BY <1>1, <1>2 DEF TypeInv, KeysFresh
<1>6. NewIsOpen'
  BY <1>3 DEF Held, NewIsOpen
<1> QED BY <1>4, <1>5, <1>6 DEF TypeInv

(* What an answer does to the threads.                                     *)
LEMMA AnswerFacts ==
  ASSUME TypeInv, NEW h \in Threads, NEW save \in Saves, Answer(h, save)
  PROVE  /\ at[h] = save /\ at'[h] = "idle" /\ req'[h] = NoRequest
         /\ \A g \in Threads \ {h} : at'[g] = at[g] /\ req'[g] = req[g]
         /\ at' \in [Threads -> Saves \cup {"idle"}] /\ DOMAIN req' = Threads
         /\ \A g \in Threads : Held(at'[g], req'[g])
<1>1. /\ at[h] = save
      /\ at' = [at EXCEPT ![h] = "idle"] /\ req' = [req EXCEPT ![h] = NoRequest]
  BY DEF Answer
<1>2. /\ at'[h] = "idle" /\ req'[h] = NoRequest
      /\ \A g \in Threads \ {h} : at'[g] = at[g] /\ req'[g] = req[g]
      /\ at' \in [Threads -> Saves \cup {"idle"}] /\ DOMAIN req' = Threads
  BY <1>1 DEF TypeInv, TypeOK
<1>3. \A g \in Threads : Held(at'[g], req'[g])
  BY <1>2 DEF TypeInv, TypeOK, NewIsOpen, Held, Saves
<1> QED BY <1>1, <1>2, <1>3

(* What a thread writes: well-typed rows, each with its own key, and no    *)
(* new key but the one the thread held in r.                               *)
WellWritten(save, r) ==
  /\ live' \subseteq Users /\ support' \subseteq Users
  /\ tickets' \subseteq TicketRow /\ comments' \subseteq CommentRow
  /\ \A r1, r2 \in tickets' : r1.id = r2.id => r1 = r2
  /\ \A r1, r2 \in comments' : r1.id = r2.id => r1 = r2
  /\ \A row \in tickets' :
       \/ \E old \in tickets : old.id = row.id
       \/ save = "ticket" /\ row.id = r.id
  /\ given' \subseteq Comments /\ \A row \in comments' : row.id \in given'
  /\ \A c \in given' : c \in given \/ (save = "comment" /\ c = r.id)
  /\ late' \in [Tickets -> Nat] /\ reported' \subseteq Tickets

LEMMA AnswerKeepsType ==
  ASSUME TypeInv, NEW h \in Threads, NEW save \in Saves, Answer(h, save),
         WellWritten(save, req[h])
  PROVE  TypeInv'
<1>1. /\ at[h] = save /\ at'[h] = "idle" /\ req'[h] = NoRequest
      /\ \A g \in Threads \ {h} : at'[g] = at[g] /\ req'[g] = req[g]
      /\ at' \in [Threads -> Saves \cup {"idle"}] /\ DOMAIN req' = Threads
      /\ \A g \in Threads : Held(at'[g], req'[g])
  BY AnswerFacts
<1>2. TypeOK'
  <2>1. \A g \in Threads :
          /\ at'[g] = "idle" => req'[g] = NoRequest
          /\ at'[g] = "ticket" => req'[g] \in TicketRow
          /\ at'[g] = "close" => req'[g] \in Tickets
          /\ at'[g] \in {"comment", "edit", "destroy"} => req'[g] \in CommentRow
          /\ at'[g] = "support" => req'[g] \in [user: Users, flag: BOOLEAN]
    BY <1>1 DEF Held
  <2> QED BY <1>1, <2>1 DEF TypeOK, WellWritten
<1>3. KeysFresh'
  <2>1. \A g \in Threads : at'[g] \in {"ticket", "comment"} => g # h
    BY <1>1
  <2>2. \A g \in Threads : at'[g] = "ticket" =>
          \A row \in tickets' : row.id # req'[g].id
    BY <1>1, <2>1 DEF TypeInv, KeysFresh, WellWritten
  <2>3. \A g \in Threads : at'[g] = "comment" => req'[g].id \notin given'
    BY <1>1, <2>1 DEF TypeInv, KeysFresh, WellWritten
  <2>4. \A f, g \in Threads :
          f # g /\ at'[f] = at'[g] /\ at'[f] \in {"ticket", "comment"}
            => req'[f].id # req'[g].id
    BY <1>1, <2>1 DEF TypeInv, KeysFresh
  <2> QED BY <2>2, <2>3, <2>4 DEF KeysFresh
<1>4. NewIsOpen'
  BY <1>1 DEF Held, NewIsOpen
<1> QED BY <1>2, <1>3, <1>4 DEF TypeInv

LEMMA ChangedKeepsType ==
  ASSUME late \in [Tickets -> Nat], NEW k \in Tickets, Changed(k)
  PROVE  late' \in [Tickets -> Nat]
BY DEF Changed

(* Every step keeps the invariant.                                         *)
LEMMA TypeStep == TypeInv /\ [Next]_vars => TypeInv'
<1> SUFFICES ASSUME TypeInv, [Next]_vars PROVE TypeInv'
  OBVIOUS
<1>1. ASSUME NEW h \in Threads, SaveTicket(h) PROVE TypeInv'
  <2>1. /\ Answer(h, "ticket") /\ tickets' = tickets \cup {req[h]}
        /\ UNCHANGED <<live, support, comments, given, late, reported>>
    BY <1>1 DEF SaveTicket
  <2>2. at[h] = "ticket" /\ req[h] \in TicketRow
    BY <2>1 DEF Answer, TypeInv, TypeOK
  <2>3. \A row \in tickets : row.id # req[h].id
    BY <2>2 DEF TypeInv, KeysFresh
  <2>6. WellWritten("ticket", req[h])
    BY <2>1, <2>2, <2>3 DEF WellWritten, TypeInv, TypeOK
  <2> QED BY <2>1, <2>6, AnswerKeepsType DEF Saves
<1>2. ASSUME NEW h \in Threads, SaveClose(h) PROVE TypeInv'
  <2> DEFINE k == req[h]
             Closed(row) == IF row.id = k THEN [row EXCEPT !.open = FALSE] ELSE row
  <2>1. /\ Answer(h, "close")
        /\ tickets' \in {tickets, {Closed(row) : row \in tickets}}
        /\ reported' = reported \cup {k}
        /\ UNCHANGED <<live, support, comments, given, late>>
    BY <1>2 DEF SaveClose
  <2>2. k \in Tickets
    BY <2>1 DEF Answer, TypeInv, TypeOK
  <2>3. \A row \in tickets : Closed(row) \in TicketRow /\ Closed(row).id = row.id
    BY DEF TypeInv, TypeOK, TicketRow
  <2> HIDE DEF Closed
  <2>4. /\ tickets' \subseteq TicketRow
        /\ \A r1, r2 \in tickets' : r1.id = r2.id => r1 = r2
        /\ \A row \in tickets' : \E old \in tickets : old.id = row.id
    BY <2>1, <2>3 DEF TypeInv, TypeOK
  <2>6. WellWritten("close", req[h])
    BY <2>1, <2>2, <2>4 DEF WellWritten, TypeInv, TypeOK
  <2> QED BY <2>1, <2>6, AnswerKeepsType DEF Saves
<1>3. ASSUME NEW h \in Threads, SaveComment(h) PROVE TypeInv'
  <2>1. /\ Answer(h, "comment")
        /\ UNCHANGED <<live, support, tickets, reported>>
        /\ \/ /\ comments' = comments \cup {req[h]}
              /\ given' = given \cup {req[h].id}
              /\ Changed(req[h].ticket)
           \/ UNCHANGED <<comments, given, late>>
    BY <1>3 DEF SaveComment
  <2>2. req[h] \in CommentRow /\ req[h].id \notin given
    BY <2>1 DEF Answer, TypeInv, TypeOK, KeysFresh
  <2>3. req[h].ticket \in Tickets /\ req[h].id \in Comments
    BY <2>2 DEF CommentRow
  <2>4. late' \in [Tickets -> Nat]
    BY <2>1, <2>3, ChangedKeepsType DEF TypeInv, TypeOK
  <2>6. WellWritten("comment", req[h])
    BY <2>1, <2>2, <2>3, <2>4 DEF WellWritten, TypeInv, TypeOK
  <2> QED BY <2>1, <2>6, AnswerKeepsType DEF Saves
<1>4. ASSUME NEW h \in Threads, SaveEdit(h) PROVE TypeInv'
  <2>1. /\ Answer(h, "edit")
        /\ UNCHANGED <<live, support, tickets, given, reported>>
        /\ \/ /\ \E row \in comments : row.id = req[h].id
              /\ comments' = {row \in comments : row.id # req[h].id} \cup {req[h]}
              /\ Changed(req[h].ticket)
           \/ UNCHANGED <<comments, late>>
    BY <1>4 DEF SaveEdit
  <2>2. req[h] \in CommentRow
    BY <2>1 DEF Answer, TypeInv, TypeOK
  <2>3. req[h].ticket \in Tickets
    BY <2>2 DEF CommentRow
  <2>4. late' \in [Tickets -> Nat]
    BY <2>1, <2>3, ChangedKeepsType DEF TypeInv, TypeOK
  <2>5. /\ comments' \subseteq CommentRow
        /\ \A r1, r2 \in comments' : r1.id = r2.id => r1 = r2
        /\ \A row \in comments' : row.id \in given
    BY <2>1, <2>2 DEF TypeInv, TypeOK
  <2>6. WellWritten("edit", req[h])
    BY <2>1, <2>4, <2>5 DEF WellWritten, TypeInv, TypeOK
  <2> QED BY <2>1, <2>6, AnswerKeepsType DEF Saves
<1>5. ASSUME NEW h \in Threads, RemoveComment(h) PROVE TypeInv'
  <2>1. /\ Answer(h, "destroy")
        /\ UNCHANGED <<live, support, tickets, given, reported>>
        /\ comments' = {row \in comments : row.id # req[h].id}
        /\ Changed(req[h].ticket) \/ late' = late
    BY <1>5 DEF RemoveComment
  <2>2. req[h] \in CommentRow
    BY <2>1 DEF Answer, TypeInv, TypeOK
  <2>3. req[h].ticket \in Tickets
    BY <2>2 DEF CommentRow
  <2>4. late' \in [Tickets -> Nat]
    BY <2>1, <2>3, ChangedKeepsType DEF TypeInv, TypeOK
  <2>6. WellWritten("destroy", req[h])
    BY <2>1, <2>4 DEF WellWritten, TypeInv, TypeOK
  <2> QED BY <2>1, <2>6, AnswerKeepsType DEF Saves
<1>6. ASSUME NEW h \in Threads, SaveSupport(h) PROVE TypeInv'
  <2>1. /\ Answer(h, "support")
        /\ UNCHANGED <<live, tickets, comments, given, late, reported>>
        /\ support' \subseteq support \cup {req[h].user}
    BY <1>6 DEF SaveSupport
  <2>2. req[h].user \in Users
    BY <2>1 DEF Answer, TypeInv, TypeOK
  <2>6. WellWritten("support", req[h])
    BY <2>1, <2>2 DEF WellWritten, TypeInv, TypeOK
  <2> QED BY <2>1, <2>6, AnswerKeepsType DEF Saves
<1>7. ASSUME NEW h \in Threads, Raise(h) PROVE TypeInv'
  <2>1. /\ at[h] \in Saves /\ Answer(h, at[h])
        /\ UNCHANGED <<live, support, tickets, comments, given, late, reported>>
    BY <1>7 DEF Raise, database, TypeInv, TypeOK
  <2>6. WellWritten(at[h], req[h])
    BY <2>1 DEF WellWritten, TypeInv, TypeOK
  <2> QED BY <2>1, <2>6, AnswerKeepsType DEF Saves
<1>8. ASSUME NEW h \in Threads, NEW u \in Users, NEW k \in Tickets, OpenTicket(h, u, k)
      PROVE  TypeInv'
  <2> DEFINE new == [id |-> k, owner |-> u, open |-> TRUE]
  <2>1. new \in TicketRow /\ new.id = k /\ new.open
    BY DEF TicketRow
  <2>2. /\ Begin(h, "ticket", new)
        /\ \A row \in tickets : row.id # k
        /\ \A g \in Threads : at[g] = "ticket" => req[g].id # k
    BY <1>8 DEF OpenTicket
  <2>3. Held("ticket", new)
    BY <2>1 DEF Held, Saves
  <2> HIDE DEF new
  <2> QED BY <2>1, <2>2, <2>3, BeginKeepsType DEF Saves
<1>9. ASSUME NEW h \in Threads, NEW u \in Users, NEW k \in Tickets, CloseTicket(h, u, k)
      PROVE  TypeInv'
  <2>1. Begin(h, "close", k) /\ Held("close", k)
    BY <1>9 DEF CloseTicket, Held, Saves
  <2> QED BY <2>1, BeginKeepsType DEF Saves
<1>10. ASSUME NEW h \in Threads, NEW u \in Users, NEW k \in Tickets, NEW c \in Comments,
              NEW content \in BOOLEAN, NEW photo \in BOOLEAN,
              WriteComment(h, u, k, c, content, photo)
       PROVE  TypeInv'
  <2> DEFINE new == [id |-> c, ticket |-> k, author |-> u,
                     content |-> content, photo |-> photo]
  <2>1. new \in CommentRow /\ new.id = c
    BY DEF CommentRow
  <2>2. /\ Begin(h, "comment", new) /\ c \notin given
        /\ \A g \in Threads : at[g] = "comment" => req[g].id # c
    BY <1>10 DEF WriteComment
  <2>3. Held("comment", new)
    BY <2>1 DEF Held, Saves
  <2> HIDE DEF new
  <2> QED BY <2>1, <2>2, <2>3, BeginKeepsType DEF Saves
<1>11. ASSUME NEW h \in Threads, NEW u \in Users, NEW c \in Comments,
              NEW content \in BOOLEAN, EditComment(h, u, c, content)
       PROVE  TypeInv'
  <2>1. PICK row \in comments : Begin(h, "edit", [row EXCEPT !.content = content])
    BY <1>11 DEF EditComment
  <2>2. [row EXCEPT !.content = content] \in CommentRow
    BY DEF CommentRow, TypeInv, TypeOK
  <2>3. Held("edit", [row EXCEPT !.content = content])
    BY <2>2 DEF Held, Saves
  <2> QED BY <2>1, <2>3, BeginKeepsType DEF Saves
<1>12. ASSUME NEW h \in Threads, NEW u \in Users, NEW c \in Comments,
              DestroyComment(h, u, c)
       PROVE  TypeInv'
  <2>1. PICK row \in comments : Begin(h, "destroy", row)
    BY <1>12 DEF DestroyComment
  <2>2. Held("destroy", row)
    BY DEF Held, Saves, TypeInv, TypeOK
  <2> QED BY <2>1, <2>2, BeginKeepsType DEF Saves
<1>13. ASSUME NEW h \in Threads, NEW u \in Users, NEW v \in Users, MarkSupp(h, u, v)
       PROVE  TypeInv'
  <2>1. Begin(h, "support", [user |-> v, flag |-> v \notin support])
    BY <1>13 DEF MarkSupp
  <2>2. Held("support", [user |-> v, flag |-> v \notin support])
    BY DEF Held, Saves
  <2> QED BY <2>1, <2>2, BeginKeepsType DEF Saves
<1>14. ASSUME NEW u \in Users, CancelAccount(u) PROVE TypeInv'
  BY <1>14 DEF CancelAccount, TypeInv, TypeOK, KeysFresh, NewIsOpen
<1>15. CASE UNCHANGED vars
  BY <1>15 DEF vars, database, TypeInv, TypeOK, KeysFresh, NewIsOpen
<1> QED BY <1>1, <1>2, <1>3, <1>4, <1>5, <1>6, <1>7, <1>8, <1>9, <1>10, <1>11, <1>12,
           <1>13, <1>14, <1>15 DEF Next

(* Rows, keys and what the handlers hold in memory stay well typed, and a  *)
(* primary key is of one row: tickets_controller.rb, tcomments_controller. *)
THEOREM TicketsTypeCorrect == Spec => []TypeOK
<1>1. TypeInv => TypeOK
  BY DEF TypeInv
<1> QED BY <1>1, TypeInit, TypeStep, PTL DEF Spec
-----------------------------------------------------------------------------
LEMMA OwnerOfRow ==
  ASSUME TypeInv, NEW row \in tickets
  PROVE  Owner(row.id) = row.owner
<1>1. \A r \in tickets : r.id = row.id => r = row
  BY DEF TypeInv, TypeOK
<1>2. (CHOOSE r \in tickets : r.id = row.id) = row
  BY <1>1
<1> QED BY <1>2 DEF Owner

(* SaveClose writes the row of its ticket, or nothing; the rows of the     *)
(* other tickets stay as they are.                                         *)
LEMMA CloseWrites ==
  ASSUME TypeInv, NEW h \in Threads, SaveClose(h)
  PROVE  /\ \A row \in tickets : \E new \in tickets' :
              /\ new.id = row.id /\ new.owner = row.owner
              /\ new = row \/ (row.id = req[h] /\ ~new.open)
              /\ row.id = req[h] /\ row.owner \in live => ~new.open
         /\ \A new \in tickets' : \E row \in tickets :
              new.id = row.id /\ (new = row \/ row.id = req[h])
<1> DEFINE k == req[h]
           Closed(row) == IF row.id = k THEN [row EXCEPT !.open = FALSE] ELSE row
<1>1. \A row \in tickets :
        /\ Closed(row).id = row.id /\ Closed(row).owner = row.owner
        /\ row.id # k => Closed(row) = row
        /\ row.id = k => Closed(row).open = FALSE
  BY DEF TypeInv, TypeOK, TicketRow
<1>2. tickets' = IF Owner(k) \in live THEN {Closed(row) : row \in tickets} ELSE tickets
  BY DEF SaveClose
<1> HIDE DEF Closed
<1>3. CASE Owner(k) \in live
  <2>1. tickets' = {Closed(row) : row \in tickets}
    BY <1>2, <1>3
  <2>2. ASSUME NEW row \in tickets
        PROVE  \E new \in tickets' :
                 /\ new.id = row.id /\ new.owner = row.owner
                 /\ new = row \/ (row.id = req[h] /\ ~new.open)
                 /\ row.id = req[h] /\ row.owner \in live => ~new.open
    <3>1. Closed(row) \in tickets'
      BY <2>1
    <3> QED BY <1>1, <3>1
  <2> QED BY <1>1, <2>1, <2>2
<1>4. CASE Owner(k) \notin live
  <2>1. \A row \in tickets : row.id = k => row.owner \notin live
    BY <1>4, OwnerOfRow
  <2> QED BY <1>2, <1>4, <2>1
<1> QED BY <1>3, <1>4

CommentSaves == {"comment", "edit", "destroy"}

(* What a step does to tickets and their comments, one of five ways.       *)
LEMMA StepKinds ==
  ASSUME TypeInv, [Next]_vars
  PROVE  /\ live' \subseteq live
         /\ \/ \E h \in Threads : SaveTicket(h)
            \/ \E h \in Threads : SaveClose(h)
            \/ \E h \in Threads, save \in Saves :
                 /\ Answer(h, save) /\ UNCHANGED <<tickets, reported>>
                 /\ late' = late \/ (save \in CommentSaves /\ Changed(req[h].ticket))
            \/ \E h \in Threads, save \in Saves : \E request :
                 /\ Begin(h, save, request)
                 /\ save \in CommentSaves => IsOpen(request.ticket)
                 /\ save = "close" => IsOpen(request)
            \/ UNCHANGED <<tickets, at, req, late, reported>>
<1> USE DEF Saves, CommentSaves
<1>1. ASSUME NEW h \in Threads, SaveTicket(h)
      PROVE  live' \subseteq live
  BY <1>1 DEF SaveTicket
<1>2. ASSUME NEW h \in Threads, SaveClose(h)
      PROVE  live' \subseteq live
  BY <1>2 DEF SaveClose
<1> DEFINE Answered(h, save) ==
             /\ Answer(h, save) /\ UNCHANGED <<live, tickets, reported>>
             /\ late' = late \/ (save \in CommentSaves /\ Changed(req[h].ticket))
<1>3. ASSUME NEW h \in Threads,
             \/ SaveComment(h) \/ SaveEdit(h) \/ RemoveComment(h)
             \/ SaveSupport(h) \/ Raise(h)
      PROVE  \E save \in Saves : Answered(h, save)
  <2>1. CASE SaveComment(h)
    <3>1. Answered(h, "comment")
      BY <2>1 DEF SaveComment
    <3> QED BY <3>1
  <2>2. CASE SaveEdit(h)
    <3>1. Answered(h, "edit")
      BY <2>2 DEF SaveEdit
    <3> QED BY <3>1
  <2>3. CASE RemoveComment(h)
    <3>1. Answered(h, "destroy")
      BY <2>3 DEF RemoveComment
    <3> QED BY <3>1
  <2>4. CASE SaveSupport(h)
    <3>1. Answered(h, "support")
      BY <2>4 DEF SaveSupport
    <3> QED BY <3>1
  <2>5. CASE Raise(h)
    <3>1. Answered(h, at[h]) /\ at[h] \in Saves
      BY <2>5 DEF Raise, database, TypeInv, TypeOK
    <3> QED BY <3>1
  <2> QED BY <1>3, <2>1, <2>2, <2>3, <2>4, <2>5
<1> DEFINE Began(h, save, request) ==
             /\ Begin(h, save, request)
             /\ save \in CommentSaves => IsOpen(request.ticket)
             /\ save = "close" => IsOpen(request)
<1>4. ASSUME NEW h \in Threads, NEW u \in Users,
             \/ \E k \in Tickets : OpenTicket(h, u, k) \/ CloseTicket(h, u, k)
             \/ \E k \in Tickets, c \in Comments, content, photo \in BOOLEAN :
                  WriteComment(h, u, k, c, content, photo)
             \/ \E c \in Comments, content \in BOOLEAN : EditComment(h, u, c, content)
             \/ \E c \in Comments : DestroyComment(h, u, c)
             \/ \E v \in Users : MarkSupp(h, u, v)
      PROVE  live' = live /\ \E save \in Saves : \E request : Began(h, save, request)
  <2>1. ASSUME NEW save, NEW request, Begin(h, save, request)
        PROVE  live' = live
    BY <2>1 DEF Begin, database
  <2>2. ASSUME NEW k \in Tickets, OpenTicket(h, u, k)
        PROVE  Began(h, "ticket", [id |-> k, owner |-> u, open |-> TRUE])
    BY <2>2 DEF OpenTicket
  <2>3. ASSUME NEW k \in Tickets, CloseTicket(h, u, k)
        PROVE  Began(h, "close", k)
    BY <2>3 DEF CloseTicket
  <2>4. ASSUME NEW k \in Tickets, NEW c \in Comments, NEW content \in BOOLEAN,
               NEW photo \in BOOLEAN, WriteComment(h, u, k, c, content, photo)
        PROVE  Began(h, "comment", [id |-> c, ticket |-> k, author |-> u,
                                    content |-> content, photo |-> photo])
    BY <2>4 DEF WriteComment
  <2>5. ASSUME NEW c \in Comments, NEW content \in BOOLEAN, EditComment(h, u, c, content)
        PROVE  \E request : Began(h, "edit", request)
    <3>1. PICK row \in comments :
            IsOpen(row.ticket) /\ Begin(h, "edit", [row EXCEPT !.content = content])
      BY <2>5 DEF EditComment
    <3>2. [row EXCEPT !.content = content].ticket = row.ticket
      BY DEF TypeInv, TypeOK, CommentRow
    <3>3. Began(h, "edit", [row EXCEPT !.content = content])
      BY <3>1, <3>2
    <3> QED BY <3>3
  <2>6. ASSUME NEW c \in Comments, DestroyComment(h, u, c)
        PROVE  \E request : Began(h, "destroy", request)
    BY <2>6 DEF DestroyComment
  <2>7. ASSUME NEW v \in Users, MarkSupp(h, u, v)
        PROVE  Began(h, "support", [user |-> v, flag |-> v \notin support])
    BY <2>7 DEF MarkSupp
  <2>8. \E save \in Saves : \E request : Began(h, save, request)
    <3> HIDE DEF Began
    <3> QED BY <1>4, <2>2, <2>3, <2>4, <2>5, <2>6, <2>7
  <2> QED BY <2>1, <2>8
<1>5. ASSUME NEW u \in Users, CancelAccount(u)
      PROVE  live' \subseteq live /\ UNCHANGED <<tickets, at, req, late, reported>>
  BY <1>5 DEF CancelAccount
<1>6. ASSUME UNCHANGED vars
      PROVE  live' \subseteq live /\ UNCHANGED <<tickets, at, req, late, reported>>
  BY <1>6 DEF vars, database
<1>7. ASSUME NEW h \in Threads, NEW save \in Saves, Answered(h, save)
      PROVE  live' \subseteq live
  BY <1>7
<1> QED BY <1>1, <1>2, <1>3, <1>4, <1>5, <1>6, <1>7 DEF Next

(* Every step but a close leaves the rows of tickets or adds open ones.    *)
LEMMA OtherSteps ==
  ASSUME TypeInv, [Next]_vars, \A h \in Threads : ~SaveClose(h)
  PROVE  /\ tickets \subseteq tickets' /\ reported' = reported
         /\ \A row \in tickets' \ tickets : row.open
<1>1. ASSUME NEW h \in Threads, SaveTicket(h)
      PROVE  /\ tickets' = tickets \cup {req[h]} /\ reported' = reported
             /\ req[h].open
  BY <1>1 DEF SaveTicket, Answer, TypeInv, NewIsOpen
<1>2. ASSUME NEW h \in Threads, NEW save, NEW request, Begin(h, save, request)
      PROVE  UNCHANGED <<tickets, reported>>
  BY <1>2 DEF Begin, database
<1> QED BY <1>1, <1>2, StepKinds

(* A closed ticket stays closed, whoever closes it again.                  *)
LEMMA ClosedStaysStep ==
  TypeInv /\ [Next]_vars => \A k \in Tickets : IsClosed(k) => IsClosed(k)'
<1> SUFFICES ASSUME TypeInv, [Next]_vars, NEW k \in Tickets, IsClosed(k)
             PROVE  IsClosed(k)'
  OBVIOUS
<1>1. PICK row \in tickets : row.id = k /\ ~row.open
  BY DEF IsClosed
<1>2. ASSUME NEW h \in Threads, SaveClose(h) PROVE IsClosed(k)'
  BY <1>1, <1>2, CloseWrites DEF IsClosed
<1>3. CASE \A h \in Threads : ~SaveClose(h)
  BY <1>1, <1>3, OtherSteps DEF IsClosed
<1> QED BY <1>2, <1>3

(* Two administrators who close a ticket at once both leave it closed:     *)
(* close_ticket writes false and does not toggle.                          *)
THEOREM ClosedForGood == Spec => ClosedStaysClosed
<1>1. TypeInv /\ [Next]_vars => [\A k \in Tickets : IsClosed(k) => IsClosed(k)']_vars
  BY ClosedStaysStep
<1> QED BY <1>1, TypeInit, TypeStep, PTL DEF Spec, ClosedStaysClosed
-----------------------------------------------------------------------------
(* A ticket that is being closed, or was reported closed, has a row.       *)
RowsThere ==
  /\ \A k \in reported : \E row \in tickets : row.id = k
  /\ \A h \in Threads : at[h] = "close" => \E row \in tickets : row.id = req[h]

(* ReportedIsClosed on rows instead of keys.                               *)
ReportedRows ==
  \A row \in tickets : row.id \in reported => ~row.open \/ row.owner \notin live

ReportedInv == TypeInv /\ RowsThere /\ ReportedRows

LEMMA ReportedInit == Init => ReportedInv
BY TypeInit DEF Init, ReportedInv, RowsThere, ReportedRows

(* Rows stay, whatever the step.                                           *)
LEMMA RowsStay ==
  ASSUME TypeInv, [Next]_vars, NEW row \in tickets
  PROVE  \E new \in tickets' : new.id = row.id
<1>1. ASSUME NEW h \in Threads, SaveClose(h)
      PROVE  \E new \in tickets' : new.id = row.id
  BY <1>1, CloseWrites
<1> QED BY <1>1, OtherSteps

LEMMA RowsThereStep == ReportedInv /\ [Next]_vars => RowsThere'
<1> SUFFICES ASSUME ReportedInv, [Next]_vars PROVE RowsThere'
  OBVIOUS
<1> USE DEF ReportedInv
<1>1. ASSUME NEW k, \E row \in tickets : row.id = k
      PROVE  \E row \in tickets' : row.id = k
  BY <1>1, RowsStay
<1>2. ASSUME NEW k \in reported' PROVE \E row \in tickets : row.id = k
  <2>1. ASSUME NEW h \in Threads, SaveClose(h)
        PROVE  at[h] = "close" /\ reported' = reported \cup {req[h]}
    BY <2>1 DEF SaveClose, Answer
  <2> QED BY <1>2, <2>1, OtherSteps DEF RowsThere
<1>3. ASSUME NEW h \in Threads, at'[h] = "close"
      PROVE  \E row \in tickets : row.id = req'[h]
  <2>1. CASE at[h] = "close" /\ req'[h] = req[h]
    BY <2>1 DEF RowsThere
  <2>2. ASSUME NEW g \in Threads, NEW save \in Saves, NEW request,
               Begin(g, save, request), save = "close" => IsOpen(request)
        PROVE  \E row \in tickets : row.id = req'[h]
    <3>1. /\ at' = [at EXCEPT ![g] = save] /\ req' = [req EXCEPT ![g] = request]
          /\ DOMAIN at = Threads /\ DOMAIN req = Threads
      BY <2>2 DEF Begin, TypeInv, TypeOK
    <3>2. CASE g = h
      BY <1>3, <2>2, <3>1, <3>2 DEF IsOpen
    <3>3. CASE g # h
      BY <1>3, <2>1, <3>1, <3>3
    <3> QED BY <3>2, <3>3
  <2>3. ASSUME NEW g \in Threads, NEW save \in Saves, Answer(g, save)
        PROVE  \E row \in tickets : row.id = req'[h]
    <3>1. g # h /\ at[h] = at'[h] /\ req'[h] = req[h]
      BY <1>3, <2>3, AnswerFacts
    <3> QED BY <1>3, <2>1, <3>1
  <2>4. ASSUME NEW g \in Threads, SaveTicket(g) \/ SaveClose(g)
        PROVE  \E save \in Saves : Answer(g, save)
    BY <2>4 DEF SaveTicket, SaveClose, Saves
  <2>5. CASE UNCHANGED <<tickets, at, req, late, reported>>
    BY <1>3, <2>1, <2>5
  <2> QED BY <2>2, <2>3, <2>4, <2>5, StepKinds
<1> QED BY <1>1, <1>2, <1>3 DEF RowsThere

(* A step changes no row's owner, and reopens none.                        *)
LEMMA ReportedRowsStep == ReportedInv /\ [Next]_vars => ReportedRows'
<1> SUFFICES ASSUME ReportedInv, [Next]_vars,
                    NEW new \in tickets', new.id \in reported', new.open
             PROVE  new.owner \notin live'
  BY DEF ReportedRows
<1> USE DEF ReportedInv
<1>1. live' \subseteq live
  BY StepKinds
<1>2. ASSUME NEW h \in Threads, SaveClose(h) PROVE new.owner \notin live
  <2>1. PICK row \in tickets : new.id = row.id /\ (new = row \/ row.id = req[h])
    BY <1>2, CloseWrites
  <2>2. PICK other \in tickets' :
          /\ other.id = row.id /\ other.owner = row.owner
          /\ other = row \/ (row.id = req[h] /\ ~other.open)
          /\ row.id = req[h] /\ row.owner \in live => ~other.open
    BY <1>2, CloseWrites
  <2>3. other = new
    <3>1. TypeInv'
      BY TypeStep
    <3> QED BY <2>1, <2>2, <3>1 DEF TypeInv, TypeOK
  <2>4. reported' = reported \cup {req[h]}
    BY <1>2 DEF SaveClose
  <2> QED BY <2>1, <2>2, <2>3, <2>4 DEF ReportedRows
<1>3. CASE \A h \in Threads : ~SaveClose(h)
  <2>1. CASE new \in tickets
    <3>1. reported' = reported
      BY <1>3, OtherSteps
    <3> QED BY <1>1, <2>1, <3>1 DEF ReportedRows
  <2>2. CASE new \notin tickets
    <3>1. PICK row \in tickets : row.id = new.id
      BY <1>3, OtherSteps DEF RowsThere
    <3>2. row \in tickets'
      BY <1>3, OtherSteps
    <3>3. TypeInv'
      BY TypeStep
    <3> QED BY <2>2, <3>1, <3>2, <3>3 DEF TypeInv, TypeOK
  <2> QED BY <2>1, <2>2
<1> QED BY <1>1, <1>2, <1>3

LEMMA ReportedRowsImply == ReportedInv => ReportedIsClosed
<1> SUFFICES ASSUME ReportedInv, NEW k \in reported
             PROVE  IsClosed(k) \/ Owner(k) \notin live
  BY DEF ReportedIsClosed
<1>1. PICK row \in tickets : row.id = k
  BY DEF ReportedInv, RowsThere
<1>2. Owner(k) = row.owner
  BY <1>1, OwnerOfRow DEF ReportedInv
<1> QED BY <1>1, <1>2 DEF ReportedInv, ReportedRows, IsClosed

(* "You closed this ticket!" is true, although close_ticket does not look  *)
(* at what update returns, unless the owner's account has been cancelled.  *)
THEOREM ReportsAreTrue == Spec => []ReportedIsClosed
<1>1. ReportedInv /\ [Next]_vars => ReportedInv'
  BY TypeStep, RowsThereStep, ReportedRowsStep DEF ReportedInv
<1> QED BY <1>1, ReportedInit, ReportedRowsImply, PTL DEF Spec
-----------------------------------------------------------------------------
(* Threads about to change the comments of ticket k.                       *)
Pending(k) == {h \in Threads : at[h] \in CommentSaves /\ req[h].ticket = k}

(* Each change made after the close was pending at the close, and the      *)
(* thread that closed was not: late and pending changes together stay      *)
(* below the number of threads.                                            *)
LateInv ==
  \A k \in Tickets :
    /\ IsClosed(k) => late[k] + Cardinality(Pending(k)) < Cardinality(Threads)
    /\ ~IsClosed(k) => late[k] = 0

LEMMA PendingFinite ==
  ASSUME NEW k
  PROVE  /\ IsFiniteSet(Pending(k)) /\ Cardinality(Pending(k)) \in Nat
         /\ Cardinality(Threads) \in Nat /\ 0 < Cardinality(Threads)
         /\ Cardinality(Pending(k)) <= Cardinality(Threads)
<1>1. IsFiniteSet(Threads) /\ Threads # {}
  BY TicketsAssumption
<1>2. Pending(k) \subseteq Threads
  BY DEF Pending
<1> QED BY <1>1, <1>2, FS_Subset, FS_CardinalityType, FS_EmptySet

LEMMA LateInit == Init => LateInv
BY DEF Init, LateInv, IsClosed

LEMMA LateArithmetic ==
  ASSUME NEW l \in Nat, NEW n \in Nat, NEW S, NEW T \in SUBSET S, IsFiniteSet(S),
         l + Cardinality(S) < n
  PROVE  l + Cardinality(T) < n
<1>1. Cardinality(T) <= Cardinality(S) /\ Cardinality(T) \in Nat /\ Cardinality(S) \in Nat
  BY FS_Subset, FS_CardinalityType
<1> QED BY <1>1

(* Where late and the status are as they were, and nothing new is pending  *)
(* for a closed ticket.                                                    *)
LEMMA LateKept ==
  ASSUME TypeInv, LateInv, NEW k \in Tickets,
         late'[k] = late[k], IsClosed(k)' <=> IsClosed(k),
         IsClosed(k) => Pending(k)' \subseteq Pending(k)
  PROVE  /\ IsClosed(k)' => late'[k] + Cardinality(Pending(k)') < Cardinality(Threads)
         /\ ~IsClosed(k)' => late'[k] = 0
<1>1. late[k] \in Nat
  BY DEF TypeInv, TypeOK
<1>2. IsFiniteSet(Pending(k)) /\ Cardinality(Threads) \in Nat
  BY PendingFinite
<1>3. CASE IsClosed(k)
  <2>1. late[k] + Cardinality(Pending(k)) < Cardinality(Threads)
    BY <1>3 DEF LateInv
  <2>2. Pending(k)' \in SUBSET Pending(k)
    BY <1>3
  <2>3. late[k] + Cardinality(Pending(k)') < Cardinality(Threads)
    BY <1>1, <1>2, <2>1, <2>2, LateArithmetic
  <2> QED BY <1>3, <2>3
<1>4. CASE ~IsClosed(k)
  BY <1>4 DEF LateInv
<1> QED BY <1>3, <1>4

LEMMA AnswerPending ==
  ASSUME TypeInv, NEW h \in Threads, NEW save \in Saves, Answer(h, save), NEW k
  PROVE  Pending(k)' = Pending(k) \ {h}
<1>1. /\ at'[h] = "idle"
      /\ \A g \in Threads \ {h} : at'[g] = at[g] /\ req'[g] = req[g]
  BY AnswerFacts
<1> QED BY <1>1 DEF Pending, CommentSaves

LEMMA BeginPending ==
  ASSUME TypeInv, NEW h \in Threads, NEW save \in Saves, NEW request,
         Begin(h, save, request), NEW k, IsClosed(k),
         save \in CommentSaves => IsOpen(request.ticket)
  PROVE  Pending(k)' \subseteq Pending(k)
<1>1. /\ at' = [at EXCEPT ![h] = save] /\ req' = [req EXCEPT ![h] = request]
      /\ DOMAIN at = Threads /\ DOMAIN req = Threads
  BY DEF Begin, TypeInv, TypeOK
<1>2. ~IsOpen(k)
  BY DEF IsOpen, IsClosed, TypeInv, TypeOK
<1>3. ASSUME NEW g \in Pending(k)' PROVE g \in Pending(k)
  <2>1. g \in Threads /\ at'[g] \in CommentSaves /\ req'[g].ticket = k
    BY <1>3 DEF Pending
  <2>2. g # h
    BY <1>1, <1>2, <2>1
  <2> QED BY <1>1, <2>1, <2>2 DEF Pending
<1> QED BY <1>3

LEMMA LateStep == TypeInv /\ LateInv /\ [Next]_vars => LateInv'
<1> SUFFICES ASSUME TypeInv, LateInv, [Next]_vars, NEW k \in Tickets
             PROVE  /\ IsClosed(k)' => late'[k] + Cardinality(Pending(k)') < Cardinality(Threads)
                    /\ ~IsClosed(k)' => late'[k] = 0
  BY DEF LateInv
<1> DEFINE Goal == /\ IsClosed(k)' => late'[k] + Cardinality(Pending(k)') < Cardinality(Threads)
                   /\ ~IsClosed(k)' => late'[k] = 0
<1>1. ASSUME NEW h \in Threads, SaveTicket(h) PROVE Goal
  <2>1. Answer(h, "ticket") /\ tickets' = tickets \cup {req[h]} /\ late' = late
    BY <1>1 DEF SaveTicket
  <2>2. req[h].open
    BY <2>1 DEF Answer, TypeInv, NewIsOpen
  <2>3. IsClosed(k)' <=> IsClosed(k)
    BY <2>1, <2>2 DEF IsClosed
  <2>4. Pending(k)' \subseteq Pending(k)
    BY <2>1, AnswerPending DEF Saves
  <2> QED BY <2>1, <2>3, <2>4, LateKept
<1>2. ASSUME NEW h \in Threads, SaveClose(h) PROVE Goal
  <2>1. Answer(h, "close") /\ late' = late
    BY <1>2 DEF SaveClose
  <2>2. h \notin Pending(k) /\ Pending(k)' = Pending(k) \ {h}
    BY <2>1, AnswerPending DEF Saves, Answer, Pending, CommentSaves
  <2>3. CASE IsClosed(k)
    <3>1. IsClosed(k)'
      BY <2>3, ClosedStaysStep
    <3> QED BY <2>1, <2>2, <2>3, <3>1, LateKept
  <2>4. CASE ~IsClosed(k)
    <3>1. late[k] = 0 /\ late'[k] = 0
      BY <2>1, <2>4 DEF LateInv
    <3>2. Pending(k)' \in SUBSET (Threads \ {h})
      BY <2>2 DEF Pending
    <3>3. IsFiniteSet(Threads)
      BY TicketsAssumption
    <3>4. IsFiniteSet(Threads \ {h}) /\ Cardinality(Threads \ {h}) = Cardinality(Threads) - 1
      BY <3>3, FS_RemoveElement
    <3>5. Cardinality(Pending(k)') <= Cardinality(Threads \ {h}) /\ IsFiniteSet(Pending(k)')
      BY <3>2, <3>4, FS_Subset
    <3>6. Cardinality(Pending(k)') \in Nat /\ Cardinality(Threads) \in Nat
      BY <3>3, <3>5, FS_CardinalityType
    <3> QED BY <3>1, <3>4, <3>5, <3>6
  <2> QED BY <2>3, <2>4
<1>3. ASSUME NEW h \in Threads, NEW save \in Saves,
             Answer(h, save), UNCHANGED <<tickets, reported>>,
             late' = late \/ (save \in CommentSaves /\ Changed(req[h].ticket))
      PROVE  Goal
  <2>1. Pending(k)' = Pending(k) \ {h}
    BY <1>3, AnswerPending
  <2>2. IsClosed(k)' <=> IsClosed(k)
    BY <1>3 DEF IsClosed
  <2>3. CASE late' = late
    BY <2>1, <2>2, <2>3, LateKept
  <2>4. CASE save \in CommentSaves /\ Changed(req[h].ticket)
    <3>1. at[h] = save
      BY <1>3 DEF Answer
    <3>2. CASE req[h].ticket # k \/ ~IsClosed(k)
      <4>1. late'[k] = late[k]
        BY <2>4, <3>2 DEF Changed, TypeInv, TypeOK
      <4> QED BY <2>1, <2>2, <4>1, LateKept
    <3>3. CASE req[h].ticket = k /\ IsClosed(k)
      <4>1. late'[k] = late[k] + 1 /\ late[k] \in Nat
        BY <2>4, <3>3 DEF Changed, TypeInv, TypeOK
      <4>2. h \in Pending(k)
        BY <2>4, <3>1, <3>3 DEF Pending
      <4>3. Cardinality(Pending(k)') = Cardinality(Pending(k)) - 1
        BY <2>1, <4>2, PendingFinite, FS_RemoveElement
      <4>4. late[k] + Cardinality(Pending(k)) < Cardinality(Threads)
        BY <3>3 DEF LateInv
      <4> QED BY <2>2, <3>3, <4>1, <4>3, <4>4, PendingFinite
    <3> QED BY <3>2, <3>3
  <2> QED BY <1>3, <2>3, <2>4
<1>4. ASSUME NEW h \in Threads, NEW save \in Saves, NEW request,
             Begin(h, save, request), save \in CommentSaves => IsOpen(request.ticket)
      PROVE  Goal
  <2>1. UNCHANGED <<tickets, late>>
    BY <1>4 DEF Begin, database
  <2>2. IsClosed(k)' <=> IsClosed(k)
    BY <2>1 DEF IsClosed
  <2>3. IsClosed(k) => Pending(k)' \subseteq Pending(k)
    BY <1>4, BeginPending
  <2> QED BY <2>1, <2>2, <2>3, LateKept
<1>5. ASSUME UNCHANGED <<tickets, at, req, late, reported>> PROVE Goal
  <2>1. (IsClosed(k)' <=> IsClosed(k)) /\ Pending(k)' = Pending(k)
    BY <1>5 DEF IsClosed, Pending
  <2> QED BY <1>5, <2>1, LateKept
<1> HIDE DEF Goal
<1>6. Goal
  BY <1>1, <1>2, <1>3, <1>4, <1>5, StepKinds
<1> QED BY <1>6 DEF Goal

LEMMA LateInvariant == Spec => [](TypeInv /\ LateInv)
BY TypeInit, LateInit, TypeStep, LateStep, PTL DEF Spec

(* The check of a ticket's status is overtaken by a close at most once per *)
(* other thread: tcomments_controller.rb:63-68 for any pool of threads.    *)
THEOREM LateIsBounded == Spec => []LateChangesBounded
<1>1. TypeInv /\ LateInv => LateChangesBounded
  <2> SUFFICES ASSUME TypeInv, LateInv, NEW k \in Tickets
               PROVE  late[k] < Cardinality(Threads)
    BY DEF LateChangesBounded
  <2>1. late[k] \in Nat
    BY DEF TypeInv, TypeOK
  <2> QED BY <2>1, PendingFinite DEF LateInv
<1> QED BY <1>1, LateInvariant, PTL

(* "This ticket closed!!!": with one thread nothing is done to the         *)
(* comments of a closed ticket.                                            *)
THEOREM OneThreadIsQuiet == Cardinality(Threads) = 1 /\ Spec => []ClosedIsQuiet
<1>1. Cardinality(Threads) = 1 /\ TypeInv /\ LateInv => ClosedIsQuiet
  <2> SUFFICES ASSUME Cardinality(Threads) = 1, TypeInv, LateInv, NEW k \in Tickets
               PROVE  late[k] = 0
    BY DEF ClosedIsQuiet
  <2>1. late[k] \in Nat
    BY DEF TypeInv, TypeOK
  <2> QED BY <2>1, PendingFinite DEF LateInv
<1>2. CASE Cardinality(Threads) = 1
  BY <1>1, <1>2, LateInvariant, PTL
<1> QED BY <1>2
=============================================================================

--------------------------- MODULE OdbcStatements ---------------------------
(***************************************************************************)
(* The statements of an ODBC connection (FreeTDS, src/odbc/odbc.c) and the *)
(* handles they have on the server: prepared statements (TDSDYNAMIC) and   *)
(* cursors (TDSCURSOR), counted objects of libtds (src/tds/query.c, mem.c, *)
(* token.c) that a statement, the connection's list, the request under way *)
(* and the scan of pending closes may hold.  The statements share the      *)
(* connection: one owns it (current_statement) while its answer is read.   *)
(*                                                                         *)
(* One thread, TDS 7.1 or later, no MARS.  A call is a list of stages; a   *)
(* stage sends a request, or handles what was read of its answer.  Arrays  *)
(* of parameters, procedures called by name and compute rows are left out, *)
(* and memory does not run out.                                            *)
(***************************************************************************)
EXTENDS Integers, Sequences, FiniteSets, SequencesExt

CONSTANTS Stmts,   \* statement handles of the application
          MaxObjs  \* bound: prepared statements and cursors at a time

ASSUME OdAssumption == {"none", "dbc", "close"} \cap Stmts = {} /\ MaxObjs \in Nat

VARIABLES od_stmt,  \* the statements
          od_conn,  \* the connection, its lists and the objects
          od_call,  \* the call the thread is in
          od_scan,  \* tds_process_pending_closes
          od_srv    \* handles the server holds, by kind

odvars == <<od_stmt, od_conn, od_call, od_scan, od_srv>>

Kinds == {"dyn", "cursor"}
Objs == 1..MaxObjs
NoObj == 0

\* known: num_id of a prepared statement, or a cursor's status is not CLOSED
FreeObj == [kind |-> "free", refs |-> 0, known |-> FALSE, defer |-> FALSE]
NoObjs == [k \in Kinds |-> NoObj]

\* stmt->dyn and stmt->cursor are has
FreeStmt == [live |-> FALSE, scroll |-> FALSE, prepared |-> FALSE,
             reprepare |-> FALSE, has |-> NoObjs]

\* cur: cur_dyn and cur_cursor; tds: the statements whose tds is set; by: who
\* sent the request being answered
NewConnection ==
  [state |-> "idle", op |-> "none", by |-> "none", cur |-> NoObjs,
   current |-> "none", tds |-> {}, pending_close |-> FALSE,
   list |-> [k \in Kinds |-> <<>>], obj |-> [i \in Objs |-> FreeObj]]

\* read: how much of the answer is being read; last: the token that ended it;
\* rc: what the reading returned
NoCall == [stmt |-> "none", todo |-> <<>>, read |-> "no", last |-> "none",
           error |-> FALSE, rc |-> "over"]
NoScan == [list |-> "off", at |-> NoObj, next |-> NoObj, wait |-> FALSE,
           all |-> TRUE]

OdInit ==
  /\ od_stmt = [s \in Stmts |-> FreeStmt] /\ od_conn = NewConnection
  /\ od_call = NoCall /\ od_scan = NoScan /\ od_srv = [k \in Kinds |-> {}]

---------------------------------------------------------------------------
(* Counted objects.                                                        *)

Listed(conn) == ToSet(conn.list["dyn"]) \cup ToSet(conn.list["cursor"])

Taken(conn, i) ==
  IF i = NoObj THEN conn ELSE [conn EXCEPT !.obj[i].refs = @ + 1]

Released(conn, i) ==
  IF i = NoObj THEN conn
  ELSE [conn EXCEPT !.obj[i] = IF @.refs = 1 THEN FreeObj
                               ELSE [@ EXCEPT !.refs = conn.obj[i].refs - 1]]

\* the smallest free name; a name the server still holds is not used again
NewObj == CHOOSE i \in Objs :
            /\ od_conn.obj[i] = FreeObj /\ \A k \in Kinds : i \notin od_srv[k]
            /\ \A j \in 1..(i - 1) : \/ od_conn.obj[j] # FreeObj
                                     \/ \E k \in Kinds : j \in od_srv[k]
SomeFree == \E i \in Objs : /\ od_conn.obj[i] = FreeObj
                            /\ \A k \in Kinds : i \notin od_srv[k]

\* referred to by the list and by whoever allocates it
WithNew(conn, kind, i) ==
  [conn EXCEPT !.obj[i] = [FreeObj EXCEPT !.kind = kind, !.refs = 2],
               !.list[kind] = IF kind = "dyn" THEN <<i>> \o @ ELSE Append(@, i)]

\* the list without its node i
Unlinked(list, i) == RemoveAt(list, CHOOSE n \in DOMAIN list : list[n] = i)

\* tds_dynamic_deallocated, tds_cursor_deallocated
Deallocated(conn, kind, i) ==
  IF i \notin ToSet(conn.list[kind]) THEN conn
  ELSE Released([conn EXCEPT !.list[kind] = Unlinked(@, i),
                             !.obj[i].known = FALSE], i)

\* Faulty variant: the connection does not look for deferred objects.
DeferredQuietly(conn, kind, i) ==
  IF conn.obj[i].known THEN [conn EXCEPT !.obj[i].defer = TRUE]
                       ELSE Deallocated(conn, kind, i)

\* tds_deferred_unprepare, tds_deferred_cursor_dealloc
Deferred(conn, kind, i) ==
  IF conn.obj[i].known
  THEN [conn EXCEPT !.obj[i].defer = TRUE, !.pending_close = TRUE]
  ELSE Deallocated(conn, kind, i)

tds_cursor_check_allocated(conn, i) ==
  IF conn.obj[i].known THEN conn ELSE Deallocated(conn, "cursor", i)

---------------------------------------------------------------------------
(* Requests, and who owns the connection.                                  *)

\* Faulty variant: what the last request was about stays referred to.
RequestedKeeping(conn, op, kind, i, who) ==
  [Taken(conn, i) EXCEPT !.state = "pending", !.op = op, !.by = who,
                         !.cur = [NoObjs EXCEPT ![kind] = i]]

\* the connection was idle; what the last request was about is let go
Requested(conn, op, kind, i, who) ==
  [Released(Released(Taken(conn, i), conn.cur["cursor"]), conn.cur["dyn"])
     EXCEPT !.state = "pending", !.op = op, !.by = who,
            !.cur = [NoObjs EXCEPT ![kind] = i]]

\* Faulty variant: the statement that owns the connection is not looked at.
CanLockAnyway(s) == od_conn.state # "dead"

\* odbc_lock_statement succeeds
CanLock(s) == od_conn.current \in {"none", s} \/ od_conn.state = "idle"

\* Faulty variant: the previous owner keeps the connection as well.
LockedByBoth(conn, s) ==
  IF CanLock(s) THEN [conn EXCEPT !.current = s, !.tds = @ \cup {s}] ELSE conn

\* odbc_lock_statement, whatever it returns
Locked(conn, s) ==
  IF CanLock(s)
  THEN [conn EXCEPT !.current = s, !.tds = (@ \ {conn.current}) \cup {s}]
  ELSE conn

\* odbc_unlock_statement
Unlocked(conn, s) ==
  IF conn.current = s /\ conn.state = "idle"
  THEN [conn EXCEPT !.current = "none", !.tds = @ \ {s}] ELSE conn

---------------------------------------------------------------------------
(* Calls and their stages.                                                 *)

Calling(s) == od_call = NoCall /\ od_stmt[s].live
At(s, stage) == /\ od_call.stmt = s /\ od_call.read = "no"
                /\ Head(od_call.todo) = stage

Enter(s, stages) == od_call' = [NoCall EXCEPT !.stmt = s, !.todo = stages]
Reads(s, how, stages) ==
  od_call' = [NoCall EXCEPT !.stmt = s, !.read = how, !.todo = stages]
Return == od_call' = NoCall
\* the rest of the call
Rest == Tail(od_call.todo)
Goes(s) == IF Rest = <<>> THEN Return ELSE Enter(s, Rest)

Free(s, kind) == od_stmt' = [od_stmt EXCEPT ![s].has[kind] = NoObj]

SQLAllocStmt(s, scroll) ==
  /\ od_call = NoCall /\ ~od_stmt[s].live /\ od_conn.current # s
  /\ od_stmt' = [od_stmt EXCEPT ![s] = [FreeStmt EXCEPT !.live = TRUE,
                                                        !.scroll = scroll]]
  /\ UNCHANGED <<od_conn, od_call, od_scan, od_srv>>

\* the application binds the parameters of what it has prepared
SQLBindParameter(s) ==
  /\ Calling(s) /\ od_stmt[s].prepared /\ ~od_stmt[s].scroll
  /\ od_stmt' = [od_stmt EXCEPT ![s].reprepare = TRUE]
  /\ UNCHANGED <<od_conn, od_call, od_scan, od_srv>>

---------------------------------------------------------------------------
(* odbc_free_dynamic and odbc_free_cursor: the handle is closed at once if *)
(* the connection can be had, and else when it is idle next.               *)

\* odbc_free_dynamic; an object whose handle is not known stays listed
FreeDynamic(s) ==
  LET i == od_stmt[s].has["dyn"]
      got == Locked(od_conn, s)
  IN  /\ At(s, "free_dynamic")
      /\ IF i # NoObj /\ od_conn.obj[i].known /\ CanLock(s)
                      /\ od_conn.state = "idle"
         THEN /\ od_conn' = Requested(got, "unprepare", "dyn", i, s)
              /\ Reads(s, "all", <<"unprepared">> \o Rest)
              /\ UNCHANGED od_stmt
         ELSE /\ od_conn' = IF i = NoObj \/ ~od_conn.obj[i].known
                            THEN Released(od_conn, i)
                            ELSE Released(Deferred(got, "dyn", i), i)
              /\ Goes(s) /\ Free(s, "dyn")
      /\ UNCHANGED <<od_scan, od_srv>>

Unprepared(s) ==
  LET i == od_stmt[s].has["dyn"]
  IN  /\ At(s, "unprepared")
      /\ od_conn' = Released(IF od_call.rc = "fail" THEN Deferred(od_conn, "dyn", i)
                                                    ELSE Unlocked(od_conn, s), i)
      /\ Goes(s) /\ Free(s, "dyn")
      /\ UNCHANGED <<od_scan, od_srv>>

\* odbc_free_cursor
FreeCursor(s) ==
  LET i == od_stmt[s].has["cursor"]
      got == Locked(od_conn, s)
  IN  /\ At(s, "free_cursor")
      /\ IF i # NoObj /\ CanLock(s) /\ od_conn.state = "idle"
         THEN /\ od_conn' = Requested(got, "cursorclose", "cursor", i, s)
              /\ Reads(s, "all", <<"closed">> \o Rest)
              /\ UNCHANGED od_stmt
         ELSE /\ od_conn' = IF i = NoObj THEN od_conn
                            ELSE Released(Deferred(got, "cursor", i), i)
              /\ Goes(s) /\ Free(s, "cursor")
      /\ UNCHANGED <<od_scan, od_srv>>

CursorClosed(s) ==
  LET i == od_stmt[s].has["cursor"]
  IN  /\ At(s, "closed")
      /\ od_conn' = Released(IF od_call.rc = "fail"
                             THEN Deferred(od_conn, "cursor", i)
                             ELSE tds_cursor_check_allocated(od_conn, i), i)
      /\ Goes(s) /\ Free(s, "cursor")
      /\ UNCHANGED <<od_scan, od_srv>>

---------------------------------------------------------------------------
(* SQLPrepare, SQLExecute and SQLExecDirect.                               *)

SQLPrepare(s) ==
  /\ Calling(s) /\ Enter(s, <<"free_dynamic", "set_query">>)
  /\ UNCHANGED <<od_stmt, od_conn, od_scan, od_srv>>

\* a cursor is not prepared on the server
SetQuery(s) ==
  /\ At(s, "set_query") /\ Goes(s)
  /\ od_stmt' = [od_stmt EXCEPT ![s].prepared = TRUE,
                                ![s].reprepare = ~od_stmt[s].scroll]
  /\ UNCHANGED <<od_conn, od_scan, od_srv>>

SQLExecute(s) ==
  /\ Calling(s) /\ od_stmt[s].prepared /\ Enter(s, <<"execute">>)
  /\ UNCHANGED <<od_stmt, od_conn, od_scan, od_srv>>

SQLExecDirect(s) ==
  /\ Calling(s) /\ Enter(s, <<"execute">>)
  /\ od_stmt' = [od_stmt EXCEPT ![s].prepared = FALSE, ![s].reprepare = FALSE]
  /\ UNCHANGED <<od_conn, od_scan, od_srv>>

\* the answer of another statement, or its own, is on the connection
ExecuteRefused(s) ==
  /\ At(s, "execute") /\ od_conn.state # "idle"
  /\ od_conn' = Locked(od_conn, s) /\ Return
  /\ UNCHANGED <<od_stmt, od_scan, od_srv>>

Executing(s) == At(s, "execute") /\ od_conn.state = "idle"

ExecuteQuery(s) ==
  /\ Executing(s) /\ ~od_stmt[s].scroll /\ ~od_stmt[s].prepared
  /\ od_conn' = Requested(Locked(od_conn, s), "none", "dyn", NoObj, s)
  /\ Reads(s, "some", <<"results">>)
  /\ UNCHANGED <<od_stmt, od_scan, od_srv>>

\* whether the statement has to be prepared (again) before it is executed
Fresh(s) == od_stmt[s].has["dyn"] = NoObj \/ od_stmt[s].reprepare

ExecuteFirst(s) ==
  /\ Executing(s) /\ ~od_stmt[s].scroll /\ od_stmt[s].prepared /\ Fresh(s)
  /\ od_conn' = Locked(od_conn, s)
  /\ Enter(s, <<"free_dynamic", "prepexec">>)
  /\ UNCHANGED <<od_stmt, od_scan, od_srv>>

\* tds71_submit_prepexec
PrepExec(s) ==
  /\ At(s, "prepexec")
  /\ IF od_conn.state = "idle"
     THEN /\ SomeFree
          /\ od_stmt' = [od_stmt EXCEPT ![s].reprepare = FALSE,
                                        ![s].has["dyn"] = NewObj]
          /\ od_conn' = Locked(Requested(WithNew(od_conn, "dyn", NewObj),
                                         "prepexec", "dyn", NewObj, s), s)
          /\ Reads(s, "some", <<"results">>)
     ELSE /\ od_stmt' = [od_stmt EXCEPT ![s].reprepare = FALSE]
          /\ Return /\ UNCHANGED od_conn
  /\ UNCHANGED <<od_scan, od_srv>>

\* tds_submit_execute: fails, the last request let go, if no handle is known
ExecuteAgain(s) ==
  LET i == od_stmt[s].has["dyn"]
      known == od_conn.obj[i].known
      sent == Requested(Locked(od_conn, s), IF known THEN "execute" ELSE "none",
                        "dyn", i, s)
  IN  /\ Executing(s) /\ ~od_stmt[s].scroll /\ od_stmt[s].prepared /\ ~Fresh(s)
      /\ IF known THEN od_conn' = sent /\ Reads(s, "some", <<"results">>)
         ELSE od_conn' = [sent EXCEPT !.state = "idle", !.by = "none"] /\ Return
      /\ UNCHANGED <<od_stmt, od_scan, od_srv>>

\* odbc_cursor_execute: an older cursor of the statement is let go unclosed
ExecuteCursor(s) ==
  /\ Executing(s) /\ od_stmt[s].scroll /\ SomeFree
  /\ od_stmt' = [od_stmt EXCEPT ![s].has["cursor"] = NewObj]
  /\ od_conn' = Requested(
       WithNew(Released(Locked(od_conn, s), od_stmt[s].has["cursor"]),
               "cursor", NewObj), "cursoropen", "cursor", NewObj, s)
  /\ Reads(s, "some", <<"opened">>)
  /\ UNCHANGED <<od_scan, od_srv>>

\* the name is set (tds_cursor_setname) when the answer is over and told the
\* cursor; a cursor that was not opened is dropped
CursorOpened(s) ==
  LET i == od_stmt[s].has["cursor"]
  IN  /\ At(s, "opened")
      /\ IF od_conn.obj[i].known
         THEN /\ UNCHANGED od_stmt
              /\ CASE od_call.rc = "over" /\ od_conn.state = "idle" ->
                        /\ od_conn' = Requested(od_conn, "cursoroption",
                                                "cursor", i, s)
                        /\ Reads(s, "some", <<"results">>)
                   [] od_call.rc = "over" /\ od_conn.state # "idle" ->
                        UNCHANGED od_conn /\ Return
                   [] od_call.rc = "fail" -> UNCHANGED od_conn /\ Return
                   [] OTHER -> /\ UNCHANGED od_conn
                               /\ Reads(s, "some", <<"results">>)
         ELSE /\ od_conn' = Released(tds_cursor_check_allocated(od_conn, i), i)
              /\ Free(s, "cursor")
              /\ IF od_call.rc = "fail" THEN Return
                 ELSE Reads(s, "some", <<"results">>)
      /\ UNCHANGED <<od_scan, od_srv>>

\* the call returns: all was read, or it stopped at a row or at a DONE
Finish(s) ==
  /\ At(s, "results") \/ At(s, "unlock") \/ At(s, "stay")
  /\ Goes(s)
  /\ od_conn' = IF At(s, "unlock") \/ (At(s, "results") /\ od_call.rc = "over")
                THEN Unlocked(od_conn, s) ELSE od_conn
  /\ UNCHANGED <<od_stmt, od_scan, od_srv>>

---------------------------------------------------------------------------
(* SQLNumResultCols and its like: odbc_update_ird, odbc_prepare.           *)

SQLNumResultCols(s) ==
  /\ Calling(s) /\ od_stmt[s].reprepare
  /\ IF od_conn.state # "idle"
     THEN od_conn' = Locked(od_conn, s) /\ UNCHANGED <<od_stmt, od_call>>
     ELSE /\ SomeFree
          /\ od_conn' = Requested(
               WithNew(Released(Locked(od_conn, s), od_stmt[s].has["dyn"]),
                       "dyn", NewObj), "prepare", "dyn", NewObj, s)
          /\ od_stmt' = [od_stmt EXCEPT ![s].has["dyn"] = NewObj]
          /\ Reads(s, "all", <<"prepared">>)
  /\ UNCHANGED <<od_scan, od_srv>>

Prepared(s) ==
  LET failed == od_call.rc \in {"fail", "error"}
  IN  /\ At(s, "prepared") /\ Goes(s)
      /\ od_conn' = Unlocked(IF failed THEN Released(od_conn, od_stmt[s].has["dyn"])
                                       ELSE od_conn, s)
      /\ od_stmt' = [od_stmt EXCEPT ![s].reprepare = FALSE,
                       ![s].has["dyn"] = IF failed THEN NoObj ELSE @]
      /\ UNCHANGED <<od_scan, od_srv>>

---------------------------------------------------------------------------
(* SQLFetch, SQLMoreResults and SQLCancel.                                 *)

\* rows of the statement's own answer; it stays the owner at their end
FetchResult(s) ==
  /\ Calling(s) /\ s \in od_conn.tds
  /\ od_stmt[s].has["cursor"] = NoObj \/ ~CanLock(s)
  /\ Reads(s, "some", <<"stay">>)
  /\ UNCHANGED <<od_stmt, od_conn, od_scan, od_srv>>

\* tds_cursor_setrows makes the status CLOSED, tds_cursor_fetch asks for rows
FetchCursor(s) ==
  LET i == od_stmt[s].has["cursor"]
      got == [Locked(od_conn, s) EXCEPT !.obj[i].known = FALSE]
  IN  /\ Calling(s) /\ i # NoObj /\ CanLock(s)
      /\ IF od_conn.state # "idle" THEN od_conn' = got /\ UNCHANGED od_call
         ELSE /\ od_conn' = Requested(got, "cursorfetch", "cursor", i, s)
              /\ Reads(s, "some", <<"fetched">>)
      /\ UNCHANGED <<od_stmt, od_scan, od_srv>>

\* the rows are read to their end, or an error is returned before
Fetched(s) ==
  /\ At(s, "fetched")
  /\ Reads(s, "all", <<"unlock">>) \/ Return
  /\ UNCHANGED <<od_stmt, od_conn, od_scan, od_srv>>

SQLMoreResults(s) ==
  /\ Calling(s) /\ s \in od_conn.tds
  /\ Reads(s, "some", <<"results">>)
  /\ UNCHANGED <<od_stmt, od_conn, od_scan, od_srv>>

SQLCancel(s) ==
  /\ Calling(s) /\ s \in od_conn.tds
  /\ Reads(s, "cancel", <<"unlock">>)
  /\ UNCHANGED <<od_stmt, od_conn, od_scan, od_srv>>

---------------------------------------------------------------------------
(* SQLFreeStmt, SQLEndTran and SQLDisconnect.                              *)

\* what is left of its own answer is cancelled first
FreeStages(s, stages) ==
  IF s \in od_conn.tds /\ od_conn.state = "pending"
  THEN Reads(s, "cancel", stages) ELSE Enter(s, stages)

SQLFreeStmtClose(s) ==
  /\ Calling(s) /\ FreeStages(s, <<"free_cursor">>)
  /\ UNCHANGED <<od_stmt, od_conn, od_scan, od_srv>>

SQLFreeStmtDrop(s) ==
  /\ Calling(s) /\ FreeStages(s, <<"free_cursor", "free_dynamic", "drop">>)
  /\ UNCHANGED <<od_stmt, od_conn, od_scan, od_srv>>

\* on a dead connection the freed statement remains its owner
Drop(s) ==
  /\ At(s, "drop") /\ Goes(s)
  /\ od_stmt' = [od_stmt EXCEPT ![s] = FreeStmt]
  /\ od_conn' = [Unlocked(od_conn, s) EXCEPT !.tds = @ \ {s}]
  /\ UNCHANGED <<od_scan, od_srv>>

\* change_transaction reads what a statement left of its answer
SQLEndTran ==
  /\ od_call = NoCall /\ od_conn.state # "dead"
  /\ IF od_conn.state = "pending" THEN Reads("dbc", "all", <<"commit">>)
                                  ELSE Enter("dbc", <<"commit">>)
  /\ UNCHANGED <<od_stmt, od_conn, od_scan, od_srv>>

Commit ==
  /\ At("dbc", "commit")
  /\ IF od_conn.state # "idle" \/ od_call.rc \in {"fail", "error"}
     THEN Return /\ UNCHANGED od_conn
     ELSE /\ od_conn' = Requested(od_conn, "none", "dyn", NoObj, "dbc")
          /\ Reads("dbc", "all", <<"stay">>)
  /\ UNCHANGED <<od_stmt, od_scan, od_srv>>

\* the statements were freed; the lists and the last request let go
SQLDisconnect ==
  LET holders(i) == {k \in Kinds : od_conn.cur[k] = i}
                      \cup (IF i \in Listed(od_conn) THEN {"list"} ELSE {})
      left(i) == od_conn.obj[i].refs - Cardinality(holders(i))
  IN  /\ od_call = NoCall /\ \A s \in Stmts : ~od_stmt[s].live
      /\ od_conn' = [NewConnection EXCEPT !.obj =
           [i \in Objs |-> IF left(i) = 0 THEN FreeObj
                           ELSE [od_conn.obj[i] EXCEPT !.refs = left(i)]]]
      /\ od_srv' = [k \in Kinds |-> {}]
      /\ UNCHANGED <<od_stmt, od_call, od_scan>>

---------------------------------------------------------------------------
(* tds_process_tokens.                                                     *)

Receiving == od_call.read # "no" /\ od_call.last = "none"
ReadReturns(rc) == od_call' = [od_call EXCEPT !.read = "no", !.last = "none",
                                       !.error = FALSE, !.rc = rc]

\* nothing is left to be read, or nothing comes any more
ReadNothing ==
  /\ Receiving /\ od_conn.state # "pending"
  /\ ReadReturns(IF od_conn.state = "idle" THEN "over" ELSE "fail")
  /\ UNCHANGED <<od_stmt, od_conn, od_scan, od_srv>>

\* the call got what it wanted before the end of the answer
ReadSome ==
  /\ Receiving /\ od_conn.state = "pending" /\ od_call.read = "some"
  /\ od_conn.op \notin {"cursoropen", "cursoroption"}
  /\ ReadReturns("stop")
  /\ UNCHANGED <<od_stmt, od_conn, od_scan, od_srv>>

Dead(conn) == [conn EXCEPT !.state = "dead", !.by = "none"]

ReadDies ==
  /\ Receiving /\ od_conn.state = "pending"
  /\ od_conn' = Dead(od_conn) /\ od_srv' = [k \in Kinds |-> {}]
  /\ ReadReturns("fail")
  /\ UNCHANGED <<od_stmt, od_scan>>

\* the scan visits object i of a list, holding it
Visits(conn, list, i) ==
  /\ od_conn' = Taken(conn, i)
  /\ od_scan' = [NoScan EXCEPT !.list = list, !.at = i, !.all = od_scan.all]

First(conn, kind) == IF conn.list[kind] = <<>> THEN NoObj ELSE Head(conn.list[kind])

(***************************************************************************)
(* The end of an answer.  The parameters before it tell the handle of what *)
(* was prepared or opened; of a cancelled request the server may keep one  *)
(* and not tell it.  Then the connection is idle, and if closes are        *)
(* pending they are made before anything else is done with that token.     *)
(***************************************************************************)
LastToken ==
  \E told, kept, error \in BOOLEAN, last \in {"done", "doneproc"} :
    LET op == od_conn.op
        kind == IF op \in {"cursoropen", "cursorclose"} THEN "cursor" ELSE "dyn"
        i == od_conn.cur[kind]
        idle == [od_conn EXCEPT !.state = "idle", !.by = "none",
                   !.pending_close = FALSE, !.obj =
                     IF told THEN [@ EXCEPT ![i].known = TRUE] ELSE @]
    IN  /\ Receiving /\ od_conn.state = "pending"
        /\ told => kept
        /\ kept => op \in {"prepare", "prepexec", "cursoropen"}
        /\ kept # told => od_call.read = "cancel"
        /\ error => op # "unprepare" /\ (told => op = "prepexec")
        /\ IF od_call.read = "cancel" THEN last = "done" /\ ~error
           ELSE op # "none" => last = "doneproc"
        /\ od_call' = [od_call EXCEPT !.last = last, !.error = error]
        /\ od_srv' = [od_srv EXCEPT ![kind] =
             CASE kept -> @ \cup {i}
               [] op \in {"unprepare", "cursorclose"} -> @ \ {i}
               [] OTHER -> @]
        /\ IF od_conn.pending_close
           THEN Visits(idle, "cursor", First(idle, "cursor"))
           ELSE od_conn' = idle /\ UNCHANGED od_scan
        /\ UNCHANGED od_stmt

\* what tds_process_tokens does on DONEPROC depends on the operation of the
\* last request sent, which is that of a pending close if one was made
DoneProc(conn) ==
  CASE conn.op = "cursorclose" /\ conn.cur["cursor"] # NoObj ->
         [conn EXCEPT !.obj[conn.cur["cursor"]].known = FALSE]
    [] conn.op = "unprepare" /\ ~od_call.error ->
         Deallocated(conn, "dyn", conn.cur["dyn"])
    [] OTHER -> conn

AnswerOver ==
  /\ od_call.last # "none" /\ od_scan.list = "off"
  /\ IF od_call.last = "doneproc"
     THEN od_conn' = DoneProc(od_conn) ELSE UNCHANGED od_conn
  /\ CASE /\ od_call.last = "doneproc"
          /\ od_conn.op \in {"cursorclose", "unprepare", "cursorfetch",
                             "cursoroption"} -> ReadReturns("over")
       [] OTHER ->
            CASE od_conn.state = "dead" -> ReadReturns("fail")
              [] od_call.error -> ReadReturns("error")
              [] od_conn.op = "execute" -> ReadReturns("stop")
              [] OTHER -> ReadReturns("over") \/ ReadReturns("stop")
  /\ UNCHANGED <<od_stmt, od_scan, od_srv>>

---------------------------------------------------------------------------
(* tds_process_pending_closes: the cursors, then the prepared statements.  *)

Scanning == od_scan.list # "off" /\ od_scan.at # NoObj /\ ~od_scan.wait

NextOf(conn, i) ==
  LET list == conn.list[od_scan.list]
      after == {n \in DOMAIN list : n > 1 /\ list[n - 1] = i}
  IN  IF after = {} THEN NoObj ELSE list[CHOOSE n \in after : TRUE]

\* the object visited is let go; next, held already, is the one after it
Steps(conn, next, all) ==
  /\ od_conn' = Released(conn, od_scan.at)
  /\ od_scan' = [NoScan EXCEPT !.list = od_scan.list, !.at = next, !.all = all]

\* the object after the one visited is held meanwhile
PendingClose ==
  LET i == od_scan.at
      next == NextOf(od_conn, i)
      held == Taken(od_conn, next)
  IN  /\ Scanning
      /\ CASE od_conn.obj[i].defer /\ od_conn.state = "idle" ->
                /\ od_conn' = Requested(held,
                     IF od_scan.list = "dyn" THEN "unprepare" ELSE "cursorclose",
                     od_scan.list, i, "close")
                /\ od_scan' = [od_scan EXCEPT !.next = next, !.wait = TRUE]
           [] od_conn.obj[i].defer /\ od_conn.state # "idle" ->
                Steps(held, next, FALSE)
           [] OTHER -> Steps(held, next, od_scan.all)
      /\ UNCHANGED <<od_stmt, od_call, od_srv>>

\* the server closes what it is asked to
PendingClosed ==
  LET kind == od_scan.list
      idle == [od_conn EXCEPT !.state = "idle", !.by = "none",
                              !.obj[od_scan.at].defer = FALSE]
  IN  /\ od_scan.wait
      /\ Steps(Deallocated(idle, kind, od_scan.at), od_scan.next, od_scan.all)
      /\ od_srv' = [od_srv EXCEPT ![kind] = @ \ {od_scan.at}]
      /\ UNCHANGED <<od_stmt, od_call>>

PendingDies ==
  /\ od_scan.wait
  /\ Steps(Dead(od_conn), od_scan.next, FALSE)
  /\ od_srv' = [k \in Kinds |-> {}]
  /\ UNCHANGED <<od_stmt, od_call>>

ListOver ==
  /\ od_scan.list # "off" /\ od_scan.at = NoObj
  /\ IF od_scan.list = "cursor" THEN Visits(od_conn, "dyn", First(od_conn, "dyn"))
     ELSE /\ od_conn' = [od_conn EXCEPT !.pending_close = ~od_scan.all]
          /\ od_scan' = NoScan
  /\ UNCHANGED <<od_stmt, od_call, od_srv>>

---------------------------------------------------------------------------

Calls(s) ==
  \/ SQLAllocStmt(s, TRUE) \/ SQLAllocStmt(s, FALSE) \/ SQLBindParameter(s)
  \/ SQLPrepare(s) \/ SQLExecute(s) \/ SQLExecDirect(s) \/ SQLNumResultCols(s)
  \/ FetchResult(s) \/ FetchCursor(s) \/ SQLMoreResults(s) \/ SQLCancel(s)
  \/ SQLFreeStmtClose(s) \/ SQLFreeStmtDrop(s)

Stages(s) ==
  \/ FreeDynamic(s) \/ Unprepared(s) \/ FreeCursor(s) \/ CursorClosed(s)
  \/ SetQuery(s) \/ ExecuteRefused(s) \/ ExecuteQuery(s) \/ ExecuteFirst(s)
  \/ PrepExec(s) \/ ExecuteAgain(s) \/ ExecuteCursor(s) \/ CursorOpened(s)
  \/ Finish(s) \/ Prepared(s) \/ Fetched(s) \/ Drop(s)

OdNext ==
  \/ \E s \in Stmts : Calls(s) \/ Stages(s)
  \/ SQLEndTran \/ Commit \/ Finish("dbc") \/ SQLDisconnect
  \/ ReadNothing \/ ReadSome \/ ReadDies \/ LastToken \/ AnswerOver
  \/ PendingClose \/ PendingClosed \/ PendingDies \/ ListOver

OdSpec == OdInit /\ [][OdNext]_odvars

---------------------------------------------------------------------------
(* Properties.                                                             *)

\* Objects and lists are well formed; a request is about an object of its kind.
OdTypeOK ==
  /\ od_conn.obj \in [Objs -> [kind : Kinds \cup {"free"}, refs : 0..6,
                               known : BOOLEAN, defer : BOOLEAN]]
  /\ \A k \in Kinds :
       /\ IsInjective(od_conn.list[k])
       /\ \A i \in (ToSet(od_conn.list[k]) \cup {od_conn.cur[k]}) \ {NoObj} :
            od_conn.obj[i].kind = k
  /\ od_conn.state = "pending" => od_call # NoCall \/ od_conn.by \in Stmts

\* The reference count of a prepared statement or cursor is the number of its
\* holders: the connection's list, the last request, the statements, the scan
\* of pending closes.  Nothing is freed that is still referred to.
CountsAgree ==
  \A i \in Objs :
    od_conn.obj[i].refs =
      Cardinality({k \in Kinds : od_conn.cur[k] = i})
      + Cardinality({h \in Stmts \X Kinds : od_stmt[h[1]].has[h[2]] = i})
      + (IF i \in Listed(od_conn) THEN 1 ELSE 0)
      + (IF od_scan.at = i THEN 1 ELSE 0) + (IF od_scan.next = i THEN 1 ELSE 0)

\* A prepared handle of the server is not lost while the connection lives, and
\* a close that had to be deferred is made as soon as the connection is idle.
NothingForgotten ==
  /\ od_srv["dyn"] \subseteq ToSet(od_conn.list["dyn"])
  /\ od_call = NoCall =>
       \A i \in Listed(od_conn) : od_conn.obj[i].defer =>
         /\ od_conn.pending_close
         /\ od_conn.state # "idle"

\* A statement that reads, or cancels, reads the answer to its own request.
ReadsOwn ==
  od_call.read \in {"some", "cancel"} /\ od_conn.state = "pending"
    /\ od_scan.list = "off" => od_conn.by = od_call.stmt

\* Only the statement that owns the connection has its socket (odbc.c:848).
OneOwner ==
  od_conn.tds = {s \in Stmts : s = od_conn.current /\ od_stmt[s].live}

\* However the statements of a connection take turns, the one that has the
\* socket owns the connection, and what it reads answers its own request
\* (odbc_lock_statement).
OwnerReadsOwn == OneOwner /\ ReadsOwn

\* The cursors the server holds are those the connection lists (tds.h:1112),
\* so that each is closed in the end.
CursorsListed == od_srv["cursor"] \subseteq ToSet(od_conn.list["cursor"])
=============================================================================

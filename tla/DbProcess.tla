----------------------------- MODULE DbProcess -----------------------------
(***************************************************************************)
(* A DBPROCESS of db-lib (FreeTDS, src/dblib/dblib.c and rpc.c): sending a *)
(* batch or remote procedure calls, dbsqlok, dbresults, dbnextrow, the row *)
(* buffer and the calls that move in it, dbcanquery, dbcancel.  One thread *)
(* uses it; the calls come in any order the library lets pass, except that *)
(* dbsqlok follows a send.  A function that reads tokens in a loop is an   *)
(* action per token.                                                       *)
(*                                                                         *)
(* Messages, return values and compute rows are left out.                  *)
(***************************************************************************)
EXTENDS DbRowBuffer, TdsTokens, Sequences

CONSTANTS Capacities, \* what dbsetopt(DBBUFFER) is called with
          Procs,      \* names of remote procedures
          MaxTokens,  \* bound: tokens in an answer
          MaxSends    \* bound: requests the application sends

ASSUME DbAssumption == /\ Capacities \subseteq Nat \ {0, 1}
                       /\ MaxTokens \in Nat \ {0} /\ MaxSends \in Nat

VARIABLES row_buf,          \* dbproc->row_buf
          buffering,        \* dbopts[DBBUFFER].factive
          dbresults_state,
          rpc,              \* dbproc->rpc: the procedures to call
          stream,           \* the answer: its next token, how many may follow
          current_row,      \* the row of the result set that was read last
          at,               \* the token loop the thread is in
          app               \* history of what the application has seen

dbvars == <<row_buf, buffering, dbresults_state, rpc, stream, current_row, at,
            app>>

ResultStates == {"INIT", "RESULTSET_EMPTY", "RESULTSET_ROWS", "NEXT_RESULT",
                 "NO_MORE_RESULTS", "SUCCEED"}

(***************************************************************************)
(* app.at_row: the row after which dbnextrow is to go on, or Cleared when  *)
(* that one was cleared; app.got: what was transferred last; app.skipped:  *)
(* rows were read and thrown away; app.untold: result sets opened and not  *)
(* announced by dbresults; app.sent: how often each procedure was sent     *)
(* since its dbrpcinit; app.muddled: a send failed, results pending;       *)
(* app.owes: dbsqlok is due; app.left: requests it may still send;         *)
(* app.fault: how the program died.                                        *)
(***************************************************************************)
Cleared == -1
NoTransfer == [row |-> 0, data |-> 0, want |-> 0]

DbInit ==
  /\ row_buf = WithCapacity(1) /\ buffering = FALSE
  /\ dbresults_state = "INIT" /\ rpc = <<>>
  /\ stream = [tok |-> Nothing, left |-> 0]
  /\ current_row = 0 /\ at = "out"
  /\ app = [at_row |-> 0, got |-> NoTransfer, skipped |-> FALSE, untold |-> 0,
            sent |-> [p \in Procs |-> 0], muddled |-> FALSE, owes |-> FALSE,
            left |-> MaxSends, fault |-> "none"]

pending == stream.tok.kind # "none"  \* tds->state is TDS_PENDING

---------------------------------------------------------------------------
(* Tokens.                                                                 *)

\* the token at the head is read and the next one arrives
Consume ==
  \E next \in After(stream.tok, stream.left) :
    stream' = [tok |-> next,
               left |-> IF next = Nothing THEN 0 ELSE stream.left - 1]

\* a request reaches the server, which begins to answer
Answer ==
  \E next \in Starts(MaxTokens) :
    stream' = [tok |-> next, left |-> MaxTokens - 1]

Crash(how) ==
  /\ at' = "dead" /\ app' = [app EXCEPT !.fault = how]
  /\ UNCHANGED <<row_buf, buffering, dbresults_state, rpc, stream, current_row>>

\* a new result set begins: the row buffer is emptied
OpenResultSet ==
  /\ row_buf' = Emptied(row_buf)
  /\ current_row' = 0
  /\ dbresults_state' = "RESULTSET_EMPTY"

Opened == [app EXCEPT !.at_row = 0, !.skipped = FALSE, !.untold = @ + 1]

---------------------------------------------------------------------------
(* Sending.                                                                *)

\* what a successful send leaves to the application
SentNow(n) == [app EXCEPT !.left = @ - n, !.untold = 0, !.owes = TRUE,
                          !.muddled = FALSE]

\* dbsqlsend: trailing DONE tokens are read first, anything else is pending
SqlSend ==
  /\ at = "out" /\ app.left > 0
  /\ at' = "sqlsend"
  /\ UNCHANGED <<row_buf, buffering, dbresults_state, rpc, stream, current_row,
                 app>>

SqlSendTrailing ==
  /\ at = "sqlsend" /\ stream.tok.kind \in {"done", "inproc"}
  /\ Consume
  /\ UNCHANGED <<row_buf, buffering, dbresults_state, rpc, current_row, at, app>>

SqlSendPending ==
  /\ at = "sqlsend" /\ stream.tok.kind \in {"row", "rowfmt"}
  /\ at' = "out" /\ app' = [app EXCEPT !.muddled = TRUE]
  /\ UNCHANGED <<row_buf, buffering, dbresults_state, rpc, stream, current_row>>

SqlSendQuery ==
  /\ at = "sqlsend" /\ ~pending
  /\ Answer
  /\ dbresults_state' = "INIT"
  /\ app' = SentNow(1)
  /\ at' = "out"
  /\ UNCHANGED <<row_buf, buffering, rpc, current_row>>

\* dbrpcinit refuses a name that is in the list; DBRPCRESET clears the list
RpcInit(p) ==
  /\ at = "out" /\ \A i \in DOMAIN rpc : rpc[i] # p
  /\ rpc' = Append(rpc, p)
  /\ app' = [app EXCEPT !.sent[p] = 0]
  /\ UNCHANGED <<row_buf, buffering, dbresults_state, stream, current_row, at>>

RpcReset ==
  /\ at = "out" /\ rpc # <<>>
  /\ rpc' = <<>>
  /\ UNCHANGED <<row_buf, buffering, dbresults_state, stream, current_row, at,
                 app>>

\* Faulty variant: the list outlives a call that succeeded.
RpcSendKeeping ==
  /\ at = "out" /\ rpc # <<>> /\ app.left > 0
  /\ dbresults_state' = "INIT"
  /\ IF pending
     THEN app' = [app EXCEPT !.muddled = TRUE] /\ UNCHANGED stream
     ELSE Answer /\ app' = [SentNow(1) EXCEPT !.sent[rpc[1]] = @ + 1]
  /\ UNCHANGED <<row_buf, buffering, rpc, current_row, at>>

\* dbrpcsend: every procedure is submitted in turn, which fails when results
\* are pending, hence for the second one; the list is cleared on success only
RpcSend ==
  /\ at = "out" /\ rpc # <<>> /\ app.left > 0
  /\ dbresults_state' = "INIT"
  /\ IF pending
     THEN /\ app' = [app EXCEPT !.muddled = TRUE]
          /\ UNCHANGED <<stream, rpc>>
     ELSE /\ Answer
          /\ rpc' = IF Len(rpc) = 1 THEN <<>> ELSE rpc
          /\ app' = [SentNow(1) EXCEPT !.sent[rpc[1]] = @ + 1]
  /\ UNCHANGED <<row_buf, buffering, current_row, at>>

---------------------------------------------------------------------------
(* dbsqlok.                                                                *)

SqlOk ==
  /\ at = "out" /\ app.owes
  /\ at' = "sqlok" /\ app' = [app EXCEPT !.owes = FALSE]
  /\ UNCHANGED <<row_buf, buffering, dbresults_state, rpc, stream, current_row>>

SqlOkRowFmt ==
  /\ at = "sqlok" /\ stream.tok.kind = "rowfmt"
  /\ Consume /\ OpenResultSet
  /\ app' = Opened /\ at' = "out"
  /\ UNCHANGED <<buffering, rpc>>

\* DONEINPROC goes on with the loop, DONE ends it
SqlOkInProc ==
  /\ at = "sqlok" /\ stream.tok.kind = "inproc"
  /\ Consume
  /\ UNCHANGED <<row_buf, buffering, dbresults_state, rpc, current_row, at, app>>

SqlOkDone ==
  /\ at = "sqlok" /\ stream.tok.kind = "done"
  /\ Consume
  /\ dbresults_state' = IF ~stream.tok.err THEN "SUCCEED"
                        ELSE IF stream.tok.more THEN "NEXT_RESULT"
                        ELSE "NO_MORE_RESULTS"
  /\ at' = "out"
  /\ UNCHANGED <<row_buf, buffering, rpc, current_row, app>>

\* rows of a result set dbresults opened before, or nothing
SqlOkEnd ==
  /\ at = "sqlok" /\ stream.tok.kind \in {"row", "none"}
  /\ at' = "out"
  /\ UNCHANGED <<row_buf, buffering, dbresults_state, rpc, stream, current_row,
                 app>>

---------------------------------------------------------------------------
(* dbresults.                                                              *)

\* rows outstanding, and the end, are answered at once
Results ==
  /\ at = "out"
  /\ dbresults_state \notin {"RESULTSET_ROWS", "NO_MORE_RESULTS"}
  /\ IF dbresults_state = "SUCCEED"
     THEN dbresults_state' = "NEXT_RESULT" /\ UNCHANGED at
     ELSE at' = "results" /\ UNCHANGED dbresults_state
  /\ UNCHANGED <<row_buf, buffering, rpc, stream, current_row, app>>

ResultsRowFmt ==
  /\ at = "results" /\ stream.tok.kind = "rowfmt"
  /\ Consume /\ OpenResultSet
  /\ app' = Opened
  /\ UNCHANGED <<buffering, rpc, at>>

Announced == [app EXCEPT !.untold = 0]

\* the row stays in the stream
ResultsRow ==
  /\ at = "results" /\ stream.tok.kind = "row"
  /\ dbresults_state' = "RESULTSET_ROWS"
  /\ app' = Announced /\ at' = "out"
  /\ UNCHANGED <<row_buf, buffering, rpc, stream, current_row>>

\* Faulty variant: only a result set with rows is worth returning for.
ResultsDoneQuietly ==
  /\ at = "results" /\ stream.tok.kind \in {"done", "inproc"}
  /\ Consume
  /\ dbresults_state' = "NEXT_RESULT"
  /\ at' = IF stream.tok.kind = "done" /\ stream.tok.err THEN "out" ELSE at
  /\ UNCHANGED <<row_buf, buffering, rpc, current_row, app>>

\* after a result set, even an empty one, SUCCEED; else FAIL, or on with the
\* loop
ResultsDone ==
  /\ at = "results" /\ stream.tok.kind \in {"done", "inproc"}
  /\ Consume
  /\ dbresults_state' = "NEXT_RESULT"
  /\ IF dbresults_state = "RESULTSET_EMPTY"
     THEN app' = Announced /\ at' = "out"
     ELSE /\ UNCHANGED app
          /\ at' = IF stream.tok.kind = "done" /\ stream.tok.err THEN "out"
                                                                 ELSE at
  /\ UNCHANGED <<row_buf, buffering, rpc, current_row>>

ResultsEnd ==
  /\ at = "results" /\ ~pending
  /\ dbresults_state' = "NO_MORE_RESULTS" /\ at' = "out"
  /\ UNCHANGED <<row_buf, buffering, rpc, stream, current_row, app>>

---------------------------------------------------------------------------
(* dbnextrow and the row buffer.                                           *)

\* the row at index idx is copied to the bound variables
Transfer(buf, idx, read) ==
  /\ row_buf' = Stepped(buf)
  /\ app' = [app EXCEPT !.at_row = buf.rows[idx].row,
               !.got = [row |-> buf.rows[idx].row,
                        data |-> DataOf(buf, idx, read),
                        want |-> app.at_row + 1]]

\* the current row is a buffered one.  The assertions are those of
\* buffer_current_index and buffer_transfer_bound_data.
NextRowBuffered ==
  /\ at = "out" /\ dbresults_state = "RESULTSET_ROWS" /\ HasCurrent(row_buf)
  /\ IF CurrentAsserted(row_buf) /\ row_buf.rows[row_buf.current].row # 0
     THEN /\ Transfer(row_buf, row_buf.current, current_row)
          /\ UNCHANGED <<buffering, dbresults_state, rpc, stream, current_row, at>>
     ELSE Crash("assert")

\* the next row is read from the server; without storage that is a null
\* pointer
NextRowRead ==
  /\ at = "out" /\ dbresults_state = "RESULTSET_ROWS" /\ ~HasCurrent(row_buf)
  /\ ~buffer_is_full(row_buf) /\ stream.tok.kind = "row"
  /\ IF row_buf.allocated
     THEN /\ Consume
          /\ current_row' = current_row + 1
          /\ LET buf == Added(Saved(row_buf, current_row))
             IN  Transfer(buf, buf.current, current_row + 1)
          /\ UNCHANGED <<buffering, dbresults_state, rpc, at>>
     ELSE Crash("null")

\* no row: a DONE, which is read, the next result set, which is not, or the
\* end of an answer that was cancelled
NextRowEnd ==
  /\ at = "out" /\ dbresults_state = "RESULTSET_ROWS" /\ ~HasCurrent(row_buf)
  /\ ~buffer_is_full(row_buf) /\ stream.tok.kind # "row"
  /\ row_buf' = Saved(row_buf, current_row)
  /\ IF stream.tok.kind \in {"done", "inproc"} THEN Consume ELSE UNCHANGED stream
  /\ dbresults_state' = "NEXT_RESULT"
  /\ UNCHANGED <<buffering, rpc, current_row, at, app>>

\* Faulty variant: the row is returned, and dbnextrow goes on elsewhere.
GetRowUnmoved(row) ==
  /\ at = "out"
  /\ IF ~row_buf.allocated THEN Crash("null")
     ELSE \E idx \in RowIndices(row_buf, row) :
            /\ app' = [app EXCEPT !.at_row = row,
                         !.got = [row |-> row, want |-> row,
                                  data |-> DataOf(row_buf, idx, current_row)]]
            /\ UNCHANGED <<row_buf, buffering, dbresults_state, rpc, stream,
                           current_row, at>>

\* dbgetrow and dbsetrow look the row up, dbgetrow transfers it too
GetRow(row) ==
  /\ at = "out"
  /\ IF ~row_buf.allocated THEN Crash("null")
     ELSE \E idx \in RowIndices(row_buf, row) :
            /\ row_buf' = Stepped([row_buf EXCEPT !.current = idx])
            /\ app' = [app EXCEPT !.at_row = row,
                         !.got = [row |-> row, want |-> row,
                                  data |-> DataOf(row_buf, idx, current_row)]]
            /\ UNCHANGED <<buffering, dbresults_state, rpc, stream, current_row,
                           at>>

SetRow(row) ==
  /\ at = "out"
  /\ IF ~row_buf.allocated THEN Crash("null")
     ELSE \E idx \in RowIndices(row_buf, row) :
            /\ row_buf' = [row_buf EXCEPT !.current = idx]
            /\ app' = IF row_buf.capacity > 1 THEN [app EXCEPT !.at_row = row - 1]
                       ELSE app
            /\ UNCHANGED <<buffering, dbresults_state, rpc, stream, current_row,
                           at>>

\* dbclrbuf: at least one row stays; the one dbnextrow was to return may go
ClrBuf(n) ==
  /\ at = "out" /\ n > 0 /\ buffering
  /\ LET count == buffer_count(row_buf)
         gone == IF n >= count THEN count - 1 ELSE n
     IN  /\ gone > 0
         /\ IF row_buf.allocated
            THEN /\ row_buf' = Deleted(row_buf, gone)
                 /\ app' = IF app.at_row < row_buf.received - count + gone
                           THEN [app EXCEPT !.at_row = Cleared] ELSE app
                 /\ UNCHANGED <<buffering, dbresults_state, rpc, stream,
                                current_row, at>>
            ELSE Crash("null")

\* dbsetopt and dbclropt(DBBUFFER): a new buffer, without storage until the
\* next result set
SetBuffer(n) ==
  /\ at = "out" /\ n \in Capacities
  /\ row_buf' = WithCapacity(n) /\ buffering' = TRUE
  /\ UNCHANGED <<dbresults_state, rpc, stream, current_row, at, app>>

ClrBuffer ==
  /\ at = "out"
  /\ row_buf' = WithCapacity(1) /\ buffering' = FALSE
  /\ UNCHANGED <<dbresults_state, rpc, stream, current_row, at, app>>

---------------------------------------------------------------------------
(* dbcanquery and dbcancel.                                                *)

CanQuery ==
  /\ at = "out"
  /\ at' = "canquery"
  /\ UNCHANGED <<row_buf, buffering, dbresults_state, rpc, stream, current_row,
                 app>>

\* rows are read and thrown away: they overwrite the row read last
CanQueryRow ==
  /\ at = "canquery" /\ stream.tok.kind = "row"
  /\ Consume
  /\ current_row' = current_row + 1
  /\ app' = [app EXCEPT !.skipped = TRUE]
  /\ UNCHANGED <<row_buf, buffering, dbresults_state, rpc, at>>

CanQueryEnd ==
  /\ at = "canquery" /\ stream.tok.kind # "row"
  /\ IF stream.tok.kind \in {"done", "inproc"} THEN Consume ELSE UNCHANGED stream
  /\ dbresults_state' = "NEXT_RESULT"
  /\ app' = Announced /\ at' = "out"
  /\ UNCHANGED <<row_buf, buffering, rpc, current_row>>

\* dbcancel: the answer is thrown away, dbresults_state is not touched
Cancel ==
  /\ at = "out" /\ pending
  /\ stream' = [tok |-> Nothing, left |-> 0]
  /\ current_row' = IF stream.tok.kind = "row" THEN current_row + 1 ELSE current_row
  /\ app' = [app EXCEPT !.skipped = (@ \/ stream.tok.kind = "row"), !.untold = 0]
  /\ UNCHANGED <<row_buf, buffering, dbresults_state, rpc, at>>

\* the connection breaks while a token is read: every call fails from then on
ReadFails ==
  /\ at \in {"sqlsend", "sqlok", "results", "canquery"} /\ pending
  /\ dbresults_state' = IF at = "results" THEN "INIT" ELSE dbresults_state
  /\ at' = "closed"
  /\ UNCHANGED <<row_buf, buffering, rpc, stream, current_row, app>>

NextRowFails ==
  /\ at = "out" /\ dbresults_state = "RESULTSET_ROWS" /\ ~HasCurrent(row_buf)
  /\ ~buffer_is_full(row_buf) /\ pending
  /\ row_buf' = Saved(row_buf, current_row) /\ at' = "closed"
  /\ UNCHANGED <<buffering, dbresults_state, rpc, stream, current_row, app>>

---------------------------------------------------------------------------

Sending ==
  \/ SqlSend \/ SqlSendTrailing \/ SqlSendPending \/ SqlSendQuery
  \/ (\E p \in Procs : RpcInit(p)) \/ RpcReset \/ RpcSend
  \/ SqlOk \/ SqlOkRowFmt \/ SqlOkInProc \/ SqlOkDone \/ SqlOkEnd

Reading ==
  \/ Results \/ ResultsRowFmt \/ ResultsRow \/ ResultsDone \/ ResultsEnd
  \/ NextRowBuffered \/ NextRowRead \/ NextRowEnd
  \/ CanQuery \/ CanQueryRow \/ CanQueryEnd \/ Cancel \/ ReadFails
  \/ NextRowFails

Moving ==
  \/ \E row \in 1..(row_buf.received + 1) : GetRow(row) \/ SetRow(row)
  \/ \E n \in 1..row_buf.capacity : ClrBuf(n)
  \/ (\E n \in Capacities : SetBuffer(n)) \/ ClrBuffer

DbNext == Sending \/ Reading \/ Moving

DbSpec == DbInit /\ [][DbNext]_dbvars

---------------------------------------------------------------------------
(* Properties.                                                             *)

\* The state, the buffer, the list of procedures and the history have the
\* shapes the code gives them.
DbTypeOK ==
  /\ dbresults_state \in ResultStates
  /\ row_buf.capacity \in Capacities \cup {1}
  /\ row_buf.head \in 0..(row_buf.capacity - 1)
  /\ row_buf.tail \in 0..row_buf.capacity
  /\ row_buf.current \in 0..row_buf.capacity
  /\ rpc \in Seq(Procs)
  /\ at \in {"out", "sqlsend", "sqlok", "results", "canquery", "closed", "dead"}

\* The rows between tail and head are consecutive, the last one is the last
\* received, and no other slot holds a row: however the buffer wrapped, was
\* cleared or was moved in (what buffer_check asserts, and more).
Ring ==
  LET n == buffer_count(row_buf)
  IN  row_buf.allocated =>
        /\ n = 0 <=> row_buf.tail = row_buf.capacity
        /\ n <= row_buf.received
        /\ \A i \in 0..(row_buf.capacity - 1) :
             LET age == IF i >= row_buf.tail THEN i - row_buf.tail
                        ELSE i + row_buf.capacity - row_buf.tail
             IN  row_buf.rows[i].row =
                   IF n # 0 /\ age < n THEN row_buf.received - n + age + 1 ELSE 0

\* Rows come in order: dbnextrow transfers the row after the last one it
\* transferred, or after the one dbgetrow or dbsetrow went to, and dbgetrow the
\* one asked for.
RowsInOrder == app.got.want # 0 => app.got.row = app.got.want

\* A transferred row is that row: its values were not overwritten by a later
\* row, unless dbcanquery or dbcancel threw rows of the result set away.
RowIsItself ==
  ~app.skipped =>
    \A i \in Filled(row_buf) :
      row_buf.allocated => DataOf(row_buf, i, current_row) = row_buf.rows[i].row

\* Whatever was read ahead of it and wherever the buffer was moved to, the row
\* the application gets is the one that is due, with the values it came with
\* (dbnextrow, dbgetrow, dbsetrow; buffering.h:525).
RowsAsReceived == RowsInOrder /\ RowIsItself

\* Every result set, an empty one too, is announced by one SUCCEED of dbresults
\* before the next one is opened or the end is reported.
EachAnnounced ==
  ~app.muddled =>
    /\ app.untold <= 1
    /\ dbresults_state \in {"NEXT_RESULT", "NO_MORE_RESULTS"} => app.untold = 0

\* A procedure called alone is sent once: while it is the only one in the list
\* it has not been sent.
SentOnce == Len(rpc) = 1 => app.sent[rpc[1]] = 0

\* The assertions of the row buffer hold.
AssertionsHold == app.fault # "assert"
=============================================================================

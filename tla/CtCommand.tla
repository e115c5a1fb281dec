----------------------------- MODULE CtCommand -----------------------------
(***************************************************************************)
(* The commands of a Client-Library connection (FreeTDS, src/ctlib/ct.c):  *)
(* ct_command, ct_send, ct_results, ct_fetch, ct_cancel, ct_cmd_drop.      *)
(* Several command structures share the connection, which carries one      *)
(* answer at a time.  One thread uses them, and follows the protocol: it   *)
(* fetches when ct_results told it to, and asks for results of a command   *)
(* that ct_send accepted.  ct_results handles one token per action; what a *)
(* cancel leaves of an answer is read at once (TdsSocket has the details). *)
(*                                                                         *)
(* Commands are language commands and remote procedures; dynamic SQL,      *)
(* cursors, text, parameters and compute rows are left out.                *)
(***************************************************************************)
EXTENDS TdsTokens

CONSTANTS Cmds,      \* command structures
          CtTokens,  \* bound: tokens in an answer
          CtSends    \* bound: requests sent

ASSUME CtAssumption == /\ "none" \notin Cmds
                       /\ CtTokens \in Nat \ {0} /\ CtSends \in Nat

VARIABLES ct_cmd,   \* the fields of the commands
          ct_wire,  \* the answer on the connection and whose it is
          ct_at,    \* the token loop the thread is in
          ct_app    \* history of what the application was told

ctvars == <<ct_cmd, ct_wire, ct_at, ct_app>>

NoAnswer == [owner |-> "none", tok |-> Nothing, left |-> 0, set |-> FALSE,
             in_cancel |-> FALSE]
Outside == [call |-> "out", cmd |-> "none", stop |-> FALSE]

\* a command just allocated; cur is curr_result_type, fetched row_prefetched
NewCmd == [state |-> "IDLE", results |-> "INIT", cancel |-> FALSE,
           cur |-> "none", fetched |-> FALSE]

(***************************************************************************)
(* ct_app.right: what the application may do with a command: build and     *)
(* send it, ask for results, or fetch them; ct_app.ends: results (commands *)
(* and result sets in procedures) that the answer being read has ended so  *)
(* far, ct_app.dones: CS_CMD_DONE it returned, ct_app.ended: its           *)
(* CS_END_RESULTS; ct_app.asked: a cancel was asked for and not reported;  *)
(* ct_app.unasked: CS_CANCELED was returned although none was;             *)
(* ct_app.foreign: a command read the answer of another; ct_app.crossed: a *)
(* cancel for a command hit the answer of another, or a request was        *)
(* accepted, the previous answer having been read, before another command  *)
(* got its CS_END_RESULTS.                                                 *)
(***************************************************************************)
CtInit ==
  /\ ct_cmd = [c \in Cmds |-> NewCmd]
  /\ ct_wire = NoAnswer /\ ct_at = Outside
  /\ ct_app = [right |-> [c \in Cmds |-> "build"], ends |-> 0, dones |-> 0,
               ended |-> FALSE, asked |-> {}, unasked |-> FALSE,
               foreign |-> FALSE, crossed |-> FALSE, left |-> CtSends]

---------------------------------------------------------------------------
(* The connection.                                                         *)

\* a token that ends what CS_CMD_DONE is returned for
EndsResult(wire) == \/ wire.tok.kind \in {"done", "doneproc"}
                    \/ wire.tok.kind = "inproc" /\ wire.set

\* the token at the head is read
Read ==
  \E next \in ProcAfter(ct_wire.tok, ct_wire.left) :
    ct_wire' = IF next = Nothing THEN NoAnswer
               ELSE [ct_wire EXCEPT !.tok = next, !.left = @ - 1,
                       !.set = \/ ct_wire.tok.kind = "rowfmt"
                               \/ ct_wire.tok.kind = "row"]

\* what the history keeps of command c reading that token
Seen(c) ==
  [ct_app EXCEPT !.foreign = @ \/ ct_wire.owner # c,
                 !.ends = IF EndsResult(ct_wire) THEN @ + 1 ELSE @]

\* tds_process_cancel: the rest of a cancelled answer is read
Settled == IF ct_wire.in_cancel THEN NoAnswer ELSE ct_wire

---------------------------------------------------------------------------
(* ct_cmd_alloc, ct_cmd_drop, ct_command and ct_send.                      *)

Building(c) == ct_at = Outside /\ ct_app.right[c] = "build"

ct_cmd_alloc(c) ==
  /\ ct_at = Outside /\ ct_app.right[c] = "dropped"
  /\ ct_cmd' = [ct_cmd EXCEPT ![c] = NewCmd]
  /\ ct_app' = [ct_app EXCEPT !.right[c] = "build"]
  /\ UNCHANGED <<ct_wire, ct_at>>

ct_cmd_drop(c) ==
  /\ Building(c)
  /\ ct_app' = [ct_app EXCEPT !.right[c] = "dropped", !.asked = @ \ {c}]
  /\ ct_cmd' = [ct_cmd EXCEPT ![c] = NewCmd]
  /\ UNCHANGED <<ct_wire, ct_at>>

\* CS_MORE leaves the text open.  Results, cancel and cur keep their values.
ct_command(c, more) ==
  /\ Building(c)
  /\ ct_cmd' = [ct_cmd EXCEPT ![c].state = IF more THEN "BUILDING" ELSE "READY"]
  /\ UNCHANGED <<ct_wire, ct_at, ct_app>>

Submitted(c) ==
  /\ \E next \in ProcStarts(CtTokens) :
       ct_wire' = [NoAnswer EXCEPT !.owner = c, !.tok = next,
                                   !.left = CtTokens - 1]
  /\ ct_app' = [ct_app EXCEPT !.right[c] = "results", !.ends = 0, !.dones = 0,
                  !.ended = FALSE, !.left = @ - 1, !.crossed = \/ @
                    \/ \E d \in Cmds : ct_app.right[d] \in {"results", "fetch"}]

\* Faulty variant: whether the request was submitted is not looked at.
ct_sendUnchecked(c) ==
  /\ Building(c) /\ ct_app.left > 0
  /\ ct_cmd[c].state # "IDLE" /\ ~ct_cmd[c].cancel
  /\ ct_cmd' = [ct_cmd EXCEPT ![c].results = "NONE", ![c].state = "SENT"]
  /\ IF ct_wire.owner = "none" THEN Submitted(c)
     ELSE /\ ct_app' = [ct_app EXCEPT !.right[c] = "results"]
          /\ UNCHANGED ct_wire
  /\ UNCHANGED ct_at

\* the request is refused while an answer is on the connection; the command
\* counts as sent all the same
ct_send(c) ==
  /\ Building(c) /\ ct_app.left > 0
  /\ ct_cmd[c].state # "IDLE" /\ ~ct_cmd[c].cancel
  /\ ct_cmd' = [ct_cmd EXCEPT ![c].results = "NONE", ![c].state = "SENT"]
  /\ IF ct_wire.owner = "none" THEN Submitted(c)
                               ELSE UNCHANGED <<ct_wire, ct_app>>
  /\ UNCHANGED ct_at

---------------------------------------------------------------------------
(* ct_results.                                                             *)

Returns(c, right) == ct_at' = Outside /\ ct_app' = [Seen(c) EXCEPT !.right[c] = right]

\* what the last call has read already is answered at once
ResultsKnown(c) ==
  /\ ct_at = Outside /\ ct_app.right[c] = "results" /\ ~ct_cmd[c].cancel
  /\ ct_cmd[c].results = "CMD_DONE"
  /\ ct_cmd' = [ct_cmd EXCEPT ![c].results = "INIT", ![c].fetched = FALSE]
  /\ ct_app' = [ct_app EXCEPT !.dones = @ + 1]
  /\ UNCHANGED <<ct_wire, ct_at>>

ct_results(c) ==
  /\ ct_at = Outside /\ ct_app.right[c] = "results" /\ ~ct_cmd[c].cancel
  /\ ct_cmd[c].results # "CMD_DONE"
  /\ ct_cmd' = [ct_cmd EXCEPT ![c].fetched = FALSE,
                  ![c].results = IF @ = "NONE" THEN "INIT" ELSE @]
  /\ ct_at' = [call |-> "results", cmd |-> c, stop |-> FALSE]
  /\ UNCHANGED <<ct_wire, ct_app>>

\* command c is in the loop and the next token is one of these
Meets(c, kinds) ==
  /\ ct_at.call = "results" /\ ct_at.cmd = c
  /\ ct_wire.tok.kind \in kinds /\ ~ct_wire.in_cancel

\* Faulty variant: DONE tokens go on being read after a row format.
RowFmtReadingOn(c) ==
  /\ Meets(c, {"rowfmt"})
  /\ Read /\ ct_app' = Seen(c)
  /\ ct_cmd' = [ct_cmd EXCEPT ![c].cur = "row", ![c].results = "RESULTSET_EMPTY"]
  /\ UNCHANGED ct_at

\* from here on a DONE stays on the connection
ResultsFormat(c) ==
  /\ Meets(c, {"rowfmt"})
  /\ Read /\ ct_app' = Seen(c)
  /\ ct_cmd' = [ct_cmd EXCEPT ![c].cur = "row", ![c].results = "RESULTSET_EMPTY"]
  /\ ct_at' = [ct_at EXCEPT !.stop = TRUE]

\* CS_ROW_RESULT; the row stays on the connection
ResultsRows(c) ==
  /\ Meets(c, {"row"})
  /\ ct_cmd' = [ct_cmd EXCEPT ![c].cur = "row", ![c].results = "RESULTSET_ROWS"]
  /\ ct_at' = Outside /\ ct_app' = [ct_app EXCEPT !.right[c] = "fetch"]
  /\ UNCHANGED ct_wire

\* DONE or DONEINPROC after a row format: first CS_ROW_RESULT, even for no rows
ResultsNoRows(c) ==
  /\ Meets(c, {"done", "inproc"}) /\ ct_cmd[c].results = "RESULTSET_EMPTY"
  /\ ct_cmd' = [ct_cmd EXCEPT ![c].cur = "done", ![c].results = "RESULTSET_ROWS"]
  /\ IF ct_at.stop
     THEN /\ ct_at' = Outside /\ ct_app' = [ct_app EXCEPT !.right[c] = "fetch"]
          /\ UNCHANGED ct_wire
     ELSE Read /\ Returns(c, "fetch")

\* then, called again, CS_CMD_DONE
ResultsSetDone(c) ==
  /\ Meets(c, {"done", "inproc"}) /\ ct_cmd[c].results = "RESULTSET_ROWS"
  /\ Read
  /\ ct_cmd' = [ct_cmd EXCEPT ![c].cur = "done", ![c].results = "INIT"]
  /\ ct_at' = Outside /\ ct_app' = [Seen(c) EXCEPT !.dones = @ + 1]

\* CS_CMD_SUCCEED or CS_CMD_FAIL, and CS_CMD_DONE at the next call
CommandDone(c) ==
  /\ Read
  /\ ct_cmd' = [ct_cmd EXCEPT ![c].cur = "done", ![c].results = "CMD_DONE"]
  /\ Returns(c, "results")

ResultsCmdDone(c) ==
  /\ Meets(c, {"done"}) /\ ct_cmd[c].results \in {"INIT", "STATUS"}
  /\ CommandDone(c)

ResultsDoneProc(c) == Meets(c, {"doneproc"}) /\ CommandDone(c)

\* a statement without results inside a procedure is passed over
ResultsInProc(c) ==
  /\ Meets(c, {"inproc"}) /\ ct_cmd[c].results \in {"INIT", "STATUS"}
  /\ Read /\ ct_app' = Seen(c)
  /\ ct_cmd' = [ct_cmd EXCEPT ![c].cur = "done"]
  /\ UNCHANGED ct_at

\* the return status is read here, and kept for ct_fetch
ResultsStatus(c) ==
  /\ Meets(c, {"status"})
  /\ Read
  /\ ct_cmd' = [ct_cmd EXCEPT ![c].cur = "status", ![c].results = "STATUS",
                              ![c].fetched = TRUE]
  /\ Returns(c, "fetch")

\* CS_END_RESULTS: the command can be sent again
ResultsOver(c) ==
  /\ Meets(c, {"none"})
  /\ ct_cmd' = [ct_cmd EXCEPT ![c].state = "READY"]
  /\ ct_at' = Outside
  /\ ct_app' = [ct_app EXCEPT !.right[c] = "build", !.ended = TRUE]
  /\ UNCHANGED ct_wire

---------------------------------------------------------------------------
(* Cancelled calls.                                                        *)

Canceled(c) == [ct_app EXCEPT !.right[c] = "build", !.asked = @ \ {c},
                              !.unasked = @ \/ c \notin ct_app.asked]

\* Faulty variant: the cancel stays pending.
CleanupForgetting(c) == UNCHANGED ct_cmd /\ ct_wire' = Settled

\* Faulty variant: what is left of the answer stays on the connection.
CleanupUnread(c) ==
  /\ ct_cmd' = [ct_cmd EXCEPT ![c].cancel = FALSE]
  /\ ct_wire' = [ct_wire EXCEPT !.in_cancel = FALSE]

_ct_cancel_cleanup(c) ==
  /\ ct_cmd' = [ct_cmd EXCEPT ![c].cancel = FALSE]
  /\ ct_wire' = Settled

\* ct_send, ct_results or ct_fetch (also that of CS_CANCEL_CURRENT) of a
\* command with a cancel pending
CanceledCall(c) ==
  /\ ct_at = Outside /\ ct_cmd[c].cancel /\ ct_app.right[c] # "dropped"
  /\ _ct_cancel_cleanup(c)
  /\ ct_app' = Canceled(c)
  /\ UNCHANGED ct_at

\* tokens are read for a command while another one's cancel is under way
CanceledReading(c) ==
  /\ ct_at.cmd = c /\ ct_wire.in_cancel
  /\ ct_wire' = NoAnswer
  /\ ct_cmd' = [ct_cmd EXCEPT ![c].cancel = FALSE]
  /\ ct_at' = Outside /\ ct_app' = Canceled(c)

---------------------------------------------------------------------------
(* ct_fetch, and ct_cancel(CS_CANCEL_CURRENT), which calls it until it     *)
(* returns something else than a row.                                      *)

_ct_fetchable_results(c) == ct_cmd[c].cur \in {"row", "status"}

ct_fetch(c) ==
  /\ ct_at = Outside /\ ct_app.right[c] = "fetch" /\ ~ct_cmd[c].cancel
  /\ ct_at' = [call |-> "fetch", cmd |-> c, stop |-> TRUE]
  /\ UNCHANGED <<ct_cmd, ct_wire, ct_app>>

CancelCurrent(c) ==
  /\ ct_at = Outside /\ ct_app.right[c] \in {"fetch", "results"}
  /\ _ct_fetchable_results(c) /\ ~ct_cmd[c].cancel
  /\ ct_at' = [call |-> "current", cmd |-> c, stop |-> TRUE]
  /\ UNCHANGED <<ct_cmd, ct_wire, ct_app>>

Fetching(c) == ct_at.cmd = c /\ ct_at.call \in {"fetch", "current"}
AfterRow == IF ct_at.call = "fetch" THEN Outside ELSE ct_at

FetchStored(c) ==
  /\ Fetching(c) /\ ct_cmd[c].fetched
  /\ ct_cmd' = [ct_cmd EXCEPT ![c].fetched = FALSE]
  /\ ct_at' = AfterRow
  /\ UNCHANGED <<ct_wire, ct_app>>

\* does the next token, which is looked at, go on with the current result?
GoesOn(c) == _ct_fetchable_results(c) => ct_wire.tok.kind = ct_cmd[c].cur

FetchRow(c) ==
  /\ Fetching(c) /\ ~ct_cmd[c].fetched /\ ct_cmd[c].results # "CMD_DONE"
  /\ GoesOn(c) /\ ct_wire.tok.kind = "row" /\ ~ct_wire.in_cancel
  /\ Read
  /\ ct_at' = AfterRow /\ ct_app' = Seen(c)
  /\ UNCHANGED ct_cmd

\* CS_END_DATA; a return status that comes now is lost
FetchEnd(c) ==
  /\ Fetching(c) /\ ~ct_cmd[c].fetched
  /\ \/ ct_cmd[c].results = "CMD_DONE" /\ UNCHANGED ct_wire
     \/ /\ ct_cmd[c].results # "CMD_DONE" /\ ct_wire.tok.kind # "none"
        /\ \/ ~GoesOn(c) /\ UNCHANGED ct_wire
           \/ /\ GoesOn(c) /\ ct_wire.tok.kind # "row" /\ ~ct_wire.in_cancel
              /\ IF ct_wire.tok.kind = "status" THEN Read ELSE UNCHANGED ct_wire
  /\ ct_at' = Outside
  /\ ct_app' = [ct_app EXCEPT !.right[c] = "results"]
  /\ UNCHANGED ct_cmd

\* the next token of an answer that is over is waited for
FetchHangs(c) ==
  /\ Fetching(c) /\ ~ct_cmd[c].fetched /\ ct_cmd[c].results # "CMD_DONE"
  /\ ct_wire.tok.kind = "none"
  /\ ct_at' = [call |-> "hung", cmd |-> c, stop |-> TRUE]
  /\ UNCHANGED <<ct_cmd, ct_wire, ct_app>>

---------------------------------------------------------------------------
(* ct_cancel for the commands S: one, or all those of the connection.      *)

\* the answer of a command outside S is hit
Hits(S) == ct_wire.owner \notin S \cup {"none"}

\* CS_CANCEL_ATTN: the attention is sent, the answer read by a later call
CancelAttn(S) ==
  LET hit == {c \in S : ct_cmd[c].state = "SENT" /\ ct_cmd[c].results # "NONE"}
  IN  /\ ct_at = Outside /\ hit # {}
      /\ ct_wire' = [ct_wire EXCEPT !.in_cancel = ct_wire.owner # "none"]
      /\ ct_cmd' = [c \in Cmds |-> IF c \in hit
                      THEN [ct_cmd[c] EXCEPT !.cancel = TRUE] ELSE ct_cmd[c]]
      /\ ct_app' = [ct_app EXCEPT !.asked = @ \cup hit, !.crossed = @ \/ Hits(hit)]
      /\ UNCHANGED ct_at

\* CS_CANCEL_ALL: the answer is read at once, the commands are initialised
CancelAll(S) ==
  LET sent == {c \in S : ct_cmd[c].state = "SENT"}
  IN  /\ ct_at = Outside
      /\ ct_wire' = IF sent = {} THEN ct_wire ELSE NoAnswer
      /\ ct_cmd' = [c \in Cmds |->
           IF c \in S THEN [ct_cmd[c] EXCEPT !.state = "IDLE",
                                             !.cancel = @ \/ c \in sent]
                      ELSE ct_cmd[c]]
      /\ ct_app' = [ct_app EXCEPT !.asked = @ \cup sent,
           !.crossed = @ \/ (sent # {} /\ Hits(S)),
           !.right = [c \in Cmds |-> IF c \in S THEN "build" ELSE @[c]]]
      /\ UNCHANGED ct_at

---------------------------------------------------------------------------

Allocated == {c \in Cmds : ct_app.right[c] # "dropped"}
Targets == {{c} : c \in Allocated} \cup {Allocated}

Starting(c) ==
  \/ ct_cmd_alloc(c) \/ ct_cmd_drop(c)
  \/ ct_command(c, TRUE) \/ ct_command(c, FALSE) \/ ct_send(c)
  \/ ct_results(c) \/ ResultsKnown(c)
  \/ ct_fetch(c) \/ CancelCurrent(c) \/ CanceledCall(c)

Tokens(c) ==
  \/ ResultsFormat(c) \/ ResultsRows(c) \/ ResultsNoRows(c)
  \/ ResultsSetDone(c) \/ ResultsCmdDone(c) \/ ResultsDoneProc(c)
  \/ ResultsInProc(c) \/ ResultsStatus(c) \/ ResultsOver(c)
  \/ CanceledReading(c)
  \/ FetchStored(c) \/ FetchRow(c) \/ FetchEnd(c) \/ FetchHangs(c)

CtNext ==
  \/ \E c \in Cmds : Starting(c) \/ Tokens(c)
  \/ \E S \in Targets : CancelAttn(S) \/ CancelAll(S)

CtSpec == CtInit /\ [][CtNext]_ctvars

---------------------------------------------------------------------------
(* Properties.                                                             *)

\* The fields have their types, and a command whose results may be read is
\* marked as sent: otherwise a cancel would not reach the server.
CtTypeOK ==
  /\ ct_cmd \in [Cmds -> [state : {"IDLE", "BUILDING", "READY", "SENT"},
                          results : {"NONE", "INIT", "RESULTSET_EMPTY",
                                     "RESULTSET_ROWS", "STATUS", "CMD_DONE"},
                          cancel : BOOLEAN, cur : {"none", "row", "status", "done"},
                          fetched : BOOLEAN]]
  /\ \A c \in Cmds : ct_app.right[c] \in {"results", "fetch"} =>
                       ct_cmd[c].state = "SENT"

\* A command reads the answer to its own request, whatever the others of the
\* connection try to send or cancel, unless they were crossed.
OwnResults == ct_app.foreign => ct_app.crossed

\* When ct_results has returned CS_END_RESULTS it has returned CS_CMD_DONE once
\* for every command and result set of the answer, with rows or without,
\* fetched to the end, in part or not at all.
EachCommandDone ==
  ct_app.ended /\ ~ct_app.crossed => ct_app.dones = ct_app.ends

\* CS_CANCELED is returned once for each cancel that was asked for.
CanceledMeansAsked == ct_app.unasked => ct_app.crossed

\* What ct_results and ct_fetch tell a command, results or CS_CANCELED, is about
\* its own request and its own cancel, not those of another command of the
\* connection (_ct_cancel_cleanup, ct_send).
ToldOfItsOwn == OwnResults /\ CanceledMeansAsked

\* When a command is over (CS_END_RESULTS, CS_CANCELED, CS_CANCEL_ALL) nothing
\* of its answer is left on the connection to refuse the next request.
OverMeansQuiet ==
  \A c \in Cmds : ct_app.right[c] \in {"build", "dropped"} => ct_wire.owner # c
=============================================================================

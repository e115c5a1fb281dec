----------------------------- MODULE TdsTokens -----------------------------
(***************************************************************************)
(* The answer of a server to a request, as the client libraries read it    *)
(* with tds_process_tokens: one token at a time, the next one unknown.     *)
(* A result set is a "rowfmt", rows and a "done", or, in a procedure, an   *)
(* "inproc" (DONEINPROC); a procedure ends with "status" and "doneproc".   *)
(* more and err are flags of the DONE tokens.  The answer is over after a  *)
(* done token without more.  Messages, output parameters and compute rows  *)
(* are left out.                                                           *)
(*                                                                         *)
(* left counts the tokens that may still come; it bounds an answer.        *)
(***************************************************************************)
EXTENDS Naturals

Token(kind, more, err) == [kind |-> kind, more |-> more, err |-> err]
Nothing == Token("none", FALSE, FALSE)
Row == Token("row", TRUE, FALSE)
RowFmt == Token("rowfmt", TRUE, FALSE)
Status == Token("status", TRUE, FALSE)
InProc == Token("inproc", TRUE, FALSE)

If(condition, token) == {t \in {token} : condition}

Dones(kind, left) ==
  {Token(kind, more, err) : more \in {m \in BOOLEAN : m => left > 1},
                            err \in BOOLEAN}
Ends(left) == Dones("done", left) \cup If(left > 1, InProc)

Starts(left) == Ends(left) \cup If(left > 1, RowFmt)
Inside(left) == Ends(left) \cup If(left > 1, Row)

\* what may follow a token
After(token, left) ==
  IF token.kind \in {"rowfmt", "row"} THEN Inside(left)
  ELSE IF token.more THEN Starts(left) ELSE {Nothing}

\* the same in an answer that may run procedures
ProcStarts(left) == Starts(left) \cup If(left > 1, Status)
ProcAfter(token, left) ==
  CASE token.kind \in {"rowfmt", "row"} -> Inside(left)
    [] token.kind = "status" -> Dones("doneproc", left)
    [] token.kind \notin {"rowfmt", "row", "status"} ->
         IF token.more THEN ProcStarts(left) ELSE {Nothing}
=============================================================================

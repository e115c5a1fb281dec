----------------------------- MODULE TdsSocket -----------------------------
(***************************************************************************)
(* A TDS connection as libtds keeps it (FreeTDS, src/tds; a build without  *)
(* MARS, one session per connection): the query state, the wire mutex that *)
(* its transitions take and release, and the cancel dialog.                *)
(*                                                                         *)
(* One thread uses the connection ("app"): it sends requests, bulk data,   *)
(* and reads results.  Any thread may cancel what runs (SQLCancel calls    *)
(* tds_send_cancel from the thread it is called in).  What is read from or *)
(* written to a shared field without a lock is a step of its own.          *)
(***************************************************************************)
EXTENDS Naturals, Sequences

CONSTANTS Cancellers,   \* other threads that call tds_send_cancel
          MaxRequests,  \* bound: requests the application sends
          MaxTokens,    \* bound: row and DONE(more) tokens per request
          MaxCancels    \* bound: calls of tds_send_cancel per other thread

ASSUME SocketAssumption == /\ "app" \notin Cancellers /\ "none" \notin Cancellers
                           /\ MaxRequests \in Nat /\ MaxTokens \in Nat
                           /\ MaxCancels \in Nat

VARIABLES state,      \* tds->state
          wire_mtx,   \* who holds tds->wire_mtx, or "none"
          in_cancel,  \* 0: no cancel; 1: to be sent; 2: sent
          wakeup,     \* conn->wakeup is signalled
          bulk_query, \* the request opens a bulk transfer
          app,        \* the application thread
          canceller,  \* the other threads
          up, down,   \* what is on its way to and from the server
          srv,        \* the server
          stray       \* history: some cancel was sent by another thread, or
                      \* while data were being sent

vars == <<state, wire_mtx, in_cancel, wakeup, bulk_query, app, canceller,
          up, down, srv, stray>>

wire == <<state, wire_mtx>>
cancel == <<in_cancel, wakeup>>
net == <<up, down, srv>>

States == {"IDLE", "WRITING", "SENDING", "PENDING", "READING", "DEAD"}

(***************************************************************************)
(* app.at: "out" of the library; "write", "bulk": filling the send buffer; *)
(* "flush": in tds_query_flush_packet, about to send the last packet;      *)
(* "read": in tds_process_tokens; "end": in tds_process_end, about to      *)
(* reset in_cancel; "settle": in tds_set_state, the mutex released and the *)
(* state not yet set.  app.seen is cancel_seen, app.stop tells whether the *)
(* caller wants to see the tokens, app.n numbers the requests.             *)
(***************************************************************************)
Init ==
  /\ state = "IDLE" /\ wire_mtx = "none"
  /\ in_cancel = 0 /\ wakeup = FALSE /\ bulk_query = FALSE
  /\ app = [at |-> "out", n |-> 0, seen |-> FALSE, stop |-> FALSE]
  /\ canceller = [c \in Cancellers |-> [at |-> "out", left |-> MaxCancels]]
  /\ up = <<>> /\ down = <<>>
  /\ srv = [alive |-> TRUE, runs |-> 0, left |-> 0, part |-> FALSE]
  /\ stray = FALSE

Packet(n, last) == [kind |-> "data", n |-> n, last |-> last]
CancelPacket == [kind |-> "cancel", n |-> 0, last |-> TRUE]

---------------------------------------------------------------------------
(* tds_set_state, for the application thread.                              *)

\* PENDING and SENDING: from a state that holds the mutex, which is released
Release(s) ==
  /\ state \in {"READING", "WRITING"}
  /\ state' = s /\ wire_mtx' = "none"

\* READING from PENDING, WRITING from IDLE or SENDING: both try the mutex
Acquire(s, from) ==
  /\ wire_mtx = "none" /\ state \in from
  /\ state' = s /\ wire_mtx' = "app"

---------------------------------------------------------------------------
(* The application sends.                                                  *)

\* tds_submit_query and its kin; with bulk, tds_bcp_start
Submit(bulk) ==
  /\ app.at = "out" /\ app.n < MaxRequests
  /\ Acquire("WRITING", {"IDLE", "SENDING"})
  /\ app' = [app EXCEPT !.at = "write", !.n = @ + 1]
  /\ bulk_query' = bulk
  /\ UNCHANGED <<cancel, canceller, net, stray>>

\* one packet of an unfinished message at a time, which bounds the wire
Room == up = <<>> /\ ~srv.part

\* a full buffer is written while the state is WRITING
WritePacket ==
  /\ app.at = "write" /\ srv.alive /\ Room
  /\ up' = Append(up, Packet(app.n, FALSE))
  /\ UNCHANGED <<wire, cancel, bulk_query, app, canceller, down, srv, stray>>

\* tds_query_flush_packet: PENDING first, then the last packet
QueryFlush ==
  /\ app.at = "write"
  /\ Release("PENDING")
  /\ app' = [app EXCEPT !.at = "flush"]
  /\ UNCHANGED <<cancel, bulk_query, canceller, net, stray>>

FlushPacket ==
  /\ app.at = "flush"
  /\ up' = IF state = "DEAD" \/ ~srv.alive THEN up
                                           ELSE Append(up, Packet(app.n, TRUE))
  /\ app' = [app EXCEPT !.at = "out"]
  /\ UNCHANGED <<wire, cancel, bulk_query, canceller, down, srv, stray>>

\* tds_bcp_send_record, tds_bcp_done, tds_writetext_continue and their kin
BulkStart ==
  /\ app.at = "out"
  /\ Acquire("WRITING", {"SENDING"})
  /\ app' = [app EXCEPT !.at = "bulk"]
  /\ UNCHANGED <<cancel, bulk_query, canceller, net, stray>>

\* a record stays in the buffer or fills a packet
BulkRecord ==
  /\ app.at = "bulk"
  /\ Release("SENDING")
  /\ \/ srv.alive /\ Room /\ up' = Append(up, Packet(app.n, FALSE))
     \/ UNCHANGED up
  /\ app' = [app EXCEPT !.at = "out"]
  /\ UNCHANGED <<cancel, bulk_query, canceller, down, srv, stray>>

\* tds_bcp_done: the last packet first, then PENDING
BulkDone ==
  /\ app.at = "bulk" /\ app.n < MaxRequests
  /\ Release("PENDING")
  /\ up' = IF srv.alive THEN Append(up, Packet(app.n + 1, TRUE)) ELSE up
  /\ app' = [app EXCEPT !.at = "out", !.n = @ + 1]
  /\ UNCHANGED <<cancel, bulk_query, canceller, down, srv, stray>>

---------------------------------------------------------------------------
(* The application reads.                                                  *)

\* tds_process_tokens; tds_process_cancel calls it with no wish to see any
\* token, and only when a cancel is under way
ProcessTokens(stop) ==
  /\ app.at = "out"
  /\ stop \/ in_cancel # 0
  /\ Acquire("READING", {"PENDING"})
  /\ app' = [app EXCEPT !.at = "read", !.seen = FALSE, !.stop = stop]
  /\ UNCHANGED <<cancel, bulk_query, canceller, net, stray>>

\* any token but a DONE that may end the response.  A message may make the
\* application's handler cancel.  A caller sees the token unless a cancel was
\* seen.
ReadToken(cancels) ==
  /\ app.at = "read" /\ down # <<>> /\ Head(down).kind = "more"
  /\ down' = Tail(down)
  /\ in_cancel' = IF cancels /\ in_cancel = 0 THEN 1 ELSE in_cancel
  /\ wakeup' = (wakeup \/ cancels)
  /\ LET seen == app.seen \/ in_cancel' # 0
     IN  \/ /\ app.stop /\ ~seen
            /\ Release("PENDING")
            /\ app' = [app EXCEPT !.at = "out"]
         \/ /\ app' = [app EXCEPT !.seen = seen]
            /\ UNCHANGED wire
  /\ UNCHANGED <<bulk_query, canceller, up, srv, stray>>

\* Faulty variant: any last DONE ends the response.
ReadDoneAnyway ==
  /\ app.at = "read" /\ down # <<>> /\ Head(down).kind # "more"
  /\ down' = Tail(down)
  /\ app' = [app EXCEPT !.at = "end"]
  /\ UNCHANGED <<wire, cancel, bulk_query, canceller, up, srv, stray>>

\* tds_process_end: the last DONE of a response, or the one that acknowledges
\* a cancel
ReadDone ==
  /\ app.at = "read" /\ down # <<>> /\ Head(down).kind # "more"
  /\ down' = Tail(down)
  /\ app' = IF Head(down).kind = "ack" \/ in_cancel = 0
            THEN [app EXCEPT !.at = "end"]
            ELSE [app EXCEPT !.seen = TRUE]
  /\ UNCHANGED <<wire, cancel, bulk_query, canceller, up, srv, stray>>

\* Faulty variant: in_cancel is kept when bulk data follow.
EndResponseKeeping ==
  /\ app.at = "end"
  /\ in_cancel' = IF bulk_query THEN in_cancel ELSE 0
  /\ wire_mtx' = "none"
  /\ app' = [app EXCEPT !.at = "settle"]
  /\ UNCHANGED <<state, wakeup, bulk_query, canceller, net, stray>>

\* in_cancel is reset and, in tds_set_state, the mutex is released ...
EndResponse ==
  /\ app.at = "end"
  /\ in_cancel' = 0 /\ wire_mtx' = "none"
  /\ app' = [app EXCEPT !.at = "settle"]
  /\ UNCHANGED <<state, wakeup, bulk_query, canceller, net, stray>>

\* ... before the state becomes IDLE, or SENDING when bulk data follow
SettleState ==
  /\ app.at = "settle"
  /\ state' = IF bulk_query THEN "SENDING" ELSE "IDLE"
  /\ bulk_query' = FALSE
  /\ app' = [app EXCEPT !.at = "out"]
  /\ UNCHANGED <<wire_mtx, cancel, canceller, net, stray>>

\* Faulty variant: the signal is read and nothing is sent.
NoticeWakeupOnly ==
  /\ app.at = "read" /\ wakeup /\ srv.alive
  /\ wakeup' = FALSE
  /\ UNCHANGED <<wire, in_cancel, bulk_query, app, canceller, net, stray>>

\* tds_goodread: poll reports the wakeup, and a cancel that waits is sent
NoticeWakeup ==
  /\ app.at = "read" /\ wakeup /\ srv.alive
  /\ wakeup' = FALSE
  /\ IF in_cancel = 1
     THEN up' = Append(up, CancelPacket) /\ in_cancel' = 2
     ELSE UNCHANGED <<up, in_cancel>>
  /\ UNCHANGED <<wire, bulk_query, app, canceller, down, srv, stray>>

\* tdserror, when the handler answers a timeout with TDS_INT_TIMEOUT: the
\* thread holds the mutex itself, so tds_send_cancel leaves it to the reader
CancelOnTimeout ==
  /\ \/ app.at = "read" /\ down = <<>> /\ ~wakeup
     \/ app.at \in {"write", "bulk"}
  /\ in_cancel' = IF in_cancel = 0 THEN 1 ELSE in_cancel
  /\ wakeup' = TRUE
  /\ UNCHANGED <<wire, bulk_query, app, canceller, net, stray>>

\* Faulty variant: nothing remembers that the cancel was sent.
CancelBetweenForgetting ==
  /\ app.at = "out" /\ wire_mtx = "none" /\ srv.alive
  /\ in_cancel = 0 /\ state \in {"PENDING", "SENDING"}
  /\ up' = Append(up, CancelPacket)
  /\ stray' = (stray \/ state = "SENDING")
  /\ UNCHANGED <<wire, cancel, bulk_query, app, canceller, down, srv>>

\* tds_send_cancel between two calls of the library
CancelBetween ==
  /\ app.at = "out" /\ wire_mtx = "none" /\ srv.alive
  /\ in_cancel = 0 /\ state \in {"PENDING", "SENDING"}
  /\ up' = Append(up, CancelPacket) /\ in_cancel' = 2
  /\ stray' = (stray \/ state = "SENDING")
  /\ UNCHANGED <<wire, wakeup, bulk_query, app, canceller, down, srv>>

\* a read or a write fails, or a timeout is answered with TDS_INT_CANCEL:
\* tds_connection_close
ConnectionClose ==
  /\ app.at \in {"read", "write", "bulk"}
  /\ state' = "DEAD" /\ wire_mtx' = "none"
  /\ app' = [app EXCEPT !.at = "out"]
  /\ srv' = [srv EXCEPT !.alive = FALSE]
  /\ up' = <<>> /\ down' = <<>>
  /\ UNCHANGED <<cancel, bulk_query, canceller, stray>>

---------------------------------------------------------------------------
(* tds_send_cancel in another thread.                                      *)

SendCancel(c) ==
  /\ canceller[c].at = "out" /\ canceller[c].left > 0
  /\ IF wire_mtx = "none"
     THEN wire_mtx' = c /\ canceller' = [canceller EXCEPT ![c].at = "locked"]
     ELSE /\ canceller' = [canceller EXCEPT ![c].at = "busy"]
          /\ UNCHANGED wire_mtx
  /\ UNCHANGED <<state, cancel, bulk_query, app, net, stray>>

Leave(c) == [canceller EXCEPT ![c] = [at |-> "out", left |-> @.left - 1]]

\* Faulty variant: the early return forgets the mutex.
PutCancelForgetting(c) ==
  /\ canceller[c].at = "locked"
  /\ IF in_cancel # 0 \/ state = "IDLE" \/ ~srv.alive
     THEN UNCHANGED <<wire_mtx, in_cancel, up, stray>>
     ELSE /\ in_cancel' = 2 /\ up' = Append(up, CancelPacket) /\ stray' = TRUE
          /\ wire_mtx' = "none"
  /\ canceller' = Leave(c)
  /\ UNCHANGED <<state, wakeup, bulk_query, app, down, srv>>

\* with the mutex: the packet is sent, unless one was or nothing runs
PutCancel(c) ==
  /\ canceller[c].at = "locked"
  /\ IF in_cancel # 0 \/ state = "IDLE" \/ ~srv.alive
     THEN UNCHANGED <<in_cancel, up, stray>>
     ELSE in_cancel' = 2 /\ up' = Append(up, CancelPacket) /\ stray' = TRUE
  /\ wire_mtx' = "none" /\ canceller' = Leave(c)
  /\ UNCHANGED <<state, wakeup, bulk_query, app, down, srv>>

\* without it: in_cancel is looked at, set, and the wakeup is sent
TestCancel(c) ==
  /\ canceller[c].at = "busy"
  /\ canceller' = [canceller EXCEPT ![c].at = IF in_cancel = 0 THEN "set"
                                                               ELSE "wake"]
  /\ UNCHANGED <<wire, cancel, bulk_query, app, net, stray>>

\* Faulty variant: in_cancel counts the cancels.
SetCancelCounting(c) ==
  /\ canceller[c].at = "set"
  /\ in_cancel' = in_cancel + 1 /\ stray' = TRUE
  /\ canceller' = [canceller EXCEPT ![c].at = "wake"]
  /\ UNCHANGED <<wire, wakeup, bulk_query, app, net>>

SetCancel(c) ==
  /\ canceller[c].at = "set"
  /\ in_cancel' = 1 /\ stray' = TRUE
  /\ canceller' = [canceller EXCEPT ![c].at = "wake"]
  /\ UNCHANGED <<wire, wakeup, bulk_query, app, net>>

WakeReader(c) ==
  /\ canceller[c].at = "wake"
  /\ wakeup' = TRUE /\ canceller' = Leave(c)
  /\ UNCHANGED <<wire, in_cancel, bulk_query, app, net, stray>>

---------------------------------------------------------------------------
(* The server: it runs a complete request, answers it with tokens of which *)
(* the last is a DONE without more, and answers a cancel, whatever runs,   *)
(* with a DONE that acknowledges it.                                       *)

Token(kind) == [kind |-> kind, n |-> srv.runs]

ServerTakesRequest ==
  /\ srv.alive /\ up # <<>> /\ Head(up).kind = "data" /\ srv.runs = 0
  /\ up' = Tail(up)
  /\ srv' = IF Head(up).last
            THEN [srv EXCEPT !.runs = Head(up).n, !.left = MaxTokens,
                             !.part = FALSE]
            ELSE [srv EXCEPT !.part = TRUE]
  /\ UNCHANGED <<wire, cancel, bulk_query, app, canceller, down, stray>>

ServerTakesCancel ==
  /\ srv.alive /\ up # <<>> /\ Head(up).kind = "cancel"
  /\ up' = Tail(up)
  /\ down' = Append(down, Token("ack"))
  /\ srv' = [srv EXCEPT !.runs = 0, !.left = 0, !.part = FALSE]
  /\ UNCHANGED <<wire, cancel, bulk_query, app, canceller, stray>>

ServerAnswers ==
  /\ srv.alive /\ srv.runs # 0
  /\ \/ srv.left > 0 /\ down' = Append(down, Token("more"))
                     /\ srv' = [srv EXCEPT !.left = @ - 1]
     \/ down' = Append(down, Token("done"))
        /\ srv' = [srv EXCEPT !.runs = 0, !.left = 0]
  /\ UNCHANGED <<wire, cancel, bulk_query, app, canceller, up, stray>>

---------------------------------------------------------------------------

AppReads ==
  \/ \E cancels \in BOOLEAN : ReadToken(cancels)
  \/ ReadDone \/ EndResponse \/ SettleState \/ NoticeWakeup
Other(c) == PutCancel(c) \/ TestCancel(c) \/ SetCancel(c) \/ WakeReader(c)
Server == ServerTakesRequest \/ ServerTakesCancel \/ ServerAnswers

Next ==
  \/ \E bulk \in BOOLEAN : Submit(bulk)
  \/ WritePacket \/ QueryFlush \/ FlushPacket
  \/ BulkStart \/ BulkRecord \/ BulkDone
  \/ \E stop \in BOOLEAN : ProcessTokens(stop)
  \/ AppReads \/ CancelOnTimeout \/ CancelBetween \/ ConnectionClose
  \/ \E c \in Cancellers : SendCancel(c) \/ Other(c)
  \/ Server

Spec == Init /\ [][Next]_vars

\* the reading thread runs, a thread inside tds_send_cancel runs, the server
\* answers
FairSpec ==
  /\ Spec
  /\ WF_vars(AppReads) /\ WF_vars(Server)
  /\ \A c \in Cancellers : WF_vars(Other(c))

---------------------------------------------------------------------------
(* Properties.                                                             *)

\* The state, flags, threads and wire have the shapes the code gives them.
TypeOK ==
  /\ state \in States
  /\ wire_mtx \in {"none", "app"} \cup Cancellers
  /\ in_cancel \in 0..2
  /\ wakeup \in BOOLEAN /\ bulk_query \in BOOLEAN /\ stray \in BOOLEAN
  /\ app.at \in {"out", "write", "bulk", "flush", "read", "end",
                 "settle"}
  /\ app.n \in 0..MaxRequests /\ app.seen \in BOOLEAN /\ app.stop \in BOOLEAN
  /\ \A c \in Cancellers :
       /\ canceller[c].at \in {"out", "locked", "busy", "set", "wake"}
       /\ canceller[c].left \in 0..MaxCancels
  /\ srv.alive \in BOOLEAN /\ srv.part \in BOOLEAN
  /\ srv.runs \in 0..MaxRequests /\ srv.left \in 0..MaxTokens

\* The application thread holds the wire mutex only in the states READING and
\* WRITING, and all the time it is inside the library but for the last moment;
\* another thread holds it only while it sends a cancel.  So the two never
\* write or read the socket at once, except for the last packet of a request.
WireLocked ==
  /\ wire_mtx = "app" <=> app.at \in {"write", "bulk", "read", "end"}
  /\ wire_mtx = "app" => state \in {"READING", "WRITING"}
  /\ state \in {"READING", "WRITING"} => wire_mtx = "app" \/ app.at = "settle"
  /\ \A c \in Cancellers : wire_mtx = c <=> canceller[c].at = "locked"

\* A cancel that was sent is answered: while in_cancel says so, the packet is
\* on its way, or its acknowledgement is, or it was just read.
CancelAnswered ==
  in_cancel = 2 /\ srv.alive =>
    \/ app.at = "end"
    \/ \E i \in DOMAIN up : up[i].kind = "cancel"
    \/ \E i \in DOMAIN down : down[i].kind = "ack"

\* An idle connection is ready for a new request: nothing of an earlier one
\* is on its way.  It is so as long as cancels come from the thread that uses
\* the connection, and not while it sends data.
QuietWhenIdle ==
  state = "IDLE" /\ ~stray => up = <<>> /\ down = <<>> /\ srv.runs = 0

\* What the comment of tds_process_cancel says, with threads that cancel:
\* after the acknowledgement the connection is ready for a new query.
ReadyAfterCancel ==
  state = "IDLE" => up = <<>> /\ down = <<>> /\ srv.runs = 0

\* A caller that sees no cancel reads the answer to its own request.
OwnAnswer ==
  app.at = "read" /\ ~stray /\ in_cancel = 0 /\ down # <<>> =>
    Head(down).n = app.n

\* Reading ends: a cancel noticed late, asked for twice or never sent does
\* not leave the reader waiting for an answer that does not come.
ReadingEnds == app.at = "read" ~> app.at = "out"
=============================================================================

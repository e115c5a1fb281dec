------------------------------ MODULE TdsPool ------------------------------
(***************************************************************************)
(* tdspool, the connection pool of FreeTDS: a single-threaded loop around  *)
(* select, and detached threads for what may block (reading a client's     *)
(* login, connecting to the server, answering a login), which report to    *)
(* the loop by events.                                                     *)
(*                                                                         *)
(* One iteration of the loop is a sequence of steps, one per event and one *)
(* per visited record, so the threads, the clients and the server act in   *)
(* between.  What a socket read meets is chosen when it is read.           *)
(***************************************************************************)
EXTENDS PoolRecords

CONSTANTS MaxUsers,  \* MAX_POOL_USERS
          Faults     \* what may go wrong, a subset of FaultKinds

FaultKinds == {"server",   \* the server closes or refuses connections
               "reset",    \* the dialog that cleans a session fails
               "memory",   \* an allocation fails
               "thread",   \* a thread cannot be created
               "ack",      \* the answer to a login cannot be written
               "write",    \* a socket write fails
               "age"}      \* connections exceed max_member_age

ASSUME LoopAssumption == /\ MaxUsers \in Nat /\ Faults \subseteq FaultKinds
                         /\ Cardinality(Members) >= MaxOpen

VARIABLES pool,     \* the TDS_POOL
          threads,  \* the detached threads that run
          events,   \* pool->events: the last added is the first
          loop,     \* where pool_main_loop is, and its local variables
          client,   \* the client programs
          server    \* the server's side of each connection

vars == <<pool, threads, events, loop, client, server>>

Fails(kind) == IF kind \in Faults THEN BOOLEAN ELSE {FALSE}
Succeeds(kind) == {~f : f \in Fails(kind)}

\* pool_mbr_init opens min_open_conn connections before anybody connects
Started(opened) ==
  [users |-> <<>>, waiters |-> <<>>, active |-> <<>>,
   idle |-> opened, num_active |-> MinOpen, num_users |-> 0,
   u |-> [u \in Users |-> FreshUser],
   m |-> [m \in Members |->
            IF m \in Range(opened)
            THEN [FreshMember EXCEPT !.st = "open", !.tds = TRUE,
                                     !.recv = TRUE]
            ELSE FreshMember]]

Init ==
  /\ pool \in {Started(s) : s \in {s \in [1..MinOpen -> Members] :
                                     IsInjective(s)}}
  /\ threads = {}
  /\ events = <<>>
  /\ loop = [at |-> "select", ready |-> {}, accept |-> FALSE,
             batch |-> <<>>, next |-> None]
  /\ client = [u \in Users |-> "out"]
  /\ server = [m \in Members |-> "up"]

---------------------------------------------------------------------------
(* The clients and the server.                                             *)

\* a client program connects; it is accepted by the loop
ClientConnects(u) ==
  /\ client[u] = "out" /\ pool.u[u].st = "free"
  /\ client' = [client EXCEPT ![u] = "dialing"]
  /\ UNCHANGED <<pool, threads, events, loop, server>>

\* it ends, or its connection breaks
ClientLeaves(u) ==
  /\ client[u] = "in"
  /\ client' = [client EXCEPT ![u] = "gone"]
  /\ UNCHANGED <<pool, threads, events, loop, server>>

ServerCloses(m) ==
  /\ "server" \in Faults
  /\ pool.m[m].tds /\ server[m] = "up"
  /\ server' = [server EXCEPT ![m] = "closed"]
  /\ UNCHANGED <<pool, threads, events, loop, client>>

\* records that are freed are free for another client and connection
Reset(p) ==
  /\ client' = [u \in Users |->
                  IF pool.u[u].st # "free" /\ p.u[u].st = "free"
                  THEN "out" ELSE client[u]]
  /\ server' = [m \in Members |->
                  IF p.m[m].tds THEN server[m] ELSE "up"]

---------------------------------------------------------------------------
(* Threads.                                                                *)

\* pool_user_login: a login of the pool's account, of 7.1 or later, or else
\* a failure; a client that is gone may have sent it before
LoginThread(t, ok, v) ==
  /\ t \in threads /\ t.kind = "login"
  /\ threads' = threads \ {t}
  /\ events' = <<[t EXCEPT !.ok = ok]>> \o events
  /\ pool' = IF ok THEN [pool EXCEPT !.u[t.u].login = TRUE,
                                     !.u[t.u].version = v]
                   ELSE pool
  /\ UNCHANGED <<loop, client, server>>

\* pool_user_send_login_ack: the settings the client asks for are sent to
\* the server; then the login is answered, and whether the answer could be
\* written is not looked at
LoginAck(p, u, m, written) ==
  [p EXCEPT !.u[u].login = FALSE, !.u[u].version = FirstVersion,
            !.u[u].dead = ~written, !.m[m].session = u]

AckWritten(u) == IF client[u] = "gone" /\ "ack" \in Faults THEN BOOLEAN
                                                           ELSE {TRUE}

EndLoginThread(t, ok, written) ==
  /\ t \in threads /\ t.kind = "end_login"
  /\ LET m == MemberOf(pool, t.u)
     IN  /\ written \in AckWritten(t.u)
         /\ pool' = IF ok THEN LoginAck(pool, t.u, m, written)
                          ELSE [pool EXCEPT !.m[m].session = t.u]
  /\ threads' = threads \ {t}
  /\ events' = <<[t EXCEPT !.ok = ok]>> \o events
  /\ UNCHANGED <<loop, client, server>>

\* connect_proc; a server may negotiate another version of the protocol
ConnectThread(t, ok, v, written) ==
  /\ t \in threads /\ t.kind = "connect"
  /\ LET m == t.m
         u == UserOf(pool, m)
         up == [pool EXCEPT !.m[m].tds = TRUE, !.m[m].version = v]
     IN  /\ written \in AckWritten(u)
         /\ pool' \in IF ok THEN {LoginAck(up, u, m, written)}
                            ELSE {pool, up}
  /\ threads' = threads \ {t}
  /\ events' = <<[t EXCEPT !.ok = ok]>> \o events
  /\ UNCHANGED <<loop, client, server>>

---------------------------------------------------------------------------
(* The loop: select and the events.                                        *)

Polled(p) ==
  {u \in Range(p.users) :
     ~p.u[u].dead /\ (p.u[u].recv \/ p.u[u].send)}
  \cup
  {m \in Range(p.active) :
     p.m[m].tds /\ (p.m[m].recv \/ p.m[m].send)}

\* sockets that select is sure to report
Ended ==
  {u \in Polled(pool) \cap Users : client[u] = "gone"}
  \cup {m \in Polled(pool) \cap Members : server[m] = "closed"}

Dialing == {u \in Users : client[u] = "dialing"}

\* select returns, never by a timeout; traffic is what peers happen to send
\* or take
Select(traffic) ==
  /\ loop.at = "select"
  /\ traffic \subseteq Polled(pool)
  /\ events # <<>> \/ Dialing # {} \/ Ended \cup traffic # {}
  /\ loop' = [loop EXCEPT !.at = IF events # <<>> THEN "detach" ELSE "accept",
                          !.ready = Ended \cup traffic,
                          !.accept = Dialing # {}]
  /\ UNCHANGED <<pool, threads, events, client, server>>

Detach ==
  /\ loop.at = "detach"
  /\ loop' = [loop EXCEPT !.at = "events", !.batch = events]
  /\ events' = <<>>
  /\ UNCHANGED <<pool, threads, client, server>>

\* pool_assign_idle_member and pool_user_query.  alloc and thread tell
\* whether the allocations and the creation of the thread succeed, new is
\* the member record that would be allocated.
UserQuery(p, u, alloc, thread, new) ==
  LET ready == [p EXCEPT !.u[u].st = "query"]
      m == IdleFor(ready, u)
  IN  IF m # None
      THEN IF alloc /\ thread
           THEN [pool |-> TakeIdle(ready, u),
                 runs |-> {[kind |-> "end_login", u |-> u, m |-> None,
                            ok |-> TRUE]}]
           ELSE [pool |-> FreeMember(TakeIdle(ready, u), m), runs |-> {}]
      ELSE IF p.num_active < MaxOpen /\ alloc /\ thread
      THEN [pool |-> OpenFor(ready, u, new),
            runs |-> {[kind |-> "connect", u |-> None, m |-> new,
                       ok |-> TRUE]}]
      ELSE [pool |-> PlaceInWait(ready, u), runs |-> {}]

\* connect_execute_ok
Connected(p, m) ==
  LET u == UserOf(p, m)
      q == [p EXCEPT !.m[m].async = FALSE]
  IN  IF u = None THEN q
      ELSE [q EXCEPT !.m[m].recv = TRUE, !.u[u].recv = TRUE,
                     !.u[u].st = "query"]

\* end_login_execute
LoginEnded(p, u) ==
  LET m == MemberOf(p, u)
  IN  [p EXCEPT !.u[u].recv = TRUE, !.u[u].send = FALSE,
                !.m[m].recv = TRUE, !.m[m].send = FALSE]

EventResult(e, alloc, thread, new, clean) ==
  LET same(p) == [pool |-> p, runs |-> {}]
  IN  CASE e.kind = "login" /\ e.ok ->
             UserQuery([pool EXCEPT !.u[e.u].recv = TRUE], e.u, alloc, thread,
                       new)
        [] e.kind = "login" /\ ~e.ok -> same(FreeUser(pool, e.u, clean))
        [] e.kind = "end_login" /\ e.ok -> same(LoginEnded(pool, e.u))
        [] e.kind = "end_login" /\ ~e.ok ->
             same(FreeMember(pool, MemberOf(pool, e.u)))
        [] e.kind = "connect" /\ e.ok -> same(Connected(pool, e.m))
        [] e.kind = "connect" /\ ~e.ok -> same(FreeMember(pool, e.m))

ExecuteEvent(alloc, thread, new, clean) ==
  /\ loop.at = "events" /\ loop.batch # <<>>
  /\ LET r == EventResult(Head(loop.batch), alloc, thread, new, clean)
     IN  /\ pool' = r.pool
         /\ threads' = threads \cup r.runs
         /\ Reset(r.pool)
  /\ loop' = [loop EXCEPT !.batch = Tail(@)]
  /\ UNCHANGED events

NewMember(p) == IF Unallocated(p) = {} THEN {None} ELSE Unallocated(p)

First(list) == IF list = <<>> THEN None ELSE Head(list)
After(list, x) ==
  LET rest == SubSeq(list, SelectInSeq(list, LAMBDA y: y = x) + 1, Len(list))
  IN  First(rest)

EventsDone ==
  /\ loop.at = "events" /\ loop.batch = <<>>
  /\ loop' = [loop EXCEPT !.at = "accept"]
  /\ UNCHANGED <<pool, threads, events, client, server>>

---------------------------------------------------------------------------
(* The loop: the sockets.                                                  *)

\* pool_user_create.  An allocation that fails after the record is in the
\* list leaves it there, without a socket.
Accept(u, alloc, thread) ==
  /\ loop.at = "accept" /\ loop.accept /\ u \in Dialing
  /\ LET room == pool.num_users < MaxUsers
         added == [pool EXCEPT !.users = Append(@, u), !.num_users = @ + 1,
                               !.u[u].st = "query"]
     IN  CASE room /\ alloc /\ thread ->
                /\ pool' = added
                /\ threads' = threads \cup
                     {[kind |-> "login", u |-> u, m |-> None,
                       ok |-> TRUE]}
                /\ client' = [client EXCEPT ![u] = "in"]
           [] room /\ ~alloc ->
                /\ pool' \in {pool, [added EXCEPT !.u[u].dead = TRUE]}
                /\ client' = [client EXCEPT ![u] = "out"]
                /\ UNCHANGED threads
           [] OTHER ->
                /\ client' = [client EXCEPT ![u] = "out"]
                /\ UNCHANGED <<pool, threads>>
  /\ loop' = [loop EXCEPT !.at = "users", !.next = First(pool'.users)]
  /\ UNCHANGED <<events, server>>

NobodyDials ==
  /\ loop.at = "accept" /\ ~loop.accept
  /\ loop' = [loop EXCEPT !.at = "users", !.next = First(pool.users)]
  /\ UNCHANGED <<pool, threads, events, client, server>>

\* a socket that is ready is read, or written; a closed one has no place in
\* the descriptor sets, and what looking it up answers is not defined
Ready(x, closed) == IF closed THEN BOOLEAN ELSE {x \in loop.ready}

(***************************************************************************)
(* What reading a user's packets ends in (pool_user_read): they are all    *)
(* forwarded (done), the member takes only a part (partial), the client is *)
(* gone or sends what is not a request (closed), or the member cannot be   *)
(* written (failed).                                                       *)
(***************************************************************************)
UserReads(p, u) ==
  LET m == MemberOf(p, u)
  IN  IF p.u[u].dead THEN {"closed"}
      ELSE {"closed"} \cup (IF "write" \in Faults \/ server[m] = "closed"
                            THEN {"failed"} ELSE {})
           \cup (IF client[u] = "gone" THEN {} ELSE {"done", "partial"})

UserRead(p, u, how, clean) ==
  LET m == MemberOf(p, u)
      asked == [p EXCEPT !.m[m].session = u]
  IN  CASE how = "done"    -> WriteUserToMember(asked, u, m, TRUE)
        [] how = "partial" -> WriteUserToMember(asked, u, m, FALSE)
        [] how = "closed"  -> FreeUser(p, u, clean)
        [] how = "failed"  -> ResetMember(p, m, clean)

\* the second half of a user's turn: what its member has for it
UserWrite(p, u, how) ==
  LET m == MemberOf(p, u)
  IN  IF how = "failed" THEN FreeMember(p, m)
      ELSE WriteMemberToUser(p, m, u, how = "done")

WriteEnds(peer_up, closed) ==
  IF closed THEN {"failed"}
  ELSE {"done", "partial"} \cup
       IF "write" \in Faults \/ ~peer_up THEN {"failed"} ELSE {}

ToUser(u) == WriteEnds(client[u] # "gone", pool.u[u].dead)

UserTurn(clean) ==
  LET u == loop.next
      d == pool.u[u].dead
  IN
  /\ loop.at = "users" /\ u # None
  /\ \E reads \in Ready(u, d), writes \in Ready(u, d) :
       \E how \in IF pool.u[u].recv THEN UserReads(pool, u) ELSE {"done"},
          out \in ToUser(u) :
         LET p == IF pool.u[u].recv /\ reads
                  THEN UserRead(pool, u, how, clean) ELSE pool
             q == IF p.u[u].send /\ writes
                  THEN UserWrite(p, u, out) ELSE p
         IN  pool' = q /\ Reset(q)
  /\ loop' = [loop EXCEPT !.next = After(pool.users, u)]
  /\ UNCHANGED <<threads, events>>

UsersDone ==
  /\ loop.at = "users" /\ loop.next = None
  /\ loop' = [loop EXCEPT !.at = "members", !.next = First(pool.active)]
  /\ UNCHANGED <<pool, threads, events, client, server>>

\* pool_process_data: the member's packets go to its user
MemberRead(p, m, how, clean) ==
  LET u == UserOf(p, m)
  IN  CASE how = "closed" -> FreeMember(p, m)
        [] how = "failed" -> FreeUser(p, u, clean)
        [] OTHER          -> WriteMemberToUser(p, m, u, how = "done")

MemberReads(m) ==
  IF server[m] = "closed" THEN {"closed"}
  ELSE ToUser(UserOf(pool, m))

MemberWrite(p, m, how) ==
  IF how = "failed" THEN FreeMember(p, m)
  ELSE WriteUserToMember(p, UserOf(p, m), m, how = "done")

MemberTurn(clean) ==
  LET m == loop.next
      read == pool.m[m].recv /\ m \in loop.ready
  IN
  /\ loop.at = "members" /\ m # None
  /\ IF pool.m[m].async
     THEN UNCHANGED <<pool, client, server>>
     ELSE \E how \in MemberReads(m), out \in WriteEnds(server[m] = "up", FALSE) :
            LET p == IF read THEN MemberRead(pool, m, how, clean) ELSE pool
                stop == read /\ how \in {"closed", "failed"}
                q == IF ~stop /\ p.m[m].send /\ m \in loop.ready
                     THEN MemberWrite(p, m, out) ELSE p
            IN  pool' = q /\ Reset(q)
  /\ loop' = [loop EXCEPT !.next = After(pool.active, m)]
  /\ UNCHANGED <<threads, events>>

MembersDone(old) ==
  /\ loop.at = "members" /\ loop.next = None
  /\ pool' = CloseOld(pool, old)
  /\ Reset(pool')
  /\ loop' = [loop EXCEPT !.at = "waiters", !.ready = {}]
  /\ UNCHANGED <<threads, events>>

\* Faulty variant: waiters are looked at only when somebody connects
ScheduleOnAccept(alloc, thread, new) ==
  /\ loop.at = "waiters"
  /\ IF loop.accept /\ pool.waiters # <<>> /\ pool.idle # <<>>
     THEN LET u == Head(pool.waiters)
              r == UserQuery(Requeue(pool, u), u, alloc, thread, new)
          IN  pool' = r.pool /\ threads' = threads \cup r.runs /\ Reset(r.pool)
     ELSE UNCHANGED <<pool, threads, client, server>>
  /\ loop' = [loop EXCEPT !.at = "select", !.accept = FALSE]
  /\ UNCHANGED events

\* pool_schedule_waiters: one waiter, and only when a connection is idle
ScheduleWaiters(alloc, thread, new) ==
  /\ loop.at = "waiters"
  /\ IF pool.waiters # <<>> /\ pool.idle # <<>>
     THEN LET u == Head(pool.waiters)
              r == UserQuery(Requeue(pool, u), u, alloc, thread, new)
          IN  pool' = r.pool /\ threads' = threads \cup r.runs /\ Reset(r.pool)
     ELSE UNCHANGED <<pool, threads, client, server>>
  /\ loop' = [loop EXCEPT !.at = "select", !.accept = FALSE]
  /\ UNCHANGED events

---------------------------------------------------------------------------

Steps ==
  \/ Detach \/ EventsDone \/ NobodyDials \/ UsersDone
  \/ \E old \in SUBSET (IF "age" \in Faults THEN Members ELSE {}) :
       MembersDone(old)
  \/ \E alloc \in Succeeds("memory"), thread \in Succeeds("thread") :
       \/ \E u \in Users : Accept(u, alloc, thread)
       \/ \E new \in NewMember(pool) :
            \/ ScheduleWaiters(alloc, thread, new)
            \/ \E clean \in Succeeds("reset") :
                 ExecuteEvent(alloc, thread, new, clean)
  \/ \E clean \in Succeeds("reset") : UserTurn(clean) \/ MemberTurn(clean)

\* select wakes up for what is there without any traffic
Wakes == Select({})

Thread ==
  \E t \in threads, v \in Versions :
    \/ \E ok \in BOOLEAN : LoginThread(t, ok, v)
    \/ \E ok \in Succeeds("server"), written \in BOOLEAN :
         \/ EndLoginThread(t, ok, written)
         \/ ConnectThread(t, ok, v, written)

Next ==
  \/ Steps
  \/ \E traffic \in SUBSET (Users \cup Members) : Select(traffic)
  \/ Thread
  \/ \E u \in Users : ClientConnects(u) \/ ClientLeaves(u)
  \/ \E m \in Members : ServerCloses(m)

Spec == Init /\ [][Next]_vars

\* the loop and the threads run, and no client stays for ever
FairSpec ==
  /\ Spec
  /\ WF_vars(Steps) /\ WF_vars(Wakes) /\ WF_vars(Thread)
  /\ \A u \in Users : WF_vars(ClientLeaves(u))

---------------------------------------------------------------------------
(* Properties.                                                             *)

AllEvents == Range(events) \cup Range(loop.batch)

\* The pool, its threads and events, the loop and its peers have the shapes
\* the C declarations give them, and a list holds a record once.
TypeOK ==
  /\ pool.u \in [Users -> [st : {"free", "query", "wait"}, dead : BOOLEAN,
                           login : BOOLEAN, version : Versions,
                           recv : BOOLEAN, send : BOOLEAN, part : BOOLEAN,
                           member : Members \cup {None}]]
  /\ pool.m \in [Members -> [st : {"free", "open"}, tds : BOOLEAN,
                             async : BOOLEAN, version : Versions,
                             recv : BOOLEAN, send : BOOLEAN, part : BOOLEAN,
                             user : Users \cup {None},
                             session : Users \cup {None}]]
  /\ IsInjective(pool.users \o pool.waiters)
  /\ IsInjective(pool.active \o pool.idle)
  /\ \A e \in threads \cup AllEvents :
       e.kind \in {"login", "end_login", "connect"}
  /\ client \in [Users -> {"out", "dialing", "in", "gone"}]
  /\ server \in [Members -> {"up", "closed"}]

\* What the asserts of member.c and user.c say between two steps of the loop:
\* an idle connection is open, serves nobody and no thread is opening it; an
\* active one serves one client, which knows it; a client that is read from
\* is in query state and has a connection; a waiter has its login.
Paired ==
  /\ \A m \in Range(pool.idle) :
       pool.m[m].tds /\ ~pool.m[m].async /\ UserOf(pool, m) = None
  /\ \A m \in Range(pool.active) :
       /\ UserOf(pool, m) # None
       /\ MemberOf(pool, UserOf(pool, m)) = m
       /\ pool.m[m].async \/ pool.m[m].tds
  /\ \A u \in Range(pool.users) :
       pool.u[u].recv \/ pool.u[u].send => MemberOf(pool, u) # None
  /\ \A u \in Range(pool.waiters) :
       pool.u[u].login /\ MemberOf(pool, u) = None

\* Nothing that still refers to a record outlives it: not a thread, an event
\* in the queue or taken from it, the loop's saved next element, nor the
\* other end of an assignment.  While a thread works on a record the loop
\* leaves its sockets alone.
NoDangling ==
  LET live(x) == IF x \in Users THEN pool.u[x].st # "free"
                                ELSE pool.m[x].st # "free"
      mute(x) == IF x \in Users THEN ~pool.u[x].recv /\ ~pool.u[x].send
                                ELSE ~pool.m[x].recv /\ ~pool.m[x].send
      refs(e) == {e.u, e.m} \ {None}
  IN  /\ \A e \in threads \cup AllEvents, x \in Users \cup Members :
           x \in refs(e) => live(x) /\ mute(x)
      /\ loop.next # None => live(loop.next)
      /\ \A u \in Users : MemberOf(pool, u) # None => live(MemberOf(pool, u))
      /\ \A m \in Members : UserOf(pool, m) # None => live(UserOf(pool, m))

\* The counters the limits are tested with count what the lists hold, and
\* the limits hold, whatever way a record was dropped.
Counted ==
  /\ pool.num_active = Len(pool.active) + Len(pool.idle)
  /\ pool.num_active <= MaxOpen
  /\ pool.num_users = Len(pool.users) + Len(pool.waiters)
  /\ pool.num_users <= MaxUsers

\* A packet forwarded in part is always scheduled: the loop waits to write
\* the rest, reads no more from where it came, and asks for nothing to be
\* written when there is no rest.
RestIsScheduled ==
  \A m \in Range(pool.active) :
    LET u == UserOf(pool, m)
    IN  /\ pool.u[u].part = pool.m[m].send
        /\ pool.m[m].part = pool.u[u].send
        /\ pool.u[u].part => ~pool.u[u].recv
        /\ pool.m[m].part => ~pool.m[m].recv

\* A client never meets what another one left in a server session: what a
\* connection's session holds is the business of the client it serves, and
\* an idle connection's session is clean.
OwnSession ==
  /\ \A m \in Range(pool.active) :
       pool.m[m].session \in {None, UserOf(pool, m)}
  /\ \A m \in Range(pool.idle) : pool.m[m].session = None

\* A connection does not stay idle while clients wait.
IdleReachesWaiter ==
  (pool.idle # <<>> /\ pool.waiters # <<>>)
    ~> (pool.idle = <<>> \/ pool.waiters = <<>>)
=============================================================================

---------------------------- MODULE PoolRecords ----------------------------
(***************************************************************************)
(* The records of tdspool (FreeTDS, src/pool): a user is a client's        *)
(* connection, a member is a connection to the server, and the pool keeps  *)
(* both in lists.  The operators are the functions of member.c and user.c  *)
(* that move them, each from a pool to the pool it leaves; what a call     *)
(* answers is a parameter.  The packets a socket buffers are one flag:     *)
(* whether a packet read from it was forwarded only in part.               *)
(***************************************************************************)
EXTENDS Naturals, Sequences, SequencesExt

CONSTANTS Users,         \* user records
          Members,       \* member records
          None,          \* a null pointer
          Versions,      \* protocol versions of 7.1 and later
          FirstVersion,  \* the one the connections opened at start negotiate
          MinOpen,       \* min_open_conn
          MaxOpen        \* max_open_conn

ASSUME PoolAssumption == /\ MinOpen \in Nat /\ MaxOpen \in Nat
                         /\ MinOpen <= MaxOpen
                         /\ FirstVersion \in Versions
                         /\ None \notin Users \cup Members
                         /\ Users \cap Members = {}

(***************************************************************************)
(* A TDS_POOL_USER.  st is "free" when it is not allocated, else its       *)
(* user_state.  dead: sock.tds is closed (or was never allocated).  login: *)
(* it still has the login it sent; version is the protocol of that login   *)
(* (FirstVersion when there is none).                                      *)
(***************************************************************************)
FreshUser == [st |-> "free", dead |-> FALSE, login |-> FALSE,
              version |-> FirstVersion, recv |-> FALSE, send |-> FALSE,
              part |-> FALSE, member |-> None]

(***************************************************************************)
(* A TDS_POOL_MEMBER.  tds: sock.tds is set.  session: the user whose      *)
(* requests, settings and transactions the server session holds.           *)
(* last_used_tm is not kept: it is not touched when a member becomes idle, *)
(* so any idle member may have been unused for too long.                   *)
(***************************************************************************)
FreshMember == [st |-> "free", tds |-> FALSE, async |-> FALSE,
                version |-> FirstVersion, recv |-> FALSE, send |-> FALSE,
                part |-> FALSE, user |-> None, session |-> None]

Linked(p, m) == Contains(p.active, m) \/ Contains(p.idle, m)

\* the user a member works for, and the member that works for a user
UserOf(p, m) == p.m[m].user
MemberOf(p, u) == p.u[u].member

---------------------------------------------------------------------------

\* Faulty variant: the member stays in the idle list
AssignMemberTwice(p, m, u) ==
  [p EXCEPT !.active = Append(@, m), !.m[m].user = u, !.u[u].member = m]

AssignMember(p, m, u) ==
  [p EXCEPT !.idle = RemoveFirst(@, m), !.active = Append(RemoveFirst(@, m), m),
            !.m[m].user = u, !.u[u].member = m]

DeassignMember(p, m) ==
  LET u == UserOf(p, m)
      q == IF u = None THEN p
           ELSE [p EXCEPT !.u[u].member = None, !.m[m].user = None,
                          !.active = RemoveFirst(@, m), !.idle = Append(@, m)]
  IN  [q EXCEPT !.m[m].send = FALSE]

\* pool_free_user once the user has no member
DropUser(p, u) ==
  LET q == IF p.u[u].st = "wait" THEN [p EXCEPT !.waiters = RemoveFirst(@, u)]
                                 ELSE [p EXCEPT !.users = RemoveFirst(@, u)]
  IN  [q EXCEPT !.num_users = @ - 1, !.u[u] = FreshUser]

\* Faulty variant: only members of the active list are counted out
FreeMemberActive(p, m) ==
  LET u == UserOf(p, m)
      q == IF u = None THEN p ELSE DropUser(DeassignMember(p, m), u)
  IN  [q EXCEPT !.num_active = IF Contains(q.active, m) THEN @ - 1 ELSE @,
                !.active = RemoveFirst(@, m), !.idle = RemoveFirst(@, m),
                !.m[m] = FreshMember]

\* a member is closed; the client it serves goes with it
FreeMember(p, m) ==
  LET u == UserOf(p, m)
      q == IF u = None THEN p ELSE DropUser(DeassignMember(p, m), u)
  IN  [q EXCEPT !.num_active = IF Linked(q, m) THEN @ - 1 ELSE @,
                !.active = RemoveFirst(@, m), !.idle = RemoveFirst(@, m),
                !.m[m] = FreshMember]

\* the dialog that cancels and rolls back what the session holds; when the
\* server fails it (~ok) the connection is closed
CleanSession(p, m, ok) ==
  IF ok THEN [p EXCEPT !.m[m].session = None, !.m[m].part = FALSE]
        ELSE FreeMember(p, m)

ResetMember(p, m, ok) ==
  LET u == UserOf(p, m)
      q == IF u = None THEN p ELSE DropUser(DeassignMember(p, m), u)
  IN  CleanSession(q, m, ok)

\* Faulty variant: the connection of a client that left is not reset
FreeUserOnly(p, u, ok) ==
  LET m == MemberOf(p, u)
  IN  DropUser(IF m = None THEN p ELSE DeassignMember(p, m), u)

FreeUser(p, u, ok) ==
  LET m == MemberOf(p, u)
      q == IF m = None THEN p ELSE ResetMember(DeassignMember(p, m), m, ok)
  IN  DropUser(q, u)

---------------------------------------------------------------------------

\* Faulty variant: a user is read on while its last packet is not fully written
WriteUserReadingOn(p, u, m, all) ==
  [p EXCEPT !.u[u].part = ~all, !.m[m].send = ~all, !.u[u].recv = TRUE]

\* pool_write_data: what from has buffered goes to to, all of it or a part
WriteUserToMember(p, u, m, all) ==
  [p EXCEPT !.u[u].part = ~all, !.m[m].send = ~all, !.u[u].recv = all]
WriteMemberToUser(p, m, u, all) ==
  [p EXCEPT !.m[m].part = ~all, !.u[u].send = ~all, !.m[m].recv = all]

---------------------------------------------------------------------------

Compatible(p, m, u) == p.m[m].version = p.u[u].version

\* the first idle connection of the protocol the user speaks, if any
IdleFor(p, u) ==
  LET i == SelectInSeq(p.idle, LAMBDA m: Compatible(p, m, u))
  IN  IF i = 0 THEN None ELSE p.idle[i]

Unallocated(p) == {m \in Members : p.m[m].st = "free"}

\* Faulty variant: the user is still read from
MuteWrites(p, u) == [p EXCEPT !.u[u].send = FALSE]

Mute(p, u) == [p EXCEPT !.u[u].recv = FALSE, !.u[u].send = FALSE]

\* an idle connection is given to the user, whose login is now answered
TakeIdle(p, u) ==
  LET m == IdleFor(p, u)
  IN  [AssignMember(Mute(p, u), m, u)
         EXCEPT !.m[m].recv = FALSE, !.m[m].send = FALSE]

\* Faulty variant: the connection counts as open while a thread opens it
OpenForAtOnce(p, u, m) ==
  AssignMember([Mute(p, u) EXCEPT
                  !.num_active = @ + 1, !.idle = Append(@, m),
                  !.m[m] = [FreshMember EXCEPT !.st = "open"]],
               m, u)

\* a connection is opened for the user by a thread
OpenFor(p, u, m) ==
  AssignMember([Mute(p, u) EXCEPT
                  !.num_active = @ + 1, !.idle = Append(@, m),
                  !.m[m] = [FreshMember EXCEPT !.st = "open", !.async = TRUE]],
               m, u)

\* no connection: the user waits
PlaceInWait(p, u) ==
  [Mute(p, u) EXCEPT !.u[u].st = "wait",
                     !.users = RemoveFirst(@, u), !.waiters = Append(@, u)]

\* a waiter is put back in query state
Requeue(p, u) ==
  [p EXCEPT !.u[u].st = "query",
            !.waiters = RemoveFirst(@, u), !.users = Append(@, u)]

\* connections unused for too long are closed, down to min_open_conn
CloseOld(p, old) ==
  FoldLeft(LAMBDA q, m: IF m \in old /\ q.num_active > MinOpen
                        THEN FreeMember(q, m) ELSE q,
           p, p.idle)
=============================================================================

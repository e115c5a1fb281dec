--------------------------- MODULE TdsPoolProofs ---------------------------
(***************************************************************************)
(* Proofs about TdsPool, for any clients, connections, versions, limits    *)
(* and faults.  The invariant PoolInv has four parts:                      *)
(*                                                                         *)
(*   Sound     the pool: which list a record is in is what its own fields  *)
(*             say, the two ends of an assignment agree, the counters      *)
(*             count; it is kept by the functions of member.c and user.c;  *)
(*   Jobs      what a thread, or the event it left, relies on: its record  *)
(*             is in the state it was started in, the loop does not read   *)
(*             or write its sockets, and no other thread works on it;      *)
(*   Looping   what the loop still holds in its local variables;           *)
(*   Peers     who dials has no record yet.                                *)
(***************************************************************************)
EXTENDS TdsPool, FiniteSetTheorems, SequenceTheorems, WellFoundedInduction,
        TLAPS

(***************************************************************************)
(* The pool.                                                               *)
(***************************************************************************)
UserRec == [st : {"free", "query", "wait"}, dead : BOOLEAN, login : BOOLEAN,
            version : Versions, recv : BOOLEAN, send : BOOLEAN,
            part : BOOLEAN, member : Members \cup {None}]
MemberRec == [st : {"free", "open"}, tds : BOOLEAN, async : BOOLEAN,
              version : Versions, recv : BOOLEAN, send : BOOLEAN,
              part : BOOLEAN, user : Users \cup {None},
              session : Users \cup {None}]
PoolRec == [users : Seq(Users), waiters : Seq(Users), active : Seq(Members),
            idle : Seq(Members), num_active : Int, num_users : Int,
            u : [Users -> UserRec], m : [Members -> MemberRec]]

\* a list holds a record once
Lists(p) == /\ IsInjective(p.users) /\ IsInjective(p.waiters)
            /\ IsInjective(p.active) /\ IsInjective(p.idle)

\* the fields of a user: those of a free one are reset, a waiter has its
\* login, and only who has a connection is read from or written to
UserFits(p, u) ==
  /\ u \in Range(p.users) <=> p.u[u].st = "query"
  /\ u \in Range(p.waiters) <=> p.u[u].st = "wait"
  /\ p.u[u].st = "free" => p.u[u] = FreshUser
  /\ p.u[u].st = "wait" => p.u[u].login
  /\ p.u[u].member = None =>
       ~p.u[u].recv /\ ~p.u[u].send /\ ~p.u[u].part
  /\ p.u[u].member # None =>
       p.u[u].st = "query" /\ p.m[p.u[u].member].user = u

\* what a connection that works for a client has in common with it
Joined(p, m) ==
  LET u == p.m[m].user
  IN  /\ p.m[m].st = "open" /\ p.u[u].member = m
      /\ p.m[m].session \in {None, u}
      /\ p.m[m].async \/ p.m[m].tds
      /\ p.m[m].async => /\ ~p.u[u].recv /\ ~p.u[u].send
                         /\ ~p.m[m].recv /\ ~p.m[m].send
      /\ p.u[u].part = p.m[m].send /\ p.m[m].part = p.u[u].send
      /\ p.u[u].part => ~p.u[u].recv
      /\ p.m[m].part => ~p.m[m].recv

\* the fields of a member: an idle one is open and clean
MemberFits(p, m) ==
  /\ m \in Range(p.active) <=> p.m[m].user # None
  /\ m \in Range(p.idle) <=> p.m[m].st = "open" /\ p.m[m].user = None
  /\ p.m[m].st = "free" => p.m[m] = FreshMember
  /\ p.m[m].user # None => Joined(p, m)
  /\ p.m[m].st = "open" /\ p.m[m].user = None =>
       /\ p.m[m].tds /\ ~p.m[m].async /\ p.m[m].session = None
       /\ ~p.m[m].part /\ ~p.m[m].send

Counts(p) ==
  /\ p.num_active = Len(p.active) + Len(p.idle) /\ p.num_active <= MaxOpen
  /\ p.num_users = Len(p.users) + Len(p.waiters) /\ p.num_users <= MaxUsers

Sound(p) == /\ p \in PoolRec /\ Lists(p) /\ Counts(p)
            /\ \A u \in Users : UserFits(p, u)
            /\ \A m \in Members : MemberFits(p, m)

(***************************************************************************)
(* The threads and the events they leave.                                  *)
(***************************************************************************)
Job == [kind : {"login", "end_login", "connect"}, u : Users \cup {None},
        m : Members \cup {None}, ok : BOOLEAN]

MuteUser(p, u) == ~p.u[u].recv /\ ~p.u[u].send
MuteMember(p, m) == ~p.m[m].recv /\ ~p.m[m].send

\* the records job e works on are as they were when it was started
Works(p, e) ==
  /\ e.kind = "login" =>
       /\ e.u \in Users /\ e.m = None
       /\ p.u[e.u].st = "query" /\ p.u[e.u].member = None
  /\ e.kind = "end_login" =>
       /\ e.u \in Users /\ e.m = None /\ p.u[e.u].member # None
       /\ MuteUser(p, e.u) /\ MuteMember(p, p.u[e.u].member)
       /\ ~p.m[p.u[e.u].member].async
  /\ e.kind = "connect" =>
       /\ e.u = None /\ e.m \in Members /\ p.m[e.m].user # None
       /\ MuteMember(p, e.m) /\ MuteUser(p, p.m[e.m].user)
       /\ p.m[e.m].async

\* what a thread that succeeded has done
Told(p, e) == /\ e.kind = "login" /\ e.ok => p.u[e.u].login
              /\ e.kind = "connect" /\ e.ok => p.m[e.m].tds

\* two jobs are about different records
Apart(a, b) == /\ a.u = None \/ a.u # b.u
               /\ a.m = None \/ a.m # b.m
AllApart(E) == \A i, j \in DOMAIN E : i # j => Apart(E[i], E[j])

\* threads T run, events E are queued and B taken from the queue
JobsOf(p, T, E, B) ==
  /\ T \subseteq Job /\ E \in Seq(Job) /\ B \in Seq(Job)
  /\ \A e \in T : Works(p, e)
  /\ \A e \in Range(E) \cup Range(B) : Works(p, e) /\ Told(p, e)
  /\ \A a, b \in T : a # b => Apart(a, b)
  /\ \A a \in T, b \in Range(E) \cup Range(B) : Apart(a, b)
  /\ \A a \in Range(E), b \in Range(B) : Apart(a, b)
  /\ AllApart(E) /\ AllApart(B)

Jobs == JobsOf(pool, threads, events, loop.batch)

(***************************************************************************)
(* The loop and the peers.                                                 *)
(***************************************************************************)
Looping ==
  /\ loop \in [at : {"select", "detach", "events", "accept", "users",
                     "members", "waiters"},
               ready : SUBSET (Users \cup Members), accept : BOOLEAN,
               batch : Seq(Job), next : Users \cup Members \cup {None}]
  /\ loop.at # "events" => loop.batch = <<>>
  /\ loop.at = "users" => loop.next \in Range(pool.users) \cup {None}
  /\ loop.at = "members" => loop.next \in Range(pool.active) \cup {None}
  /\ loop.at \notin {"users", "members"} => loop.next = None

Peers ==
  /\ client \in [Users -> {"out", "dialing", "in", "gone"}]
  /\ server \in [Members -> {"up", "closed"}]
  /\ \A u \in Users : client[u] = "dialing" => pool.u[u].st = "free"

PoolInv == Sound(pool) /\ Jobs /\ Looping /\ Peers

---------------------------------------------------------------------------
(* Lists.                                                                  *)

\* a set of numbers has a least one
LEMMA LeastNat ==
  ASSUME NEW T, T \subseteq Nat, T # {}
  PROVE  Min(T) \in T /\ \A n \in T : Min(T) <= n
<1> DEFINE R == OpToRel(<, Nat)
<1>1. IsWellFoundedOn(R, Nat)
  BY NatLessThanWellFounded
<1>2. \A m, n \in Nat : m < n => <<m, n>> \in R
  BY DEF OpToRel
<1> HIDE DEF R
<1>3. PICK m \in T : \A n \in T : <<n, m>> \notin R
  BY <1>1, WFMin
<1>4. \A n \in T : ~ (n < m)
  BY <1>2, <1>3
<1>5. \A n \in T : m <= n
  BY <1>4
<1> QED
  BY <1>5 DEF Min

\* where an element of a list is found first
Place(l, x) == LET I == {i \in 1..Len(l) : l[i] = x}
               IN  IF I # {} THEN Min(I) ELSE 0

\* A listed element has a place, and is there; another has place 0.
LEMMA Found ==
  ASSUME NEW S, NEW l \in Seq(S), NEW x
  PROVE  /\ Place(l, x) \in 0..Len(l)
         /\ Place(l, x) = 0 <=> x \notin Range(l)
         /\ Place(l, x) # 0 => l[Place(l, x)] = x
<1> DEFINE I == {i \in 1..Len(l) : l[i] = x}
<1>1. Place(l, x) = IF I # {} THEN Min(I) ELSE 0
  BY DEF Place
<1>2. I # {} <=> x \in Range(l)
  BY DEF Range
<1>3. CASE I = {}
  BY <1>1, <1>2, <1>3
<1>4. CASE I # {}
  <2>1. I \subseteq Nat
    OBVIOUS
  <2> HIDE DEF I
  <2>2. Min(I) \in I
    BY <1>4, <2>1, LeastNat
  <2> QED
    BY <1>1, <1>2, <1>4, <2>2 DEF I
<1> QED
  BY <1>3, <1>4

\* What unlinking an element leaves: the others, in their order.
LEMMA Unlinks ==
  ASSUME NEW S, NEW l \in Seq(S), NEW x \in Range(l)
  PROVE  \E n \in 1..Len(l) :
           /\ l[n] = x /\ RemoveFirst(l, x) \in Seq(S)
           /\ Len(RemoveFirst(l, x)) = Len(l) - 1
           /\ \A k \in 1..(Len(l) - 1) :
                RemoveFirst(l, x)[k] = IF k < n THEN l[k] ELSE l[k + 1]
<1> DEFINE n == Place(l, x)
           a == SubSeq(l, 1, n - 1)
           b == SubSeq(l, n + 1, Len(l))
<1>1. n \in 1..Len(l) /\ l[n] = x /\ Len(l) \in Nat
  BY Found
<1>2. RemoveFirst(l, x) = a \o b
  BY <1>1 DEF RemoveFirst, RemoveAt, SelectInSeq, Place
<1> HIDE DEF n
<1>3. /\ a \in Seq(S) /\ Len(a) = n - 1
      /\ \A k \in 1..(n - 1) : a[k] = l[k]
  <2>1. \A k \in 1..(n - 1) : l[k] \in S
    BY <1>1
  <2> HIDE DEF a
  <2>2. /\ SubSeq(l, 1, n - 1) \in Seq(S)
        /\ Len(SubSeq(l, 1, n - 1)) = IF 1 <= n - 1 THEN n - 1 - 1 + 1 ELSE 0
        /\ \A k \in 1..(n - 1 - 1 + 1) : SubSeq(l, 1, n - 1)[k] = l[1 + k - 1]
    BY <1>1, <2>1, SubSeqProperties
  <2> QED
    BY <1>1, <2>2 DEF a
<1>4. /\ b \in Seq(S) /\ Len(b) = Len(l) - n
      /\ \A k \in 1..(Len(l) - n) : b[k] = l[n + k]
  <2>1. \A k \in (n + 1)..Len(l) : l[k] \in S
    BY <1>1
  <2> HIDE DEF b
  <2>2. /\ SubSeq(l, n + 1, Len(l)) \in Seq(S)
        /\ Len(SubSeq(l, n + 1, Len(l))) =
             IF n + 1 <= Len(l) THEN Len(l) - (n + 1) + 1 ELSE 0
        /\ \A k \in 1..(Len(l) - (n + 1) + 1) :
             SubSeq(l, n + 1, Len(l))[k] = l[(n + 1) + k - 1]
    BY <1>1, <2>1, SubSeqProperties
  <2> QED
    BY <1>1, <2>2 DEF b
<1> HIDE DEF a, b
<1>5. /\ a \o b \in Seq(S) /\ Len(a \o b) = Len(a) + Len(b)
      /\ \A k \in 1..(Len(a) + Len(b)) :
           (a \o b)[k] = IF k <= Len(a) THEN a[k] ELSE b[k - Len(a)]
  BY <1>3, <1>4, ConcatProperties
<1>6. /\ Len(a \o b) = Len(l) - 1
      /\ \A k \in 1..(Len(l) - 1) :
           (a \o b)[k] = IF k < n THEN l[k] ELSE l[k + 1]
  BY <1>1, <1>3, <1>4, <1>5
<1> QED
  BY <1>1, <1>2, <1>5, <1>6

\* A list without x, the list of the others.
LEMMA Without ==
  ASSUME NEW S, NEW l \in Seq(S), IsInjective(l), NEW x
  PROVE  /\ RemoveFirst(l, x) \in Seq(S) /\ IsInjective(RemoveFirst(l, x))
         /\ Range(RemoveFirst(l, x)) = Range(l) \ {x}
         /\ Len(RemoveFirst(l, x)) = IF x \in Range(l) THEN Len(l) - 1 ELSE Len(l)
<1>1. CASE x \notin Range(l)
  <2>1. Range(l) \ {x} = Range(l) /\ ~ \E i \in 1..Len(l) : l[i] = x
    BY <1>1 DEF Range
  <2>2. RemoveFirst(l, x) = l
    BY <2>1 DEF RemoveFirst
  <2> QED
    BY <1>1, <2>1, <2>2
<1>2. CASE x \in Range(l)
  <2> DEFINE k == RemoveFirst(l, x)
  <2>1. PICK n \in 1..Len(l) :
           /\ l[n] = x /\ k \in Seq(S) /\ Len(k) = Len(l) - 1
           /\ \A i \in 1..(Len(l) - 1) : k[i] = IF i < n THEN l[i] ELSE l[i + 1]
    BY <1>2, Unlinks
  <2> HIDE DEF k
  <2>2. \A i, j \in 1..Len(l) : l[i] = l[j] => i = j
    BY DEF IsInjective
  <2>3. Len(l) \in Nat /\ DOMAIN k = 1..(Len(l) - 1) /\ DOMAIN l = 1..Len(l)
    BY <2>1
  <2>4. IsInjective(k)
    BY <2>1, <2>2, <2>3 DEF IsInjective
  <2>5. Range(k) \subseteq Range(l) \ {x}
    BY <2>1, <2>2, <2>3 DEF Range
  <2>6. Range(l) \ {x} \subseteq Range(k)
    <3> SUFFICES ASSUME NEW i \in 1..Len(l), l[i] # x PROVE l[i] \in Range(k)
      BY <2>3 DEF Range
    <3>1. CASE i < n
      BY <2>1, <2>3, <3>1 DEF Range
    <3>2. CASE i > n
      <4>1. i - 1 \in 1..(Len(l) - 1) /\ k[i - 1] = l[i]
        BY <2>1, <2>3, <3>2
      <4> QED
        BY <2>3, <4>1 DEF Range
    <3> QED
      BY <2>1, <3>1, <3>2
  <2> QED
    BY <1>2, <2>1, <2>4, <2>5, <2>6 DEF k
<1> QED
  BY <1>1, <1>2

\* A list with x appended.
LEMMA With ==
  ASSUME NEW S, NEW l \in Seq(S), IsInjective(l), NEW x \in S
  PROVE  /\ Append(l, x) \in Seq(S) /\ Len(Append(l, x)) = Len(l) + 1
         /\ x \notin Range(l) => IsInjective(Append(l, x))
         /\ Range(Append(l, x)) = Range(l) \cup {x}
<1> DEFINE k == Append(l, x)
<1>1. /\ k \in Seq(S) /\ Len(k) = Len(l) + 1 /\ k[Len(l) + 1] = x
      /\ \A i \in 1..Len(l) : k[i] = l[i]
  BY AppendProperties
<1> HIDE DEF k
<1>2. /\ Len(l) \in Nat /\ DOMAIN l = 1..Len(l)
      /\ DOMAIN k = 1..Len(l) \cup {Len(l) + 1}
  BY <1>1
<1>3. Range(k) = Range(l) \cup {x}
  BY <1>1, <1>2 DEF Range
<1>4. x \notin Range(l) => IsInjective(k)
  BY <1>1, <1>2 DEF Range, IsInjective
<1> QED
  BY <1>1, <1>3, <1>4 DEF k

\* The first element, and the one after x, are others of the list.
LEMMA Follows ==
  ASSUME NEW S, NEW l \in Seq(S), IsInjective(l), NEW x \in Range(l)
  PROVE  /\ First(l) \in Range(l)
         /\ After(l, x) \in (Range(l) \ {x}) \cup {None}
<1> DEFINE i == Place(l, x)
           r == SubSeq(l, i + 1, Len(l))
<1>1. i \in 1..Len(l) /\ l[i] = x /\ Len(l) \in Nat
  BY Found
<1> HIDE DEF i
<1>2. First(l) \in Range(l)
  BY <1>1 DEF First, Range
<1>3. /\ r \in Seq(S) /\ Len(r) = Len(l) - i
      /\ Len(r) > 0 => r[1] = l[i + 1]
  <2>1. \A k \in (i + 1)..Len(l) : l[k] \in S
    BY <1>1
  <2> HIDE DEF r
  <2>2. /\ SubSeq(l, i + 1, Len(l)) \in Seq(S)
        /\ Len(SubSeq(l, i + 1, Len(l))) =
             IF i + 1 <= Len(l) THEN Len(l) - (i + 1) + 1 ELSE 0
        /\ \A k \in 1..(Len(l) - (i + 1) + 1) :
             SubSeq(l, i + 1, Len(l))[k] = l[(i + 1) + k - 1]
    BY <1>1, <2>1, SubSeqProperties
  <2> QED
    BY <1>1, <2>2 DEF r
<1>4. After(l, x) = First(r)
  BY DEF After, SelectInSeq, Place, i
<1> HIDE DEF r
<1>5. CASE r = <<>>
  BY <1>2, <1>4, <1>5 DEF First
<1>6. CASE r # <<>>
  <2>1. i + 1 \in 1..Len(l) /\ Head(r) = l[i + 1]
    BY <1>1, <1>3, <1>6
  <2>2. l[i + 1] # x
    BY <1>1, <2>1 DEF IsInjective
  <2> QED
    BY <1>2, <1>4, <1>6, <2>1, <2>2 DEF First, Range
<1> QED
  BY <1>5, <1>6

\* how many elements two lists have
Total(l, k) == Len(l) + Len(k)

\* The length of two lists does not depend on their order.
LEMMA TotalSwaps ==
  ASSUME NEW S, NEW l \in Seq(S), NEW k \in Seq(S)
  PROVE  Total(l, k) \in Nat /\ Total(l, k) = Total(k, l)
<1> DEFINE a == Len(l)
           b == Len(k)
<1>1. a \in Nat /\ b \in Nat
  BY LenProperties
<1> HIDE DEF a, b
<1>2. a + b \in Nat /\ a + b = b + a
  BY <1>1
<1> QED
  BY <1>2 DEF Total, a, b

\* An element more counts one more.
LEMMA TotalWith ==
  ASSUME NEW S, NEW l \in Seq(S), IsInjective(l), NEW k \in Seq(S), NEW x \in S
  PROVE  Total(Append(l, x), k) = Total(l, k) + 1
<1> DEFINE a == Len(l)
           b == Len(k)
           c == Len(Append(l, x))
<1>1. a \in Nat /\ b \in Nat /\ c = a + 1
  BY With, LenProperties
<1> HIDE DEF a, b, c
<1>2. c + b = a + b + 1
  BY <1>1
<1> QED
  BY <1>2 DEF Total, a, b, c

\* An unlinked element counts one less.
LEMMA TotalWithout ==
  ASSUME NEW S, NEW l \in Seq(S), IsInjective(l), NEW k \in Seq(S), NEW x
  PROVE  Total(RemoveFirst(l, x), k) =
           IF x \in Range(l) THEN Total(l, k) - 1 ELSE Total(l, k)
<1> DEFINE a == Len(l)
           b == Len(k)
           d == Len(RemoveFirst(l, x))
<1>1. a \in Nat /\ b \in Nat /\ d = IF x \in Range(l) THEN a - 1 ELSE a
  BY Without, LenProperties
<1> HIDE DEF a, b, d
<1>2. d + b = IF x \in Range(l) THEN a + b - 1 ELSE a + b
  BY <1>1
<1> QED
  BY <1>2 DEF Total, a, b, d

---------------------------------------------------------------------------
(* What the functions of the pool do to its fields.                        *)

\* the fields of a pool
LEMMA PoolFields ==
  ASSUME NEW p \in PoolRec
  PROVE  /\ p.users \in Seq(Users) /\ p.waiters \in Seq(Users)
         /\ p.active \in Seq(Members) /\ p.idle \in Seq(Members)
         /\ p.num_active \in Int /\ p.num_users \in Int
         /\ p.u \in [Users -> UserRec] /\ p.m \in [Members -> MemberRec]
BY DEF PoolRec

\* the fields of a user, and a user with one of them changed
LEMMA UserFields ==
  ASSUME NEW r \in UserRec
  PROVE  /\ r.st \in {"free", "query", "wait"} /\ r.member \in Members \cup {None}
         /\ r.dead \in BOOLEAN /\ r.login \in BOOLEAN /\ r.version \in Versions
         /\ r.recv \in BOOLEAN /\ r.send \in BOOLEAN /\ r.part \in BOOLEAN
BY DEF UserRec

\* the fields of a member
LEMMA MemberFields ==
  ASSUME NEW r \in MemberRec
  PROVE  /\ r.st \in {"free", "open"} /\ r.user \in Users \cup {None}
         /\ r.session \in Users \cup {None} /\ r.tds \in BOOLEAN
         /\ r.async \in BOOLEAN /\ r.version \in Versions
         /\ r.recv \in BOOLEAN /\ r.send \in BOOLEAN /\ r.part \in BOOLEAN
BY DEF MemberRec

\* A connection found for a user is an idle one.
LEMMA FoundIdle ==
  ASSUME NEW p \in PoolRec, NEW u \in Users
  PROVE  IdleFor(p, u) \in Range(p.idle) \cup {None}
<1> DEFINE I == {i \in 1..Len(p.idle) : Compatible(p, p.idle[i], u)}
<1>1. IdleFor(p, u) = LET i == IF I # {} THEN Min(I) ELSE 0
                      IN  IF i = 0 THEN None ELSE p.idle[i]
  BY DEF IdleFor, SelectInSeq
<1>2. I \subseteq 1..Len(p.idle) /\ 1..Len(p.idle) \subseteq Nat \ {0}
  OBVIOUS
<1> HIDE DEF I
<1>3. I # {} => Min(I) \in I
  BY <1>2, LeastNat
<1>4. p.idle \in Seq(Members) /\ DOMAIN p.idle = 1..Len(p.idle)
  BY PoolFields
<1>5. CASE I = {}
  BY <1>1, <1>5
<1>6. CASE I # {}
  <2>1. Min(I) \in 1..Len(p.idle) /\ Min(I) # 0
    BY <1>2, <1>3, <1>6
  <2> QED
    BY <1>1, <1>4, <1>6, <2>1 DEF Range
<1> QED
  BY <1>5, <1>6

\* the fields AssignMember writes
Assignment(p, q, u, m) ==
  /\ q \in PoolRec
  /\ q.users = p.users /\ q.waiters = p.waiters
  /\ q.idle = RemoveFirst(p.idle, m) /\ q.active = Append(p.active, m)
  /\ q.num_active = p.num_active /\ q.num_users = p.num_users
  /\ q.u = [p.u EXCEPT ![u] = [p.u[u] EXCEPT !.member = m]]
  /\ q.m = [p.m EXCEPT ![m] = [p.m[m] EXCEPT !.user = u]]

\* pool_assign_member of a connection that is not active: the fields it sets.
LEMMA AssignFields ==
  ASSUME NEW p \in PoolRec, NEW u \in Users, NEW m \in Members,
         Lists(p), m \notin Range(p.active)
  PROVE  Assignment(p, AssignMember(p, m, u), u, m)
<1> DEFINE q == AssignMember(p, m, u)
<1>1. RemoveFirst(p.active, m) = p.active
  BY DEF PoolRec, RemoveFirst, Range
<1>2. RemoveFirst(p.idle, m) \in Seq(Members) /\ Append(p.active, m) \in Seq(Members)
  BY Without, With DEF PoolRec, Lists
<1>3. [p.u[u] EXCEPT !.member = m] \in UserRec /\ [p.m[m] EXCEPT !.user = u] \in MemberRec
  <2>1. p.u[u] \in UserRec /\ p.m[m] \in MemberRec
    BY PoolFields
  <2> QED
    BY <2>1 DEF UserRec, MemberRec
<1>4. q = [p EXCEPT !.idle = RemoveFirst(p.idle, m), !.active = Append(p.active, m),
                    !.m = [p.m EXCEPT ![m] = [p.m[m] EXCEPT !.user = u]],
                    !.u = [p.u EXCEPT ![u] = [p.u[u] EXCEPT !.member = m]]]
  BY <1>1 DEF AssignMember, PoolRec
<1> HIDE DEF q
<1>5. /\ [p.m EXCEPT ![m] = [p.m[m] EXCEPT !.user = u]] \in [Members -> MemberRec]
      /\ [p.u EXCEPT ![u] = [p.u[u] EXCEPT !.member = m]] \in [Users -> UserRec]
  BY <1>3, PoolFields
<1>6. q \in PoolRec
  BY <1>2, <1>4, <1>5 DEF PoolRec
<1> QED
  BY <1>4, <1>6 DEF PoolRec, q, Assignment

\* pool_deassign_member: the fields it sets, none when there is no user.
LEMMA DeassignFields ==
  ASSUME NEW p \in PoolRec, NEW m \in Members, Lists(p)
  PROVE  LET q == DeassignMember(p, m)
             u == p.m[m].user
         IN  /\ q \in PoolRec
             /\ q.users = p.users /\ q.waiters = p.waiters
             /\ q.num_active = p.num_active /\ q.num_users = p.num_users
             /\ u = None => /\ q.active = p.active /\ q.idle = p.idle
                            /\ q.u = p.u
                            /\ q.m = [p.m EXCEPT ![m] = [p.m[m] EXCEPT !.send = FALSE]]
             /\ u # None =>
                  /\ q.active = RemoveFirst(p.active, m)
                  /\ q.idle = Append(p.idle, m)
                  /\ q.u = [p.u EXCEPT ![u] = [p.u[u] EXCEPT !.member = None]]
                  /\ q.m = [p.m EXCEPT ![m] = [p.m[m] EXCEPT !.user = None,
                                                             !.send = FALSE]]
<1> DEFINE q == DeassignMember(p, m)
           u == p.m[m].user
<1>1. u \in Users \cup {None} /\ p.m[m] \in MemberRec
  BY DEF PoolRec, MemberRec
<1>2. CASE u = None
  <2>1. q = [p EXCEPT !.m = [p.m EXCEPT ![m] = [p.m[m] EXCEPT !.send = FALSE]]]
    BY <1>2 DEF DeassignMember, UserOf, PoolRec
  <2>2. [p.m[m] EXCEPT !.send = FALSE] \in MemberRec
    BY <1>1 DEF MemberRec
  <2> HIDE DEF q
  <2> QED
    BY <1>2, <2>1, <2>2 DEF PoolRec, q
<1>3. CASE u # None
  <2>1. RemoveFirst(p.active, m) \in Seq(Members) /\ Append(p.idle, m) \in Seq(Members)
    BY Without, With DEF PoolRec, Lists
  <2>2. u \in Users
    BY <1>1, <1>3
  <2>3. /\ [p.u[u] EXCEPT !.member = None] \in UserRec
        /\ [p.m[m] EXCEPT !.user = None, !.send = FALSE] \in MemberRec
    <3>1. p.u[u] \in UserRec
      BY <2>2, PoolFields
    <3> HIDE DEF u
    <3> QED
      BY <1>1, <3>1 DEF UserRec, MemberRec
  <2>4. q = [p EXCEPT !.idle = Append(p.idle, m), !.active = RemoveFirst(p.active, m),
                      !.m = [p.m EXCEPT ![m] = [p.m[m] EXCEPT !.user = None,
                                                              !.send = FALSE]],
                      !.u = [p.u EXCEPT ![u] = [p.u[u] EXCEPT !.member = None]]]
    BY <1>1, <1>3 DEF DeassignMember, UserOf, PoolRec, MemberRec
  <2> HIDE DEF q, u
  <2>5. q \in PoolRec
    BY <2>1, <2>2, <2>3, <2>4 DEF PoolRec
  <2> QED
    BY <1>3, <2>2, <2>4, <2>5 DEF PoolRec, q, u
<1> QED
  BY <1>2, <1>3

\* The end of pool_free_user, without its member: the fields it sets.
LEMMA DropFields ==
  ASSUME NEW p \in PoolRec, NEW u \in Users, Lists(p)
  PROVE  LET q == DropUser(p, u)
         IN  /\ q \in PoolRec
             /\ q.active = p.active /\ q.idle = p.idle
             /\ q.num_active = p.num_active /\ q.num_users = p.num_users - 1
             /\ q.u = [p.u EXCEPT ![u] = FreshUser] /\ q.m = p.m
             /\ IF p.u[u].st = "wait"
                THEN q.users = p.users /\ q.waiters = RemoveFirst(p.waiters, u)
                ELSE q.users = RemoveFirst(p.users, u) /\ q.waiters = p.waiters
<1> DEFINE q == DropUser(p, u)
           n == p.num_users - 1
<1>1. RemoveFirst(p.users, u) \in Seq(Users) /\ RemoveFirst(p.waiters, u) \in Seq(Users)
  BY Without DEF PoolRec, Lists
<1>2. FreshUser \in UserRec
  BY PoolAssumption DEF FreshUser, UserRec
<1>3. q = IF p.u[u].st = "wait"
          THEN [p EXCEPT !.waiters = RemoveFirst(p.waiters, u),
                         !.num_users = n,
                         !.u = [p.u EXCEPT ![u] = FreshUser]]
          ELSE [p EXCEPT !.users = RemoveFirst(p.users, u),
                         !.num_users = n,
                         !.u = [p.u EXCEPT ![u] = FreshUser]]
  BY DEF DropUser, PoolRec
<1> HIDE DEF q
<1>4. [p.u EXCEPT ![u] = FreshUser] \in [Users -> UserRec] /\ n \in Int
  BY <1>2, PoolFields
<1> HIDE DEF n
<1>5. CASE p.u[u].st = "wait"
  <2>1. q \in PoolRec
    BY <1>1, <1>3, <1>4, <1>5 DEF PoolRec
  <2> QED
    BY <1>3, <1>5, <2>1 DEF PoolRec, q, n
<1>6. CASE p.u[u].st # "wait"
  <2>1. q \in PoolRec
    BY <1>1, <1>3, <1>4, <1>6 DEF PoolRec
  <2> QED
    BY <1>3, <1>6, <2>1 DEF PoolRec, q, n
<1> QED
  BY <1>5, <1>6

\* the counters count what the lists hold
Balanced(p) ==
  /\ p \in PoolRec /\ Lists(p)
  /\ p.num_active = Total(p.active, p.idle)
  /\ p.num_users = Total(p.users, p.waiters)

\* in q, m was taken from its user and is idle
Deassigns(p, q, m) ==
  /\ Balanced(q)
  /\ Range(q.users) = Range(p.users) /\ Range(q.waiters) = Range(p.waiters)
  /\ Range(q.active) = Range(p.active) \ {m}
  /\ Range(q.idle) = Range(p.idle) \cup {m}
  /\ q.num_active = p.num_active /\ q.num_users = p.num_users
  /\ p.m[m].user \in Users
  /\ q.u = [p.u EXCEPT ![p.m[m].user] = [p.u[p.m[m].user] EXCEPT !.member = None]]
  /\ q.m = [p.m EXCEPT ![m] = [p.m[m] EXCEPT !.user = None, !.send = FALSE]]

\* in q, user u is dropped
Drops(p, q, u) ==
  /\ Balanced(q)
  /\ Range(q.users) = Range(p.users) \ {u}
  /\ Range(q.waiters) = Range(p.waiters) \ {u}
  /\ q.active = p.active /\ q.idle = p.idle
  /\ q.num_active = p.num_active /\ q.num_users = p.num_users - 1
  /\ q.u = [p.u EXCEPT ![u] = FreshUser] /\ q.m = p.m

\* in q, member m is closed
Closes(p, q, m) ==
  /\ Balanced(q)
  /\ q.users = p.users /\ q.waiters = p.waiters
  /\ Range(q.active) = Range(p.active) \ {m}
  /\ Range(q.idle) = Range(p.idle) \ {m}
  /\ q.num_active \in {p.num_active, p.num_active - 1}
  /\ q.num_users = p.num_users
  /\ q.u = p.u /\ q.m = [p.m EXCEPT ![m] = FreshMember]

\* The lists and the records without an assignment.
LEMMA Deassigned ==
  ASSUME NEW p, Balanced(p), NEW m \in Members, p.m[m].user # None,
         m \in Range(p.active), m \notin Range(p.idle)
  PROVE  Deassigns(p, DeassignMember(p, m), m)
<1> DEFINE q == DeassignMember(p, m)
           u == p.m[m].user
<1>1. /\ p \in PoolRec /\ Lists(p) /\ p.idle \in Seq(Members)
      /\ p.active \in Seq(Members) /\ u \in Users
  <2>1. p \in PoolRec /\ Lists(p)
    BY DEF Balanced
  <2> QED
    BY <2>1, PoolFields, MemberFields
<1>2. /\ q \in PoolRec
      /\ q.users = p.users /\ q.waiters = p.waiters
      /\ q.active = RemoveFirst(p.active, m) /\ q.idle = Append(p.idle, m)
      /\ q.num_active = p.num_active /\ q.num_users = p.num_users
      /\ q.u = [p.u EXCEPT ![u] = [p.u[u] EXCEPT !.member = None]]
      /\ q.m = [p.m EXCEPT ![m] = [p.m[m] EXCEPT !.user = None, !.send = FALSE]]
  BY <1>1, DeassignFields
<1>3. IsInjective(q.active) /\ Range(q.active) = Range(p.active) \ {m}
  BY <1>1, <1>2, Without DEF Lists
<1>4. IsInjective(q.idle) /\ Range(q.idle) = Range(p.idle) \cup {m}
  BY <1>1, <1>2, With DEF Lists
<1> HIDE DEF q, u
<1>5. Lists(q)
  BY <1>1, <1>2, <1>3, <1>4 DEF Lists
<1>6. Balanced(q)
  <2>1. q.active \in Seq(Members) /\ q.idle \in Seq(Members)
    BY <1>2, PoolFields
  <2>2. Total(q.active, p.idle) = Total(p.active, p.idle) - 1
    BY <1>1, <1>2, TotalWithout DEF Lists
  <2>3. Total(q.idle, q.active) = Total(p.idle, q.active) + 1
    BY <1>1, <1>2, <2>1, TotalWith DEF Lists
  <2>4. /\ Total(q.idle, q.active) = Total(q.active, q.idle)
        /\ Total(p.idle, q.active) = Total(q.active, p.idle)
        /\ Total(p.active, p.idle) \in Nat
    BY <1>1, <2>1, TotalSwaps
  <2> QED
    BY <1>2, <1>5, <2>2, <2>3, <2>4 DEF Balanced
<1> QED
  BY <1>1, <1>2, <1>3, <1>4, <1>6 DEF q, u, Deassigns

\* The lists without a user that had no member any more.
LEMMA Dropped ==
  ASSUME NEW p, Balanced(p), NEW u \in Users,
         u \in Range(p.users) <=> p.u[u].st = "query",
         u \in Range(p.waiters) <=> p.u[u].st = "wait",
         p.u[u].st # "free"
  PROVE  Drops(p, DropUser(p, u), u)
<1> DEFINE q == DropUser(p, u)
<1>1. /\ p \in PoolRec /\ Lists(p) /\ p.users \in Seq(Users)
      /\ p.waiters \in Seq(Users) /\ p.u[u].st \in {"free", "query", "wait"}
  <2>1. p \in PoolRec /\ Lists(p)
    BY DEF Balanced
  <2> QED
    BY <2>1, PoolFields, UserFields
<1>2. /\ q \in PoolRec
      /\ q.active = p.active /\ q.idle = p.idle
      /\ q.num_active = p.num_active /\ q.num_users = p.num_users - 1
      /\ q.u = [p.u EXCEPT ![u] = FreshUser] /\ q.m = p.m
      /\ IF p.u[u].st = "wait"
         THEN q.users = p.users /\ q.waiters = RemoveFirst(p.waiters, u)
         ELSE q.users = RemoveFirst(p.users, u) /\ q.waiters = p.waiters
  BY <1>1, DropFields
<1> HIDE DEF q
<1>3. CASE p.u[u].st = "wait"
  <2>1. IsInjective(q.waiters) /\ Range(q.waiters) = Range(p.waiters) \ {u}
    BY <1>1, <1>2, <1>3, Without DEF Lists
  <2>2. Balanced(q)
    <3>1. Lists(q)
      BY <1>1, <1>2, <1>3, <2>1 DEF Lists
    <3> QED
      <4>1. Total(q.waiters, q.users) = Total(p.waiters, p.users) - 1
        BY <1>1, <1>2, <1>3, TotalWithout DEF Lists
      <4>2. /\ Total(q.waiters, q.users) = Total(q.users, q.waiters)
            /\ Total(p.waiters, p.users) = Total(p.users, p.waiters)
        BY <1>1, <1>2, <3>1, PoolFields, TotalSwaps
      <4> QED
        BY <1>2, <3>1, <4>1, <4>2 DEF Balanced
  <2>3. Range(p.users) \ {u} = Range(p.users)
    BY <1>3
  <2> QED
    BY <1>2, <1>3, <2>1, <2>2, <2>3 DEF q, Drops
<1>4. CASE p.u[u].st = "query"
  <2>1. IsInjective(q.users) /\ Range(q.users) = Range(p.users) \ {u}
    BY <1>1, <1>2, <1>4, Without DEF Lists
  <2>2. Balanced(q)
    <3>1. Lists(q)
      BY <1>1, <1>2, <1>4, <2>1 DEF Lists
    <3> QED
      <4>1. Total(q.users, q.waiters) = Total(p.users, p.waiters) - 1
        BY <1>1, <1>2, <1>4, TotalWithout DEF Lists
      <4> QED
        BY <1>2, <3>1, <4>1 DEF Balanced
  <2>3. Range(p.waiters) \ {u} = Range(p.waiters)
    BY <1>4
  <2> QED
    BY <1>2, <1>4, <2>1, <2>2, <2>3 DEF q, Drops
<1> QED
  BY <1>1, <1>3, <1>4

\* The lists without a member that had no user any more.
LEMMA Closed ==
  ASSUME NEW p, Balanced(p), NEW m \in Members, p.m[m].user = None,
         m \notin Range(p.active) \cap Range(p.idle)
  PROVE  Closes(p, FreeMember(p, m), m)
<1> DEFINE q == FreeMember(p, m)
           n == IF Linked(p, m) THEN p.num_active - 1 ELSE p.num_active
           a == RemoveFirst(p.active, m)
           i == RemoveFirst(p.idle, m)
<1>1. /\ p \in PoolRec /\ Lists(p) /\ p.idle \in Seq(Members)
      /\ p.active \in Seq(Members) /\ p.num_active \in Int
  <2>1. p \in PoolRec /\ Lists(p)
    BY DEF Balanced
  <2> QED
    BY <2>1, PoolFields
<1>2. Linked(p, m) <=> m \in Range(p.active) \cup Range(p.idle)
  BY <1>1 DEF Linked, Contains, Range
<1>3. a \in Seq(Members) /\ IsInjective(a) /\ Range(a) = Range(p.active) \ {m}
  BY <1>1, Without DEF Lists
<1>4. i \in Seq(Members) /\ IsInjective(i) /\ Range(i) = Range(p.idle) \ {m}
  BY <1>1, Without DEF Lists
<1>5. n \in Int
  BY <1>1
<1>6. q = [p EXCEPT !.num_active = n, !.active = a, !.idle = i,
                    !.m = [p.m EXCEPT ![m] = FreshMember]]
  BY <1>1 DEF FreeMember, UserOf, PoolRec
<1> HIDE DEF a, i
<1>7. n = Total(a, i)
  <2>1. Total(a, p.idle) = IF m \in Range(p.active) THEN Total(p.active, p.idle) - 1
                                                  ELSE Total(p.active, p.idle)
    BY <1>1, TotalWithout DEF Lists, a
  <2>2. Total(i, a) = IF m \in Range(p.idle) THEN Total(p.idle, a) - 1
                                            ELSE Total(p.idle, a)
    BY <1>1, <1>3, TotalWithout DEF Lists, i
  <2>3. Total(i, a) = Total(a, i) /\ Total(a, p.idle) = Total(p.idle, a)
    BY <1>1, <1>3, <1>4, TotalSwaps
  <2>4. p.num_active = Total(p.active, p.idle)
    BY DEF Balanced
  <2> QED
    BY <1>1, <1>2, <2>1, <2>2, <2>3, <2>4
<1>8. n \in {p.num_active, p.num_active - 1}
  OBVIOUS
<1> HIDE DEF n, q
<1>9. [p.m EXCEPT ![m] = FreshMember] \in [Members -> MemberRec]
  <2>1. FreshMember \in MemberRec
    BY PoolAssumption DEF FreshMember, MemberRec
  <2> QED
    BY <1>1, <2>1, PoolFields
<1>10. q \in PoolRec
  BY <1>1, <1>3, <1>4, <1>5, <1>6, <1>9 DEF PoolRec
<1>11. /\ q.num_active = n /\ q.active = a /\ q.idle = i
       /\ q.m = [p.m EXCEPT ![m] = FreshMember] /\ q.u = p.u
       /\ q.users = p.users /\ q.waiters = p.waiters /\ q.num_users = p.num_users
  BY <1>1, <1>6 DEF PoolRec
<1>12. Balanced(q)
  <2>1. Lists(q)
    BY <1>1, <1>3, <1>4, <1>11 DEF Lists
  <2> QED
    BY <1>7, <1>10, <1>11, <2>1 DEF Balanced
<1> QED
  BY <1>3, <1>4, <1>8, <1>11, <1>12 DEF q, Closes

---------------------------------------------------------------------------
(* A step that touches one user and one member.                            *)

\* u and m serve each other, or nobody
Pair(p, u, m) == /\ u \in Users => p.u[u].member \in {None, m}
                 /\ m \in Members => p.m[m].user \in {None, u}

\* the users other than u and the members other than m are the same in q
Same(p, q, u, m) ==
  /\ \A x \in Users \ {u} :
       /\ q.u[x] = p.u[x]
       /\ x \in Range(q.users) <=> x \in Range(p.users)
       /\ x \in Range(q.waiters) <=> x \in Range(p.waiters)
  /\ \A n \in Members \ {m} :
       /\ q.m[n] = p.m[n]
       /\ n \in Range(q.active) <=> n \in Range(p.active)
       /\ n \in Range(q.idle) <=> n \in Range(p.idle)

\* the pool is sound before and after, and only u and m are touched
Change(p, q, u, m) == /\ Sound(p) /\ Sound(q)
                      /\ Pair(p, u, m) /\ Same(p, q, u, m)

\* A sound pool is balanced.
LEMMA SoundBalances ==
  ASSUME NEW p, Sound(p)
  PROVE  Balanced(p)
BY DEF Sound, Balanced, Counts, Total

\* What Sound says of a user and of a member.
LEMMA SoundFits ==
  ASSUME NEW p, Sound(p)
  PROVE  /\ p \in PoolRec
         /\ p.num_active <= MaxOpen /\ p.num_users <= MaxUsers
         /\ \A u \in Users : UserFits(p, u) /\ p.u[u] \in UserRec
         /\ \A m \in Members : MemberFits(p, m) /\ p.m[m] \in MemberRec
BY PoolFields DEF Sound, Counts

\* When the two touched records fit, the pool is sound.
LEMMA Frame ==
  ASSUME NEW p, NEW q, NEW u, NEW m, Sound(p), Pair(p, u, m), Same(p, q, u, m),
         Balanced(q), q.num_active <= MaxOpen, q.num_users <= MaxUsers,
         u \in Users => UserFits(q, u), m \in Members => MemberFits(q, m)
  PROVE  Change(p, q, u, m)
<1>1. /\ \A x \in Users : UserFits(p, x) /\ p.u[x] \in UserRec
      /\ \A n \in Members : MemberFits(p, n) /\ p.m[n] \in MemberRec
  BY SoundFits
<1>2. ASSUME NEW x \in Users, x # u PROVE UserFits(q, x)
  <2>1. p.u[x].member \in Members \cup {None}
    BY <1>1, UserFields
  <2>2. /\ q.u[x] = p.u[x]
        /\ x \in Range(q.users) <=> x \in Range(p.users)
        /\ x \in Range(q.waiters) <=> x \in Range(p.waiters)
    BY <1>2 DEF Same
  <2>3. p.u[x].member # None => p.u[x].member # m
    BY <1>1, <1>2, <2>1, PoolAssumption DEF UserFits, Pair
  <2>4. p.u[x].member # None => q.m[p.u[x].member] = p.m[p.u[x].member]
    BY <2>1, <2>3 DEF Same
  <2>5. UserFits(p, x)
    BY <1>1
  <2> QED
    BY <2>2, <2>4, <2>5 DEF UserFits
<1>3. ASSUME NEW n \in Members, n # m PROVE MemberFits(q, n)
  <2>1. p.m[n].user \in Users \cup {None} /\ MemberFits(p, n)
    BY <1>1, MemberFields
  <2>2. /\ q.m[n] = p.m[n]
        /\ n \in Range(q.active) <=> n \in Range(p.active)
        /\ n \in Range(q.idle) <=> n \in Range(p.idle)
    BY <1>3 DEF Same
  <2>3. p.m[n].user # None => p.m[n].user # u
    BY <1>3, <2>1, PoolAssumption DEF MemberFits, Joined, Pair
  <2>4. p.m[n].user # None => q.u[p.m[n].user] = p.u[p.m[n].user]
    BY <2>1, <2>3 DEF Same
  <2> QED
    BY <2>1, <2>2, <2>4 DEF MemberFits, Joined
<1>4. \A x \in Users : UserFits(q, x)
  BY <1>2
<1>5. \A n \in Members : MemberFits(q, n)
  BY <1>3
<1>6. Sound(q)
  BY <1>4, <1>5 DEF Sound, Balanced, Counts, Total
<1> QED
  BY <1>6 DEF Change

---------------------------------------------------------------------------
(* A client and its connection go.                                         *)

(***************************************************************************)
(* User u is dropped; its member m is closed, or kept as an idle           *)
(* connection with a clean session.                                        *)
(***************************************************************************)
Gone(p, q, u, m, kept) ==
  /\ Balanced(q)
  /\ q.num_active <= p.num_active /\ q.num_users <= p.num_users
  /\ Range(q.users) = Range(p.users) \ {u}
  /\ Range(q.waiters) = Range(p.waiters) \ {u}
  /\ Range(q.active) = Range(p.active) \ {m}
  /\ Range(q.idle) \ {m} = Range(p.idle) \ {m}
  /\ q.u = [p.u EXCEPT ![u] = FreshUser]
  /\ \A n \in Members \ {m} : q.m[n] = p.m[n]
  /\ m \in Members =>
       /\ m \in Range(q.idle) <=> kept
       /\ ~kept => q.m[m] = FreshMember
       /\ kept => /\ q.m[m].st = p.m[m].st /\ q.m[m].tds = p.m[m].tds
                  /\ q.m[m].async = p.m[m].async
                  /\ q.m[m].user = None /\ q.m[m].session = None
                  /\ ~q.m[m].part /\ ~q.m[m].send

\* u has a record, m is its connection, and both or one of them may be None
Partners(p, u, m) ==
  /\ u \in Users \cup {None} /\ m \in Members \cup {None}
  /\ u \in Users => p.u[u].st # "free" /\ p.u[u].member = m
  /\ m \in Members => p.m[m].user = u

\* Without a pair that worked together the pool is sound again.
LEMMA GoneChanges ==
  ASSUME NEW p, NEW q, NEW u, NEW m, NEW kept \in BOOLEAN, Sound(p),
         Partners(p, u, m), Gone(p, q, u, m, kept),
         kept => p.m[m].st = "open" /\ p.m[m].tds /\ ~p.m[m].async
  PROVE  Change(p, q, u, m)
<1>1. /\ p \in PoolRec /\ p.num_active \in Int /\ p.num_users \in Int
      /\ p.users \in Seq(Users) /\ p.waiters \in Seq(Users)
      /\ p.active \in Seq(Members) /\ p.idle \in Seq(Members)
      /\ p.u \in [Users -> UserRec] /\ p.m \in [Members -> MemberRec]
      /\ p.num_active <= MaxOpen /\ p.num_users <= MaxUsers
  BY SoundFits, PoolFields
<1>2. /\ q \in PoolRec /\ q.num_active \in Int /\ q.num_users \in Int
      /\ q.m \in [Members -> MemberRec]
  <2>1. q \in PoolRec
    BY DEF Gone, Balanced
  <2> QED
    BY <2>1, PoolFields
<1>3. Pair(p, u, m)
  BY DEF Partners, Pair
<1>4. Same(p, q, u, m)
  <2>1. ASSUME NEW x \in Users, x # u
        PROVE  /\ q.u[x] = p.u[x]
               /\ x \in Range(q.users) <=> x \in Range(p.users)
               /\ x \in Range(q.waiters) <=> x \in Range(p.waiters)
    BY <1>1, <2>1 DEF Gone
  <2>2. ASSUME NEW n \in Members, n # m
        PROVE  /\ q.m[n] = p.m[n]
               /\ n \in Range(q.active) <=> n \in Range(p.active)
               /\ n \in Range(q.idle) <=> n \in Range(p.idle)
    <3>1. n \in Range(q.idle) \ {m} <=> n \in Range(p.idle) \ {m}
      BY DEF Gone
    <3> QED
      BY <2>2, <3>1 DEF Gone
  <2> QED
    BY <2>1, <2>2 DEF Same
<1>5. q.num_active <= MaxOpen /\ q.num_users <= MaxUsers
  BY <1>1, <1>2, PoolAssumption, LoopAssumption DEF Gone
<1>6. u \in Users => UserFits(q, u)
  <2> HAVE u \in Users
  <2>1. q.u[u] = FreshUser
    BY <1>1 DEF Gone
  <2>2. u \notin Range(q.users) /\ u \notin Range(q.waiters)
    BY DEF Gone
  <2> QED
    BY <2>1, <2>2 DEF UserFits, FreshUser
<1>7. m \in Members => MemberFits(q, m)
  <2> HAVE m \in Members
  <2>1. m \notin Range(q.active) /\ (m \in Range(q.idle) <=> kept)
    BY DEF Gone
  <2>2. CASE kept
    <3>1. /\ q.m[m].st = "open" /\ q.m[m].user = None /\ q.m[m].tds
          /\ ~q.m[m].async /\ q.m[m].session = None /\ ~q.m[m].part
          /\ ~q.m[m].send
      BY <2>2 DEF Gone
    <3> QED
      BY <2>1, <2>2, <3>1 DEF MemberFits
  <2>3. CASE ~kept
    <3>1. q.m[m] = FreshMember
      BY <2>3 DEF Gone
    <3> QED
      BY <2>1, <2>3, <3>1 DEF MemberFits, FreshMember
  <2> QED
    BY <2>2, <2>3
<1>8. Balanced(q)
  BY DEF Gone
<1> QED
  BY <1>3, <1>4, <1>5, <1>6, <1>7, <1>8, Frame

\* in q, the idle member m is clean, or closed
Cleans(p, q, m, ok) ==
  /\ Balanced(q)
  /\ q.users = p.users /\ q.waiters = p.waiters
  /\ Range(q.active) = Range(p.active)
  /\ ok => Range(q.idle) = Range(p.idle)
  /\ ~ok => Range(q.idle) = Range(p.idle) \ {m}
  /\ q.num_active <= p.num_active /\ q.num_users = p.num_users
  /\ q.u = p.u
  /\ ok => q.m = [p.m EXCEPT ![m] = [p.m[m] EXCEPT !.session = None, !.part = FALSE]]
  /\ ~ok => q.m = [p.m EXCEPT ![m] = FreshMember]

\* A session is reset and kept, or its connection is closed.
LEMMA Cleaned ==
  ASSUME NEW p, Balanced(p), NEW m \in Members, NEW ok \in BOOLEAN,
         p.m[m].user = None, m \notin Range(p.active), m \in Range(p.idle)
  PROVE  Cleans(p, CleanSession(p, m, ok), m, ok)
<1> DEFINE q == CleanSession(p, m, ok)
<1>1. p \in PoolRec /\ p.num_active \in Int
  <2>1. p \in PoolRec
    BY DEF Balanced
  <2> QED
    BY <2>1, PoolFields
<1>2. CASE ok
  <2>1. [p.m[m] EXCEPT !.session = None, !.part = FALSE] \in MemberRec
    <3>1. p.m[m] \in MemberRec
      BY <1>1, PoolFields
    <3> QED
      BY <3>1 DEF MemberRec
  <2>2. q = [p EXCEPT !.m = [p.m EXCEPT ![m] =
                               [p.m[m] EXCEPT !.session = None, !.part = FALSE]]]
    BY <1>1, <1>2 DEF CleanSession, PoolRec
  <2>3. [p.m EXCEPT ![m] = [p.m[m] EXCEPT !.session = None, !.part = FALSE]]
          \in [Members -> MemberRec]
    BY <1>1, <2>1, PoolFields
  <2> HIDE DEF q
  <2>4. q \in PoolRec
    BY <1>1, <2>2, <2>3 DEF PoolRec
  <2>5. /\ q.users = p.users /\ q.waiters = p.waiters
        /\ q.active = p.active /\ q.idle = p.idle
        /\ q.num_active = p.num_active /\ q.num_users = p.num_users
        /\ q.u = p.u
        /\ q.m = [p.m EXCEPT ![m] = [p.m[m] EXCEPT !.session = None, !.part = FALSE]]
    BY <1>1, <2>2 DEF PoolRec
  <2>6. Balanced(q)
    BY <2>4, <2>5 DEF Balanced, Lists
  <2>7. Cleans(p, q, m, ok)
    BY <1>1, <1>2, <2>5, <2>6 DEF Cleans
  <2> QED
    BY <2>7 DEF q
<1>3. CASE ~ok
  <2>1. q = FreeMember(p, m)
    BY <1>3 DEF CleanSession
  <2>2. Closes(p, q, m)
    BY <2>1, Closed
  <2> HIDE DEF q
  <2>3. Range(p.active) \ {m} = Range(p.active)
    OBVIOUS
  <2> QED
    BY <1>1, <1>3, <2>2, <2>3 DEF q, Closes, Cleans
<1> QED
  BY <1>2, <1>3

\* in q, m was taken from its user u, who is dropped
Parts(p, q, u, m) ==
  /\ u \in Users /\ p.u[u].st = "query" /\ p.u[u].member = m
  /\ p.m[m].st = "open"
  /\ Balanced(q)
  /\ Range(q.users) = Range(p.users) \ {u}
  /\ Range(q.waiters) = Range(p.waiters) \ {u}
  /\ Range(q.active) = Range(p.active) \ {m}
  /\ Range(q.idle) = Range(p.idle) \cup {m}
  /\ q.num_active = p.num_active /\ q.num_users = p.num_users - 1
  /\ q.u = [p.u EXCEPT ![u] = FreshUser]
  /\ q.m = [p.m EXCEPT ![m] = [p.m[m] EXCEPT !.user = None, !.send = FALSE]]

\* A connection and its user are parted, and the user is dropped.
LEMMA Parted ==
  ASSUME NEW p, Sound(p), NEW m \in Members, NEW u, u = p.m[m].user, u # None
  PROVE  Parts(p, DropUser(DeassignMember(p, m), u), u, m)
<1> DEFINE d == DeassignMember(p, m)
           q == DropUser(d, u)
<1>1. /\ p \in PoolRec /\ Balanced(p) /\ MemberFits(p, m)
      /\ u \in Users /\ UserFits(p, u) /\ p.u[u] \in UserRec
  <2>1. p \in PoolRec /\ MemberFits(p, m) /\ p.m[m] \in MemberRec
    BY SoundFits
  <2>2. u \in Users
    BY <2>1, MemberFields
  <2> QED
    BY <2>1, <2>2, SoundFits, SoundBalances
<1>2. /\ m \in Range(p.active) /\ m \notin Range(p.idle)
      /\ p.m[m].st = "open" /\ p.u[u].member = m
  BY <1>1 DEF MemberFits, Joined
<1>3. p.u[u].st = "query"
  BY <1>1, <1>2, PoolAssumption DEF UserFits
<1>4. Deassigns(p, d, m)
  BY <1>1, <1>2, Deassigned
<1> HIDE DEF d
<1>5. p.u \in [Users -> UserRec]
  BY <1>1, PoolFields
<1>6. d.u = [p.u EXCEPT ![u] = [p.u[u] EXCEPT !.member = None]] /\ d.u[u].st = "query"
  <2>1. d.u = [p.u EXCEPT ![u] = [p.u[u] EXCEPT !.member = None]]
    BY <1>4 DEF Deassigns
  <2>2. d.u[u] = [p.u[u] EXCEPT !.member = None]
    BY <1>1, <1>5, <2>1
  <2> QED
    BY <1>1, <1>3, <2>1, <2>2 DEF UserRec
<1>7. /\ u \in Range(d.users) <=> d.u[u].st = "query"
      /\ u \in Range(d.waiters) <=> d.u[u].st = "wait"
  BY <1>1, <1>3, <1>4, <1>6 DEF UserFits, Deassigns
<1>8. Drops(d, q, u)
  <2>1. Balanced(d)
    BY <1>4 DEF Deassigns
  <2> QED
    BY <1>1, <2>1, <1>6, <1>7, Dropped
<1> HIDE DEF q
<1>9. q.u = [p.u EXCEPT ![u] = FreshUser]
  BY <1>1, <1>5, <1>6, <1>8 DEF Drops
<1>10. Parts(p, q, u, m)
  BY <1>1, <1>2, <1>3, <1>4, <1>8, <1>9 DEF Deassigns, Drops, Parts
<1> QED
  BY <1>10 DEF d, q

\* A member that is closed takes its user with it.
LEMMA FreeMemberChanges ==
  ASSUME NEW p, Sound(p), NEW m \in Members, NEW u, u = p.m[m].user
  PROVE  /\ Partners(p, u, m)
         /\ Gone(p, FreeMember(p, m), u, m, FALSE)
         /\ Change(p, FreeMember(p, m), u, m)
<1> DEFINE q == FreeMember(p, m)
<1>1. /\ p \in PoolRec /\ Balanced(p) /\ MemberFits(p, m) /\ p.m[m] \in MemberRec
      /\ u \in Users \cup {None} /\ p.num_active \in Int /\ p.num_users \in Int
      /\ p.m \in [Members -> MemberRec] /\ p.u \in [Users -> UserRec]
  <2>1. p \in PoolRec /\ MemberFits(p, m) /\ p.m[m] \in MemberRec
    BY SoundFits
  <2> QED
    BY <2>1, MemberFields, PoolFields, SoundBalances
<1>2. CASE u = None
  <2>1. Closes(p, q, m)
    <3>1. m \notin Range(p.active) \cap Range(p.idle)
      BY <1>1, <1>2 DEF MemberFits
    <3> QED
      BY <1>1, <1>2, <3>1, Closed
  <2> HIDE DEF q
  <2>2. None \notin Range(p.users) /\ None \notin Range(p.waiters)
    BY <1>1, PoolFields, PoolAssumption DEF Range
  <2>3. Gone(p, q, None, m, FALSE)
    BY <1>1, <2>1, <2>2, PoolAssumption DEF Gone, Closes
  <2>4. Partners(p, None, m)
    BY <1>2, PoolAssumption DEF Partners
  <2> QED
    BY <1>2, <2>3, <2>4, GoneChanges DEF q
<1>3. CASE u # None
  <2> DEFINE d == DropUser(DeassignMember(p, m), u)
  <2>1. Parts(p, d, u, m)
    BY <1>3, Parted
  <2>2. d.m[m].user = None
    <3> HIDE DEF d
    <3>1. d.m[m] = [p.m[m] EXCEPT !.user = None, !.send = FALSE]
      BY <1>1, <2>1 DEF Parts
    <3> QED
      BY <1>1, <3>1 DEF MemberRec
  <2>3. q = FreeMember(d, m)
    BY <1>3, <2>2 DEF FreeMember, UserOf
  <2> HIDE DEF d
  <2>4. Closes(d, q, m)
    <3>1. Balanced(d) /\ m \notin Range(d.active) \cap Range(d.idle)
      BY <2>1 DEF Parts
    <3> QED
      BY <2>2, <2>3, <3>1, Closed
  <2> HIDE DEF q
  <2>5. q.m = [p.m EXCEPT ![m] = FreshMember]
    BY <1>1, <2>1, <2>4 DEF Parts, Closes
  <2>6. Gone(p, q, u, m, FALSE)
    BY <1>1, <2>1, <2>4, <2>5 DEF Gone, Parts, Closes
  <2>7. Partners(p, u, m)
    BY <2>1, PoolAssumption DEF Partners, Parts
  <2> QED
    BY <2>6, <2>7, GoneChanges DEF q
<1> QED
  BY <1>1, <1>2, <1>3

\* A member that is reset takes its user with it, and stays when it is clean.
LEMMA ResetMemberChanges ==
  ASSUME NEW p, Sound(p), NEW m \in Members, NEW ok \in BOOLEAN,
         NEW u, u = p.m[m].user, u # None, p.m[m].tds, ~p.m[m].async
  PROVE  /\ Partners(p, u, m)
         /\ Gone(p, ResetMember(p, m, ok), u, m, ok)
         /\ Change(p, ResetMember(p, m, ok), u, m)
<1> DEFINE d == DropUser(DeassignMember(p, m), u)
           q == ResetMember(p, m, ok)
<1>1. /\ p \in PoolRec /\ p.m[m] \in MemberRec /\ MemberFits(p, m)
      /\ p.num_active \in Int /\ p.num_users \in Int
      /\ p.m \in [Members -> MemberRec] /\ p.u \in [Users -> UserRec]
  <2>1. p \in PoolRec /\ p.m[m] \in MemberRec /\ MemberFits(p, m)
    BY SoundFits
  <2> QED
    BY <2>1, PoolFields
<1>2. Parts(p, d, u, m)
  BY Parted
<1>3. q = CleanSession(d, m, ok)
  BY DEF ResetMember, UserOf
<1> HIDE DEF d
<1>4. d.m[m] = [p.m[m] EXCEPT !.user = None, !.send = FALSE]
  BY <1>1, <1>2 DEF Parts
<1>5. /\ d.m[m].user = None /\ ~d.m[m].send /\ d.m[m].st = p.m[m].st
      /\ d.m[m].tds = p.m[m].tds /\ d.m[m].async = p.m[m].async
      /\ d.m[m] \in MemberRec
  BY <1>1, <1>4 DEF MemberRec
<1>6. Balanced(d) /\ m \notin Range(d.active) /\ m \in Range(d.idle)
  BY <1>2 DEF Parts
<1>7. Cleans(d, q, m, ok)
  BY <1>3, <1>5, <1>6, Cleaned
<1> HIDE DEF q
<1>8. d.m \in [Members -> MemberRec]
  BY <1>6, PoolFields DEF Balanced
<1>9. /\ \A n \in Members \ {m} : q.m[n] = p.m[n]
      /\ ~ok => q.m[m] = FreshMember
      /\ ok => q.m[m] = [d.m[m] EXCEPT !.session = None, !.part = FALSE]
  BY <1>1, <1>2, <1>7, <1>8 DEF Parts, Cleans
<1>10. ok => /\ q.m[m].st = p.m[m].st /\ q.m[m].tds = p.m[m].tds
             /\ q.m[m].async = p.m[m].async
             /\ q.m[m].user = None /\ q.m[m].session = None
             /\ ~q.m[m].part /\ ~q.m[m].send
  BY <1>5, <1>9 DEF MemberRec
<1>11. /\ Balanced(q) /\ q.u = [p.u EXCEPT ![u] = FreshUser]
       /\ q.num_active <= p.num_active /\ q.num_users <= p.num_users
  BY <1>1, <1>2, <1>7 DEF Parts, Cleans
<1>12. /\ Range(q.users) = Range(p.users) \ {u}
       /\ Range(q.waiters) = Range(p.waiters) \ {u}
       /\ Range(q.active) = Range(p.active) \ {m}
       /\ Range(q.idle) \ {m} = Range(p.idle) \ {m}
       /\ m \in Range(q.idle) <=> ok
  BY <1>2, <1>7 DEF Parts, Cleans
<1>13. Gone(p, q, u, m, ok)
  BY <1>9, <1>10, <1>11, <1>12 DEF Gone
<1>14. Partners(p, u, m)
  BY <1>2, PoolAssumption DEF Partners, Parts
<1>15. p.m[m].st = "open"
  BY <1>1 DEF MemberFits, Joined
<1> QED
  BY <1>13, <1>14, <1>15, GoneChanges DEF q

\* A user that is freed leaves its connection idle, when that can be cleaned.
LEMMA FreeUserChanges ==
  ASSUME NEW p, Sound(p), NEW u \in Users, NEW ok \in BOOLEAN,
         NEW m, m = p.u[u].member, p.u[u].st # "free",
         m # None => p.m[m].tds /\ ~p.m[m].async
  PROVE  /\ Partners(p, u, m)
         /\ Gone(p, FreeUser(p, u, ok), u, m, ok /\ m # None)
         /\ Change(p, FreeUser(p, u, ok), u, m)
<1> DEFINE d == DeassignMember(p, m)
           e == CleanSession(d, m, ok)
           q == FreeUser(p, u, ok)
<1>1. /\ p \in PoolRec /\ p.u[u] \in UserRec /\ UserFits(p, u)
      /\ p.num_active \in Int /\ p.num_users \in Int
      /\ p.m \in [Members -> MemberRec] /\ p.u \in [Users -> UserRec]
      /\ m \in Members \cup {None} /\ Balanced(p)
  <2>1. p \in PoolRec /\ p.u[u] \in UserRec /\ UserFits(p, u)
    BY SoundFits
  <2> QED
    BY <2>1, PoolFields, UserFields, SoundBalances
<1>2. CASE m = None
  <2>1. q = DropUser(p, u)
    BY <1>2 DEF FreeUser, MemberOf
  <2>2. Drops(p, q, u)
    BY <1>1, <2>1, Dropped DEF UserFits
  <2> HIDE DEF q
  <2>3. None \notin Range(p.active) /\ None \notin Range(p.idle)
    BY <1>1, PoolFields, PoolAssumption DEF Range
  <2>4. Gone(p, q, u, None, FALSE)
    BY <1>1, <2>2, <2>3, PoolAssumption DEF Gone, Drops
  <2>5. Partners(p, u, None)
    BY <1>2, PoolAssumption DEF Partners
  <2>6. Gone(p, q, u, m, ok /\ m # None)
    BY <1>2, <2>4
  <2>7. Change(p, q, u, m)
    BY <1>2, <2>4, <2>5, GoneChanges
  <2> QED
    BY <1>2, <2>5, <2>6, <2>7 DEF q
<1>3. CASE m # None
  <2>1. /\ m \in Members /\ p.m[m].user = u /\ p.u[u].st = "query"
        /\ MemberFits(p, m) /\ p.m[m] \in MemberRec
    BY <1>1, <1>3, SoundFits DEF UserFits
  <2>2. m \in Range(p.active) /\ m \notin Range(p.idle) /\ p.m[m].st = "open"
    BY <2>1, PoolAssumption DEF MemberFits, Joined
  <2>3. Deassigns(p, d, m)
    BY <1>1, <2>1, <2>2, PoolAssumption, Deassigned
  <2> HIDE DEF d
  <2>4. /\ d.m = [p.m EXCEPT ![m] = [p.m[m] EXCEPT !.user = None, !.send = FALSE]]
        /\ d.m[m] = [p.m[m] EXCEPT !.user = None, !.send = FALSE]
    BY <1>1, <2>1, <2>3 DEF Deassigns
  <2>5. /\ d.m[m].user = None /\ ~d.m[m].send /\ d.m[m].st = p.m[m].st
        /\ d.m[m].tds = p.m[m].tds /\ d.m[m].async = p.m[m].async
        /\ d.m[m] \in MemberRec
    BY <2>1, <2>4 DEF MemberRec
  <2>6. Balanced(d) /\ m \notin Range(d.active) /\ m \in Range(d.idle)
    BY <2>3 DEF Deassigns
  <2>7. Cleans(d, e, m, ok)
    BY <2>1, <2>5, <2>6, Cleaned
  <2>8. q = DropUser(e, u)
    BY <1>3, <2>5 DEF FreeUser, MemberOf, ResetMember, UserOf, d
  <2> HIDE DEF e
  <2>9. /\ e.u = [p.u EXCEPT ![u] = [p.u[u] EXCEPT !.member = None]]
        /\ e.u[u] = [p.u[u] EXCEPT !.member = None]
    BY <1>1, <2>1, <2>3, <2>7 DEF Deassigns, Cleans
  <2>10. e.u[u].st = "query"
    BY <1>1, <2>1, <2>9 DEF UserRec
  <2>11. /\ Balanced(e) /\ u \in Range(e.users) <=> e.u[u].st = "query"
         /\ u \in Range(e.waiters) <=> e.u[u].st = "wait"
    BY <1>1, <2>1, <2>3, <2>7, <2>10 DEF Deassigns, Cleans, UserFits
  <2>12. Drops(e, q, u)
    BY <2>8, <2>10, <2>11, Dropped
  <2> HIDE DEF q
  <2>13. d.m \in [Members -> MemberRec]
    BY <2>6, PoolFields DEF Balanced
  <2>14. /\ \A n \in Members \ {m} : q.m[n] = p.m[n]
         /\ ~ok => q.m[m] = FreshMember
         /\ ok => q.m[m] = [d.m[m] EXCEPT !.session = None, !.part = FALSE]
    BY <1>1, <2>1, <2>4, <2>7, <2>12, <2>13 DEF Cleans, Drops
  <2>15. ok => /\ q.m[m].st = p.m[m].st /\ q.m[m].tds = p.m[m].tds
               /\ q.m[m].async = p.m[m].async
               /\ q.m[m].user = None /\ q.m[m].session = None
               /\ ~q.m[m].part /\ ~q.m[m].send
    BY <2>5, <2>14 DEF MemberRec
  <2>16. q.u = [p.u EXCEPT ![u] = FreshUser]
    BY <1>1, <2>9, <2>12 DEF Drops
  <2>17. /\ q.num_active <= p.num_active /\ q.num_users = p.num_users - 1
    <3>1. d.num_active = p.num_active /\ d.num_users = p.num_users
      BY <2>3 DEF Deassigns
    <3>2. e.num_active <= d.num_active /\ e.num_users = d.num_users
      BY <2>7 DEF Cleans
    <3>3. q.num_active = e.num_active /\ q.num_users = e.num_users - 1
      BY <2>12 DEF Drops
    <3> QED
      BY <3>1, <3>2, <3>3
  <2>18. /\ Range(q.users) = Range(p.users) \ {u}
         /\ Range(q.waiters) = Range(p.waiters) \ {u}
         /\ Range(q.active) = Range(p.active) \ {m}
         /\ Range(q.idle) \ {m} = Range(p.idle) \ {m}
         /\ m \in Range(q.idle) <=> ok
    <3>1. /\ Range(d.users) = Range(p.users) /\ Range(d.waiters) = Range(p.waiters)
          /\ Range(d.active) = Range(p.active) \ {m}
          /\ Range(d.idle) = Range(p.idle) \cup {m}
      BY <2>3 DEF Deassigns
    <3>2. /\ e.users = d.users /\ e.waiters = d.waiters
          /\ Range(e.active) = Range(d.active)
          /\ ok => Range(e.idle) = Range(d.idle)
          /\ ~ok => Range(e.idle) = Range(d.idle) \ {m}
      BY <2>7 DEF Cleans
    <3>3. /\ Range(q.users) = Range(e.users) \ {u}
          /\ Range(q.waiters) = Range(e.waiters) \ {u}
          /\ q.active = e.active /\ q.idle = e.idle
      BY <2>12 DEF Drops
    <3> QED
      BY <3>1, <3>2, <3>3
  <2>19. Gone(p, q, u, m, ok)
    BY <1>1, <2>12, <2>14, <2>15, <2>16, <2>17, <2>18 DEF Gone, Drops
  <2>20. Partners(p, u, m)
    BY <2>1, PoolAssumption DEF Partners
  <2>21. Change(p, q, u, m)
    BY <1>3, <2>2, <2>19, <2>20, GoneChanges
  <2>22. Gone(p, q, u, m, ok /\ m # None)
    BY <1>3, <2>19
  <2> QED
    BY <2>20, <2>21, <2>22 DEF q
<1> QED
  BY <1>2, <1>3

---------------------------------------------------------------------------
(* A user is given a connection.                                           *)

\* in q, only the fields of users and members differ
Updates(p, q, g, f) ==
  /\ Balanced(q)
  /\ q.users = p.users /\ q.waiters = p.waiters
  /\ q.active = p.active /\ q.idle = p.idle
  /\ q.num_active = p.num_active /\ q.num_users = p.num_users
  /\ q.u = g /\ q.m = f

\* Records change and the lists do not.
LEMMA Updated ==
  ASSUME NEW p, Balanced(p), NEW g \in [Users -> UserRec],
         NEW f \in [Members -> MemberRec]
  PROVE  Updates(p, [p EXCEPT !.u = g, !.m = f], g, f)
<1> DEFINE q == [p EXCEPT !.u = g, !.m = f]
<1>1. p \in PoolRec
  BY DEF Balanced
<1>2. /\ q \in PoolRec
      /\ q.users = p.users /\ q.waiters = p.waiters
      /\ q.active = p.active /\ q.idle = p.idle
      /\ q.num_active = p.num_active /\ q.num_users = p.num_users
      /\ q.u = g /\ q.m = f
  BY <1>1 DEF PoolRec
<1> HIDE DEF q
<1>3. Updates(p, q, g, f)
  BY <1>2 DEF Balanced, Lists, Updates
<1> QED
  BY <1>3 DEF q

\* in q, the idle member m works for u
Assigns(p, q, u, m) ==
  /\ Balanced(q)
  /\ q.users = p.users /\ q.waiters = p.waiters
  /\ Range(q.active) = Range(p.active) \cup {m}
  /\ Range(q.idle) = Range(p.idle) \ {m}
  /\ q.num_active = p.num_active /\ q.num_users = p.num_users
  /\ q.u = [p.u EXCEPT ![u] = [p.u[u] EXCEPT !.member = m]]
  /\ q.m = [p.m EXCEPT ![m] = [p.m[m] EXCEPT !.user = u]]

\* The lists and the records with one more assignment.
LEMMA Assigned ==
  ASSUME NEW p, Balanced(p), NEW u \in Users, NEW m \in Members,
         m \notin Range(p.active), m \in Range(p.idle)
  PROVE  Assigns(p, AssignMember(p, m, u), u, m)
<1> DEFINE q == AssignMember(p, m, u)
<1>1. /\ p \in PoolRec /\ Lists(p) /\ p.idle \in Seq(Members)
      /\ p.active \in Seq(Members)
  <2>1. p \in PoolRec /\ Lists(p)
    BY DEF Balanced
  <2> QED
    BY <2>1, PoolFields
<1>2. Assignment(p, q, u, m)
  BY <1>1, AssignFields
<1> USE DEF Assignment
<1> HIDE DEF q
<1>3. /\ IsInjective(q.idle) /\ Range(q.idle) = Range(p.idle) \ {m}
      /\ q.idle \in Seq(Members)
  BY <1>1, <1>2, Without DEF Lists
<1>4. /\ IsInjective(q.active) /\ Range(q.active) = Range(p.active) \cup {m}
  BY <1>1, <1>2, With DEF Lists
<1>5. Lists(q)
  BY <1>1, <1>2, <1>3, <1>4 DEF Lists
<1>6. Balanced(q)
  <2>1. Total(q.active, p.idle) = Total(p.active, p.idle) + 1
    BY <1>1, <1>2, TotalWith DEF Lists
  <2>2. q.active \in Seq(Members)
    BY <1>2, PoolFields
  <2>3. Total(q.idle, q.active) = Total(p.idle, q.active) - 1
    BY <1>1, <1>2, <2>2, TotalWithout DEF Lists
  <2>4. /\ Total(q.idle, q.active) = Total(q.active, q.idle)
        /\ Total(p.idle, q.active) = Total(q.active, p.idle)
        /\ Total(p.active, p.idle) \in Nat
    BY <1>1, <1>3, <2>2, TotalSwaps
  <2> QED
    BY <1>2, <1>5, <2>1, <2>3, <2>4 DEF Balanced
<1>7. Assigns(p, q, u, m)
  BY <1>2, <1>3, <1>4, <1>6 DEF Assigns
<1> QED
  BY <1>7 DEF q

(***************************************************************************)
(* User u, that had nobody, is served by member m, that served nobody: it  *)
(* is open, silent and clean.                                              *)
(***************************************************************************)
Serves(p, q, u, m) ==
  /\ Balanced(q)
  /\ q.users = p.users /\ q.waiters = p.waiters
  /\ Range(q.active) = Range(p.active) \cup {m}
  /\ Range(q.idle) = Range(p.idle) \ {m}
  /\ q.num_active <= MaxOpen /\ q.num_users = p.num_users
  /\ q.u = [p.u EXCEPT ![u] = [p.u[u] EXCEPT !.member = m]]
  /\ \A n \in Members \ {m} : q.m[n] = p.m[n]
  /\ q.m[m].st = "open" /\ q.m[m].user = u /\ q.m[m].session = None
  /\ q.m[m].async \/ q.m[m].tds
  /\ ~q.m[m].recv /\ ~q.m[m].send /\ ~q.m[m].part

\* A connection serves a user that had none.
LEMMA ServesChanges ==
  ASSUME NEW p, Sound(p), NEW u \in Users, NEW m \in Members,
         p.u[u].st = "query", p.u[u].member = None, p.m[m].user = None,
         NEW q, Serves(p, q, u, m)
  PROVE  Change(p, q, u, m) /\ q.u[u] = [p.u[u] EXCEPT !.member = m]
<1>1. /\ p \in PoolRec /\ UserFits(p, u) /\ p.u[u] \in UserRec
      /\ p.u \in [Users -> UserRec] /\ p.num_users <= MaxUsers
  <2>1. /\ p \in PoolRec /\ UserFits(p, u) /\ p.u[u] \in UserRec
        /\ p.num_users <= MaxUsers
    BY SoundFits
  <2> QED
    BY <2>1, PoolFields
<1>2. q.u[u] = [p.u[u] EXCEPT !.member = m]
  BY <1>1 DEF Serves
<1>3. /\ q.u[u].st = "query" /\ q.u[u].member = m
      /\ ~q.u[u].recv /\ ~q.u[u].send /\ ~q.u[u].part
  BY <1>1, <1>2 DEF UserRec, UserFits
<1>4. Pair(p, u, m)
  BY DEF Pair
<1>5. Same(p, q, u, m)
  BY <1>1 DEF Same, Serves
<1>6. UserFits(q, u)
  <2>1. u \in Range(p.users) /\ u \notin Range(p.waiters)
    BY <1>1 DEF UserFits
  <2> QED
    BY <1>3, <2>1, PoolAssumption DEF UserFits, Serves
<1>7. MemberFits(q, m)
  <2>1. /\ m \in Range(q.active) /\ m \notin Range(q.idle)
        /\ q.m[m].st = "open" /\ q.m[m].user = u /\ u # None
    BY PoolAssumption DEF Serves
  <2>2. Joined(q, m)
    <3>1. q \in PoolRec /\ q.m[m] \in MemberRec /\ q.u[u] \in UserRec
      BY PoolFields DEF Serves, Balanced
    <3>2. /\ q.m[m].send \in BOOLEAN /\ q.m[m].part \in BOOLEAN
          /\ q.u[u].send \in BOOLEAN /\ q.u[u].part \in BOOLEAN
      BY <3>1, UserFields, MemberFields
    <3> QED
      BY <1>3, <3>2 DEF Joined, Serves
  <2> QED
    BY <2>1, <2>2 DEF MemberFits
<1>8. Change(p, q, u, m)
  BY <1>1, <1>4, <1>5, <1>6, <1>7, Frame DEF Serves
<1> QED
  BY <1>2, <1>8

\* While the limit is not reached a record is left for another connection.
LEMMA RoomLeft ==
  ASSUME NEW p, Sound(p), p.num_active < MaxOpen
  PROVE  Unallocated(p) # {}
<1> SUFFICES ASSUME Unallocated(p) = {} PROVE FALSE
  OBVIOUS
<1> DEFINE a == p.active
           b == p.idle
           k == Len(a)
           n == Len(b)
           A == Range(a)
           B == Range(b)
<1>1. a \in Seq(Members) /\ b \in Seq(Members) /\ k \in Nat /\ n \in Nat
  BY SoundFits, PoolFields, LenProperties
<1>2. Members \subseteq A \cup B
  <2> SUFFICES ASSUME NEW m \in Members PROVE m \in A \cup B
    OBVIOUS
  <2>1. MemberFits(p, m) /\ p.m[m].st \in {"free", "open"}
    BY SoundFits, MemberFields
  <2>2. p.m[m].st # "free"
    BY DEF Unallocated
  <2> QED
    BY <2>1, <2>2 DEF MemberFits
<1>3. Members = A \cup B
  BY <1>1, <1>2 DEF Range
<1>4. p.num_active = k + n
  BY DEF Sound, Counts
<1> HIDE DEF a, b, k, n
<1>5. IsFiniteSet(A) /\ Cardinality(A) <= k
  <2>1. a \in Surjection(1..k, A)
    BY <1>1 DEF Surjection, Range, k
  <2>2. IsFiniteSet(1..k) /\ Cardinality(1..k) = k
    BY <1>1, FS_Interval
  <2> HIDE DEF A
  <2>3. IsFiniteSet(A) /\ Cardinality(A) <= Cardinality(1..k)
    BY <2>1, <2>2, FS_Surjection
  <2> QED
    BY <2>2, <2>3
<1>6. IsFiniteSet(B) /\ Cardinality(B) <= n
  <2>1. b \in Surjection(1..n, B)
    BY <1>1 DEF Surjection, Range, n
  <2>2. IsFiniteSet(1..n) /\ Cardinality(1..n) = n
    BY <1>1, FS_Interval
  <2> HIDE DEF B
  <2>3. IsFiniteSet(B) /\ Cardinality(B) <= Cardinality(1..n)
    BY <2>1, <2>2, FS_Surjection
  <2> QED
    BY <2>2, <2>3
<1> HIDE DEF A, B
<1>7. Cardinality(A \cup B) <= k + n
  <2>1. Cardinality(A) \in Nat /\ Cardinality(B) \in Nat
    BY <1>5, <1>6, FS_CardinalityType
  <2>2. IsFiniteSet(A \cap B)
    BY <1>5, FS_Intersection
  <2>3. Cardinality(A \cap B) \in Nat
    BY <2>2, FS_CardinalityType
  <2>4. Cardinality(A \cup B) = Cardinality(A) + Cardinality(B) - Cardinality(A \cap B)
    BY <1>5, <1>6, FS_Union
  <2> QED
    BY <1>1, <1>5, <1>6, <2>1, <2>3, <2>4
<1>8. Cardinality(Members) \in Nat
  BY <1>3, <1>5, <1>6, FS_Union, FS_CardinalityType
<1> QED
  BY <1>1, <1>3, <1>4, <1>7, <1>8, PoolAssumption, LoopAssumption

\* An idle connection serves a user that had none.
LEMMA TakenIdle ==
  ASSUME NEW p, Sound(p), NEW u \in Users, NEW m \in Range(p.idle),
         NEW a, a = AssignMember(p, m, u),
         NEW q, q = [a EXCEPT !.m[m].recv = FALSE, !.m[m].send = FALSE]
  PROVE  /\ m \in Members /\ p.m[m].user = None /\ Serves(p, q, u, m)
         /\ q.m[m].tds /\ ~q.m[m].async
<1>1. /\ p \in PoolRec /\ Balanced(p) /\ p.num_active <= MaxOpen
      /\ m \in Members /\ p.m \in [Members -> MemberRec]
  <2>1. p \in PoolRec /\ p.num_active <= MaxOpen
    BY SoundFits
  <2>2. p.idle \in Seq(Members) /\ p.m \in [Members -> MemberRec]
    BY <2>1, PoolFields
  <2> QED
    BY <2>1, <2>2, SoundBalances DEF Range
<1>2. MemberFits(p, m) /\ p.m[m] \in MemberRec
  BY <1>1, SoundFits
<1>3. /\ m \notin Range(p.active) /\ p.m[m].st = "open" /\ p.m[m].user = None
      /\ p.m[m].tds /\ ~p.m[m].async /\ p.m[m].session = None
      /\ ~p.m[m].part /\ ~p.m[m].send
  BY <1>2 DEF MemberFits
<1>4. Assigns(p, a, u, m)
  BY <1>1, <1>3, Assigned
<1>5. a \in PoolRec /\ a.u \in [Users -> UserRec] /\ a.m \in [Members -> MemberRec]
  BY <1>4, PoolFields DEF Assigns, Balanced
<1> DEFINE s == [a.m[m] EXCEPT !.recv = FALSE, !.send = FALSE]
           f == [a.m EXCEPT ![m] = s]
<1>6. q = [a EXCEPT !.u = a.u, !.m = f]
  BY <1>1, <1>5 DEF PoolRec
<1>7. a.m[m] = [p.m[m] EXCEPT !.user = u]
  BY <1>1, <1>4 DEF Assigns
<1>8. /\ s \in MemberRec /\ s.st = "open" /\ s.user = u /\ s.session = None
      /\ s.tds /\ ~s.async /\ ~s.recv /\ ~s.send /\ ~s.part
  BY <1>2, <1>3, <1>7 DEF MemberRec
<1> HIDE DEF s
<1>9. f \in [Members -> MemberRec]
  BY <1>5, <1>8
<1>10. Updates(a, q, a.u, f)
  <2> HIDE DEF f
  <2>1. Balanced(a)
    BY <1>4 DEF Assigns
  <2>2. Updates(a, [a EXCEPT !.u = a.u, !.m = f], a.u, f)
    BY <1>5, <1>9, <2>1, Updated, Zenon
  <2> QED
    BY <1>6, <2>2, Zenon
<1>11. f[m] = s /\ \A n \in Members \ {m} : f[n] = p.m[n]
  BY <1>1, <1>4, <1>5 DEF Assigns
<1> HIDE DEF f
<1>12. Serves(p, q, u, m)
  BY <1>1, <1>4, <1>8, <1>10, <1>11 DEF Serves, Assigns, Updates
<1> QED
  BY <1>1, <1>3, <1>8, <1>10, <1>11, <1>12 DEF Updates

\* the pool with a new connection that is not open yet
Opening(p, m) ==
  [p EXCEPT !.num_active = @ + 1, !.idle = Append(@, m),
            !.m[m] = [FreshMember EXCEPT !.st = "open", !.async = TRUE]]

\* A connection is opened for a user that had none.
LEMMA Opened ==
  ASSUME NEW p, Sound(p), NEW u \in Users, NEW m \in Members,
         p.m[m].st = "free", p.num_active < MaxOpen,
         NEW q, q = AssignMember(Opening(p, m), m, u)
  PROVE  /\ p.m[m].user = None /\ Serves(p, q, u, m) /\ q.m[m].async
<1> DEFINE o == Opening(p, m)
           s == [FreshMember EXCEPT !.st = "open", !.async = TRUE]
           f == [p.m EXCEPT ![m] = s]
           i == Append(p.idle, m)
           k == p.num_active + 1
<1>1. /\ p \in PoolRec /\ Balanced(p) /\ MemberFits(p, m) /\ p.m[m] \in MemberRec
      /\ p.m \in [Members -> MemberRec] /\ p.num_active \in Int
      /\ p.idle \in Seq(Members) /\ p.active \in Seq(Members) /\ Lists(p)
  <2>1. p \in PoolRec /\ MemberFits(p, m) /\ p.m[m] \in MemberRec
    BY SoundFits
  <2> QED
    BY <2>1, SoundBalances, PoolFields DEF Sound
<1>2. p.m[m].user = None /\ m \notin Range(p.active) /\ m \notin Range(p.idle)
  <2>1. p.m[m] = FreshMember
    BY <1>1 DEF MemberFits
  <2> QED
    BY <1>1, <2>1 DEF MemberFits, FreshMember
<1>3. /\ s \in MemberRec /\ s.st = "open" /\ s.async /\ ~s.recv /\ ~s.send
      /\ ~s.part /\ s.session = None
  BY PoolAssumption DEF MemberRec, FreshMember
<1>4. /\ i \in Seq(Members) /\ IsInjective(i)
      /\ Range(i) = Range(p.idle) \cup {m}
  BY <1>1, <1>2, With DEF Lists
<1>5. k \in Int /\ f \in [Members -> MemberRec]
  <2> HIDE DEF s
  <2> QED
    BY <1>1, <1>3
<1>6. o = [p EXCEPT !.num_active = k, !.idle = i, !.m = f]
  BY <1>1 DEF Opening, PoolRec
<1>7. Total(p.active, i) = k
  <2>1. Total(i, p.active) = Total(p.idle, p.active) + 1
    BY <1>1, TotalWith DEF Lists
  <2>2. Total(i, p.active) = Total(p.active, i) /\ Total(p.idle, p.active) = Total(p.active, p.idle)
    BY <1>1, <1>4, TotalSwaps
  <2>3. p.num_active = Total(p.active, p.idle)
    BY <1>1 DEF Balanced
  <2> QED
    BY <2>1, <2>2, <2>3
<1> HIDE DEF o, f, i, k
<1>8. /\ o \in PoolRec /\ o.users = p.users /\ o.waiters = p.waiters
      /\ o.active = p.active /\ o.idle = i
      /\ o.num_active = k /\ o.num_users = p.num_users
      /\ o.u = p.u /\ o.m = f
  BY <1>1, <1>4, <1>5, <1>6 DEF PoolRec
<1>9. Balanced(o)
  BY <1>1, <1>4, <1>7, <1>8 DEF Balanced, Lists
<1>10. Assigns(o, q, u, m)
  BY <1>2, <1>4, <1>8, <1>9, Assigned DEF o
<1>11. f[m] = s /\ \A n \in Members \ {m} : f[n] = p.m[n]
  BY <1>1 DEF f
<1> HIDE DEF s
<1>12. /\ \A n \in Members \ {m} : q.m[n] = p.m[n]
       /\ q.m[m] = [s EXCEPT !.user = u]
  BY <1>5, <1>8, <1>10, <1>11 DEF Assigns
<1>13. /\ q.m[m].st = "open" /\ q.m[m].user = u /\ q.m[m].session = None
       /\ q.m[m].async
       /\ ~q.m[m].recv /\ ~q.m[m].send /\ ~q.m[m].part
  BY <1>3, <1>12 DEF MemberRec
<1>14. k <= MaxOpen
  BY <1>1, PoolAssumption DEF k
<1>15. Range(q.idle) = Range(p.idle)
  BY <1>2, <1>4, <1>8, <1>10 DEF Assigns
<1>16. Serves(p, q, u, m)
  BY <1>2, <1>8, <1>10, <1>12, <1>13, <1>14, <1>15 DEF Assigns, Serves
<1> QED
  BY <1>2, <1>13, <1>16

\* A user without a connection waits for one.
LEMMA Waited ==
  ASSUME NEW p, Sound(p), NEW u \in Users,
         p.u[u].st = "query", p.u[u].member = None, p.u[u].login,
         NEW q, q = [p EXCEPT !.u[u].st = "wait", !.users = RemoveFirst(@, u),
                              !.waiters = Append(@, u)]
  PROVE  Change(p, q, u, None)
<1> DEFINE s == [p.u[u] EXCEPT !.st = "wait"]
           g == [p.u EXCEPT ![u] = s]
           a == RemoveFirst(p.users, u)
           b == Append(p.waiters, u)
<1>1. /\ p \in PoolRec /\ Balanced(p) /\ UserFits(p, u) /\ p.u[u] \in UserRec
      /\ p.u \in [Users -> UserRec] /\ p.num_active <= MaxOpen
      /\ p.num_users <= MaxUsers
      /\ p.users \in Seq(Users) /\ p.waiters \in Seq(Users) /\ Lists(p)
  <2>1. /\ p \in PoolRec /\ UserFits(p, u) /\ p.u[u] \in UserRec
        /\ p.num_active <= MaxOpen /\ p.num_users <= MaxUsers
    BY SoundFits
  <2> QED
    BY <2>1, SoundBalances, PoolFields DEF Sound
<1>2. u \in Range(p.users) /\ u \notin Range(p.waiters)
  BY <1>1 DEF UserFits
<1>3. q = [p EXCEPT !.u = g, !.users = a, !.waiters = b]
  BY <1>1 DEF PoolRec
<1>4. /\ s \in UserRec /\ s.st = "wait" /\ s.member = None /\ s.login
      /\ s.recv = p.u[u].recv /\ s.send = p.u[u].send /\ s.part = p.u[u].part
  BY <1>1 DEF UserRec
<1> HIDE DEF s
<1>5. g \in [Users -> UserRec] /\ g[u] = s /\ \A x \in Users \ {u} : g[x] = p.u[x]
  BY <1>1, <1>4
<1>6. /\ a \in Seq(Users) /\ IsInjective(a) /\ Range(a) = Range(p.users) \ {u}
      /\ b \in Seq(Users) /\ IsInjective(b) /\ Range(b) = Range(p.waiters) \cup {u}
  BY <1>1, <1>2, With, Without DEF Lists
<1>7. Total(a, b) = p.num_users
  <2>1. Total(a, p.waiters) = Total(p.users, p.waiters) - 1
    BY <1>1, <1>2, TotalWithout DEF Lists
  <2>2. Total(b, a) = Total(p.waiters, a) + 1
    <3> HIDE DEF a
    <3> QED
      BY <1>1, <1>6, TotalWith DEF Lists
  <2> HIDE DEF a, b
  <2>3. /\ Total(b, a) = Total(a, b) /\ Total(p.waiters, a) = Total(a, p.waiters)
        /\ Total(p.users, p.waiters) \in Nat
    BY <1>1, <1>6, TotalSwaps
  <2>4. p.num_users = Total(p.users, p.waiters)
    BY <1>1 DEF Balanced
  <2> QED
    BY <2>1, <2>2, <2>3, <2>4
<1> HIDE DEF a, b, g
<1>8. /\ q \in PoolRec /\ q.users = a /\ q.waiters = b
      /\ q.active = p.active /\ q.idle = p.idle
      /\ q.num_active = p.num_active /\ q.num_users = p.num_users
      /\ q.u = g /\ q.m = p.m
  <2>1. q \in PoolRec
    BY <1>1, <1>3, <1>5, <1>6 DEF PoolRec
  <2> QED
    BY <1>1, <1>3, <2>1 DEF PoolRec
<1>9. Balanced(q)
  BY <1>1, <1>6, <1>7, <1>8 DEF Balanced, Lists
<1>10. UserFits(q, u)
  BY <1>1, <1>4, <1>5, <1>6, <1>8 DEF UserFits
<1>11. Same(p, q, u, None)
  BY <1>5, <1>6, <1>8 DEF Same
<1>12. Pair(p, u, None)
  BY PoolAssumption DEF Pair
<1> QED
  BY <1>1, <1>8, <1>9, <1>10, <1>11, <1>12, Frame, PoolAssumption

\* A waiter is in query state again.
LEMMA Requeued ==
  ASSUME NEW p, Sound(p), NEW u \in Range(p.waiters), NEW q, q = Requeue(p, u)
  PROVE  /\ u \in Users /\ p.u[u].st = "wait" /\ Change(p, q, u, None)
         /\ q.u[u].st = "query" /\ q.u[u].member = None /\ q.u[u].login
         /\ q.m = p.m
<1> DEFINE s == [p.u[u] EXCEPT !.st = "query"]
           g == [p.u EXCEPT ![u] = s]
           a == RemoveFirst(p.waiters, u)
           b == Append(p.users, u)
<1>1. /\ p \in PoolRec /\ Balanced(p) /\ p.u \in [Users -> UserRec]
      /\ p.num_active <= MaxOpen /\ p.num_users <= MaxUsers
      /\ p.users \in Seq(Users) /\ p.waiters \in Seq(Users) /\ Lists(p)
  <2>1. /\ p \in PoolRec /\ p.num_active <= MaxOpen /\ p.num_users <= MaxUsers
    BY SoundFits
  <2> QED
    BY <2>1, SoundBalances, PoolFields DEF Sound
<1>2. /\ u \in Users /\ UserFits(p, u) /\ p.u[u] \in UserRec
  <2>1. u \in Users
    BY <1>1 DEF Range
  <2> QED
    BY <2>1, SoundFits
<1>3. /\ u \notin Range(p.users) /\ p.u[u].st = "wait" /\ p.u[u].login
      /\ p.u[u].member = None
  BY <1>2, PoolAssumption DEF UserFits
<1>4. q = [p EXCEPT !.u = g, !.waiters = a, !.users = b]
  BY <1>1 DEF PoolRec, Requeue
<1>5. /\ s \in UserRec /\ s.st = "query" /\ s.member = None /\ s.login
      /\ s.recv = p.u[u].recv /\ s.send = p.u[u].send /\ s.part = p.u[u].part
  BY <1>2, <1>3 DEF UserRec
<1> HIDE DEF s
<1>6. g \in [Users -> UserRec] /\ g[u] = s /\ \A x \in Users \ {u} : g[x] = p.u[x]
  BY <1>1, <1>2, <1>5
<1>7. /\ a \in Seq(Users) /\ IsInjective(a) /\ Range(a) = Range(p.waiters) \ {u}
      /\ b \in Seq(Users) /\ IsInjective(b) /\ Range(b) = Range(p.users) \cup {u}
  BY <1>1, <1>2, <1>3, With, Without DEF Lists
<1>8. Total(b, a) = p.num_users
  <2>1. Total(a, p.users) = Total(p.waiters, p.users) - 1
    BY <1>1, <1>2, TotalWithout DEF Lists
  <2>2. Total(b, a) = Total(p.users, a) + 1
    <3> HIDE DEF a
    <3> QED
      BY <1>1, <1>2, <1>7, TotalWith DEF Lists
  <2> HIDE DEF a, b
  <2>3. /\ Total(p.users, a) = Total(a, p.users)
        /\ Total(p.waiters, p.users) = Total(p.users, p.waiters)
        /\ Total(p.users, p.waiters) \in Nat
    BY <1>1, <1>7, TotalSwaps
  <2>4. p.num_users = Total(p.users, p.waiters)
    BY <1>1 DEF Balanced
  <2> QED
    BY <2>1, <2>2, <2>3, <2>4
<1> HIDE DEF a, b, g
<1>9. /\ q \in PoolRec /\ q.users = b /\ q.waiters = a
      /\ q.active = p.active /\ q.idle = p.idle
      /\ q.num_active = p.num_active /\ q.num_users = p.num_users
      /\ q.u = g /\ q.m = p.m
  <2>1. q \in PoolRec
    BY <1>1, <1>4, <1>6, <1>7 DEF PoolRec
  <2> QED
    BY <1>1, <1>4, <2>1 DEF PoolRec
<1>10. Balanced(q)
  BY <1>1, <1>7, <1>8, <1>9 DEF Balanced, Lists
<1>11. UserFits(q, u)
  BY <1>2, <1>3, <1>5, <1>6, <1>7, <1>9 DEF UserFits
<1>12. Same(p, q, u, None)
  BY <1>6, <1>7, <1>9 DEF Same
<1>13. Pair(p, u, None)
  BY <1>3, PoolAssumption DEF Pair
<1>14. Change(p, q, u, None)
  BY <1>1, <1>9, <1>10, <1>11, <1>12, <1>13, Frame, PoolAssumption
<1> QED
  BY <1>2, <1>3, <1>5, <1>6, <1>9, <1>14

---------------------------------------------------------------------------
(* A user asks for a connection.                                           *)

(***************************************************************************)
(* User u, logged in and without a connection, is about to ask for one: p  *)
(* is the sound pool p0 but for the user's flags and state, which the      *)
(* query sets first.                                                       *)
(***************************************************************************)
Asks(p, p0, u) ==
  /\ Sound(p0) /\ u \in Users
  /\ p0.u[u].st = "query" /\ p0.u[u].member = None /\ p0.u[u].login
  /\ p.num_active = p0.num_active
  /\ [p EXCEPT !.u[u].st = "query"] \in PoolRec
  /\ [p EXCEPT !.u[u].st = "query"].idle = p0.idle
  /\ Mute([p EXCEPT !.u[u].st = "query"], u) = p0

\* A login was read.
LEMMA AsksAfterLogin ==
  ASSUME NEW p, Sound(p), NEW u \in Users,
         p.u[u].st = "query", p.u[u].member = None, p.u[u].login
  PROVE  Asks([p EXCEPT !.u[u].recv = TRUE], p, u)
<1> DEFINE r == [p.u[u] EXCEPT !.recv = TRUE]
           s == [r EXCEPT !.st = "query"]
           a == [p EXCEPT !.u[u].recv = TRUE]
           b == [a EXCEPT !.u[u].st = "query"]
<1>1. /\ p \in PoolRec /\ UserFits(p, u) /\ p.u[u] \in UserRec
      /\ p.u \in [Users -> UserRec]
  BY SoundFits, PoolFields
<1>2. /\ r \in UserRec /\ s \in UserRec
      /\ [s EXCEPT !.recv = FALSE, !.send = FALSE] = p.u[u]
  <2>1. ~p.u[u].recv /\ ~p.u[u].send
    BY <1>1 DEF UserFits
  <2>2. p.u[u].recv = FALSE /\ p.u[u].send = FALSE
    BY <1>1, <2>1, UserFields
  <2> QED
    BY <1>1, <2>2 DEF UserRec
<1>3. a = [p EXCEPT !.u = [p.u EXCEPT ![u] = r]]
  BY <1>1 DEF PoolRec
<1> HIDE DEF a, r
<1>4. a.u = [p.u EXCEPT ![u] = r] /\ a.u[u] = r /\ a \in PoolRec /\ a.num_active = p.num_active
  BY <1>1, <1>2, <1>3 DEF PoolRec
<1>5. b = [p EXCEPT !.u = [p.u EXCEPT ![u] = s]]
  BY <1>1, <1>3, <1>4 DEF PoolRec
<1> HIDE DEF b, s
<1>6. /\ b.u = [p.u EXCEPT ![u] = s] /\ b.u[u] = s /\ b \in PoolRec
      /\ b.idle = p.idle
  BY <1>1, <1>2, <1>5 DEF PoolRec
<1>7. Mute(b, u) = [p EXCEPT !.u = [p.u EXCEPT ![u] =
                                      [s EXCEPT !.recv = FALSE, !.send = FALSE]]]
  BY <1>1, <1>5, <1>6 DEF PoolRec, Mute
<1>8. Mute(b, u) = [p EXCEPT !.u = [p.u EXCEPT ![u] = p.u[u]]]
  BY <1>2, <1>7
<1>9. Mute(b, u) = p
  BY <1>1, <1>8 DEF PoolRec
<1> QED
  BY <1>4, <1>6, <1>9 DEF Asks, a, b

\* A waiter that is in query state again asks.
LEMMA AsksAfterWait ==
  ASSUME NEW p, Sound(p), NEW u \in Users,
         p.u[u].st = "query", p.u[u].member = None, p.u[u].login
  PROVE  Asks(p, p, u)
<1>1. /\ p \in PoolRec /\ UserFits(p, u) /\ p.u[u] \in UserRec
      /\ p.u \in [Users -> UserRec]
  BY SoundFits, PoolFields
<1>2. /\ [p.u[u] EXCEPT !.st = "query"] = p.u[u]
      /\ [p.u[u] EXCEPT !.recv = FALSE, !.send = FALSE] = p.u[u]
  <2>1. ~p.u[u].recv /\ ~p.u[u].send
    BY <1>1 DEF UserFits
  <2>2. p.u[u].recv = FALSE /\ p.u[u].send = FALSE
    BY <1>1, <2>1, UserFields
  <2> QED
    BY <1>1, <2>2 DEF UserRec
<1>3. [p EXCEPT !.u[u].st = "query"] = [p EXCEPT !.u = [p.u EXCEPT ![u] = p.u[u]]]
  BY <1>1, <1>2 DEF PoolRec
<1>4. Mute(p, u) = [p EXCEPT !.u = [p.u EXCEPT ![u] =
                              [p.u[u] EXCEPT !.recv = FALSE, !.send = FALSE]]]
  BY <1>1 DEF PoolRec, Mute
<1>5. [p EXCEPT !.u = [p.u EXCEPT ![u] = p.u[u]]] = p
  BY <1>1 DEF PoolRec
<1> QED
  BY <1>1, <1>2, <1>3, <1>4, <1>5 DEF Asks

\* What r answers to user u's query: u is given m, or dropped, or waits; a
\* thread that was created works on them.
Answers(p, r, u) ==
  \E m \in Members \cup {None} :
    /\ m # None => p.m[m].user = None
    /\ Change(p, r.pool, u, m)
    /\ \/ r.runs = {}
       \/ \E j \in Job : /\ r.runs = {j} /\ Works(r.pool, j)
                         /\ j.u \in {None, u} /\ j.m \in {None, m}

\* One step after the other on the same records.
LEMMA ChangesCompose ==
  ASSUME NEW p, NEW q, NEW s, NEW u, NEW m, Change(p, q, u, m), Change(q, s, u, m)
  PROVE  Change(p, s, u, m)
BY DEF Change, Same

\* pool_user_query assigns, opens, waits or drops the user, and the pool is
\* sound in each case.
LEMMA QueryAnswers ==
  ASSUME NEW p, NEW p0, NEW u, Asks(p, p0, u),
         NEW alloc \in BOOLEAN, NEW thread \in BOOLEAN,
         NEW new \in Members \cup {None},
         p0.num_active < MaxOpen => new \in Unallocated(p0),
         NEW r, r = UserQuery(p, u, alloc, thread, new)
  PROVE  Answers(p0, r, u)
<1> DEFINE b == [p EXCEPT !.u[u].st = "query"]
           m == IdleFor(b, u)
           t == TakeIdle(b, u)
           jobE == [kind |-> "end_login", u |-> u, m |-> None, ok |-> TRUE]
           jobC == [kind |-> "connect", u |-> None, m |-> new, ok |-> TRUE]
<1>1. /\ Sound(p0) /\ u \in Users
      /\ p0.u[u].st = "query" /\ p0.u[u].member = None /\ p0.u[u].login
      /\ p.num_active = p0.num_active
      /\ b \in PoolRec /\ b.idle = p0.idle /\ Mute(b, u) = p0
  BY DEF Asks
<1>2. m \in Range(p0.idle) \cup {None}
  BY <1>1, FoundIdle
<1>3. r = IF m # None
          THEN IF alloc /\ thread THEN [pool |-> t, runs |-> {jobE}]
               ELSE [pool |-> FreeMember(t, m), runs |-> {}]
          ELSE IF p.num_active < MaxOpen /\ alloc /\ thread
          THEN [pool |-> OpenFor(b, u, new), runs |-> {jobC}]
          ELSE [pool |-> PlaceInWait(b, u), runs |-> {}]
  BY DEF UserQuery
<1>4. t = [AssignMember(p0, m, u) EXCEPT !.m[m].recv = FALSE, !.m[m].send = FALSE]
  BY <1>1 DEF TakeIdle
<1>5. OpenFor(b, u, new) = AssignMember(Opening(p0, new), new, u)
  BY <1>1 DEF OpenFor, Opening
<1>6. PlaceInWait(b, u) = [p0 EXCEPT !.u[u].st = "wait",
                                     !.users = RemoveFirst(@, u),
                                     !.waiters = Append(@, u)]
  BY <1>1 DEF PlaceInWait
<1> HIDE DEF m, b, t
<1>7. p0.u[u] \in UserRec /\ UserFits(p0, u)
  BY <1>1, SoundFits
<1>8. ~p0.u[u].recv /\ ~p0.u[u].send
  BY <1>1, <1>7 DEF UserFits
<1>9. CASE m # None
  <2>1. m \in Range(p0.idle)
    BY <1>2, <1>9
  <2>2. /\ m \in Members /\ p0.m[m].user = None /\ Serves(p0, t, u, m)
        /\ t.m[m].tds /\ ~t.m[m].async
    BY <1>1, <1>4, <2>1, TakenIdle
  <2>3. Change(p0, t, u, m) /\ t.u[u] = [p0.u[u] EXCEPT !.member = m]
    BY <1>1, <2>2, ServesChanges
  <2>4. CASE alloc /\ thread
    <3>1. r.pool = t /\ r.runs = {jobE}
      BY <1>3, <1>9, <2>4
    <3>2. jobE \in Job /\ jobE.kind = "end_login" /\ jobE.u = u /\ jobE.m = None
      BY <1>1 DEF Job
    <3>3. /\ t.u[u].member = m /\ ~t.u[u].recv /\ ~t.u[u].send
      BY <1>7, <1>8, <2>3 DEF UserRec
    <3> HIDE DEF jobE
    <3>4. Works(t, jobE)
      BY <1>1, <1>9, <2>2, <3>2, <3>3 DEF Works, MuteUser, MuteMember, Serves
    <3> QED
      BY <2>2, <2>3, <3>1, <3>2, <3>4 DEF Answers
  <2>5. CASE ~(alloc /\ thread)
    <3>1. r.pool = FreeMember(t, m) /\ r.runs = {}
      BY <1>3, <1>9, <2>5
    <3>2. Sound(t) /\ u = t.m[m].user
      BY <2>2, <2>3 DEF Change, Serves
    <3>3. Change(t, FreeMember(t, m), u, m)
      BY <2>2, <3>2, FreeMemberChanges
    <3>4. Change(p0, r.pool, u, m)
      BY <2>3, <3>1, <3>3, ChangesCompose
    <3> QED
      BY <2>2, <3>1, <3>4 DEF Answers
  <2> QED
    BY <2>4, <2>5
<1>10. CASE m = None /\ p.num_active < MaxOpen /\ alloc /\ thread
  <2> DEFINE o == OpenFor(b, u, new)
  <2>1. r.pool = o /\ r.runs = {jobC}
    BY <1>3, <1>10
  <2>2. new \in Members /\ p0.m[new].st = "free" /\ p0.num_active < MaxOpen
    BY <1>1, <1>10 DEF Unallocated
  <2>3. o = AssignMember(Opening(p0, new), new, u)
    BY <1>5
  <2> HIDE DEF o
  <2>4. p0.m[new].user = None /\ Serves(p0, o, u, new) /\ o.m[new].async
    BY <1>1, <2>2, <2>3, Opened
  <2>5. Change(p0, o, u, new) /\ o.u[u] = [p0.u[u] EXCEPT !.member = new]
    BY <1>1, <2>2, <2>4, ServesChanges
  <2>6. jobC \in Job /\ jobC.kind = "connect" /\ jobC.u = None /\ jobC.m = new
    BY <2>2 DEF Job
  <2> HIDE DEF jobC
  <2>7. ~o.u[u].recv /\ ~o.u[u].send
    BY <1>7, <1>8, <2>5 DEF UserRec
  <2>8. Works(o, jobC)
    BY <1>1, <2>2, <2>4, <2>6, <2>7, PoolAssumption
    DEF Works, MuteUser, MuteMember, Serves
  <2> QED
    BY <2>1, <2>2, <2>4, <2>5, <2>6, <2>8 DEF Answers
<1>11. CASE m = None /\ ~(p.num_active < MaxOpen /\ alloc /\ thread)
  <2> DEFINE w == PlaceInWait(b, u)
  <2>1. r.pool = w /\ r.runs = {}
    BY <1>3, <1>11
  <2>2. Change(p0, w, u, None)
    BY <1>1, <1>6, Waited
  <2> QED
    BY <2>1, <2>2 DEF Answers
<1> QED
  BY <1>9, <1>10, <1>11

---------------------------------------------------------------------------
(***************************************************************************)
(* Old connections are closed.  CloseOld folds over the idle list with a   *)
(* recursive function; such a function exists, and every pool it gives is  *)
(* sound and differs from the first in idle members only.                  *)
(***************************************************************************)

\* a set of positions has a last one
LEMMA LastOf ==
  ASSUME NEW n \in Nat, NEW s \in SUBSET (1..n), s # {}
  PROVE  Max(s) \in s /\ \A y \in s : y <= Max(s)
<1> DEFINE T == {k \in Nat : \A y \in s : y <= k}
           k == Min(T)
<1>1. k \in T /\ \A i \in T : k <= i
  <2>1. n \in T /\ T \subseteq Nat
    OBVIOUS
  <2> HIDE DEF T
  <2> QED
    BY <2>1, LeastNat
<1> HIDE DEF k
<1>2. k \in Nat /\ (\A y \in s : y \in Nat /\ y >= 1 /\ y <= k)
  BY <1>1
<1>3. k \in s
  <2> SUFFICES ASSUME k \notin s PROVE FALSE
    OBVIOUS
  <2>1. \A y \in s : y <= k - 1
    BY <1>2
  <2>2. PICK y \in s : TRUE
    OBVIOUS
  <2>3. k - 1 \in Nat
    BY <1>2, <2>2
  <2> QED
    BY <1>1, <2>1, <2>3
<1>4. \E x \in s : \A y \in s : x >= y
  BY <1>2, <1>3
<1>5. Max(s) \in s /\ \A y \in s : Max(s) >= y
  BY <1>4 DEF Max
<1> QED
  BY <1>2, <1>5

\* one step of CloseOld
Aged(q, m, old) == IF m \in old /\ q.num_active > MinOpen
                   THEN FreeMember(q, m) ELSE q

\* f is the recursive function of the fold, for the sets of positions given
Ages(f, p, old, sets) ==
  f = [s \in sets |-> IF s = {} THEN p
                      ELSE Aged(f[s \ {Max(s)}], p.idle[Max(s)], old)]

\* Closing the old connections is a function over the sets of positions.
LEMMA CloseOldAges ==
  ASSUME NEW p, NEW old
  PROVE  CloseOld(p, old) =
           (CHOOSE f : Ages(f, p, old, SUBSET DOMAIN p.idle))[DOMAIN p.idle]
BY Zenon DEF CloseOld, FoldLeft, MapThenFoldSet, Ages, Aged

\* There is such a function: a least number of positions for which there is
\* none would follow a number for which there is one.
LEMMA AgesExists ==
  ASSUME NEW p, NEW old, NEW n \in Nat
  PROVE  \E f : Ages(f, p, old, SUBSET (1..n))
<1> DEFINE Bad == {k \in Nat : ~ \E f : Ages(f, p, old, SUBSET (1..k))}
<1>1. SUFFICES ASSUME Bad # {} PROVE FALSE
  OBVIOUS
<1>2. PICK k \in Bad : \A i \in Bad : k <= i
  <2>1. Bad \subseteq Nat
    OBVIOUS
  <2> HIDE DEF Bad
  <2> QED
    BY <1>1, <2>1, LeastNat
<1>3. CASE k = 0
  <2> DEFINE f == [s \in SUBSET (1..0) |-> p]
  <2>1. \A s \in SUBSET (1..0) : s = {}
    OBVIOUS
  <2>2. f = [s \in SUBSET (1..0) |-> IF s = {} THEN p
                      ELSE Aged(f[s \ {Max(s)}], p.idle[Max(s)], old)]
    BY <2>1
  <2>3. Ages(f, p, old, SUBSET (1..0))
    BY <2>2 DEF Ages
  <2> QED
    BY <1>2, <1>3, <2>3
<1>4. CASE k # 0
  <2>1. k - 1 \in Nat \ Bad /\ k \in Nat
    <3>1. k \in Nat
      BY <1>2
    <3> HIDE DEF Bad
    <3> QED
      BY <1>2, <1>4, <3>1
  <2>2. PICK f : Ages(f, p, old, SUBSET (1..(k - 1)))
    BY <2>1
  <2> DEFINE S == SUBSET (1..k)
             L == SUBSET (1..(k - 1))
             g == [s \in S |-> IF s = {} THEN p
                     ELSE Aged(f[s \ {Max(s)}], p.idle[Max(s)], old)]
  <2>3. L \subseteq S
    BY <2>1
  <2>4. \A s \in S : s # {} => s \ {Max(s)} \in L
    <3> SUFFICES ASSUME NEW s \in S, s # {}, NEW x \in s, x # Max(s)
                 PROVE  x \in 1..(k - 1)
      OBVIOUS
    <3>1. Max(s) \in s /\ \A y \in s : y <= Max(s)
      BY <2>1, LastOf
    <3>2. \A y \in s : y \in 1..k
      OBVIOUS
    <3>3. x \in 1..k /\ Max(s) \in 1..k /\ x <= Max(s)
      BY <3>1, <3>2
    <3> HIDE DEF Bad
    <3> QED
      BY <2>1, <3>3
  <2>5. \A s \in L : f[s] = IF s = {} THEN p
                            ELSE Aged(f[s \ {Max(s)}], p.idle[Max(s)], old)
    BY <2>2 DEF Ages
  <2> HIDE DEF S, L
  <2>6. \A s \in L : g[s] = f[s]
    BY <2>3, <2>5
  <2>7. \A s \in S : g[s] = IF s = {} THEN p
                            ELSE Aged(g[s \ {Max(s)}], p.idle[Max(s)], old)
    <3> SUFFICES ASSUME NEW s \in S
                 PROVE  g[s] = IF s = {} THEN p
                               ELSE Aged(g[s \ {Max(s)}], p.idle[Max(s)], old)
      OBVIOUS
    <3>1. CASE s = {}
      BY <3>1
    <3>2. CASE s # {}
      <4>1. g[s] = Aged(f[s \ {Max(s)}], p.idle[Max(s)], old)
        BY <3>2
      <4>2. g[s \ {Max(s)}] = f[s \ {Max(s)}]
        BY <2>4, <2>6, <3>2
      <4> QED
        BY <3>2, <4>1, <4>2
    <3> QED
      BY <3>1, <3>2
  <2>8. g = [s \in S |-> g[s]]
    OBVIOUS
  <2> HIDE DEF g
  <2>9. [s \in S |-> g[s]] = [s \in S |-> IF s = {} THEN p
                      ELSE Aged(g[s \ {Max(s)}], p.idle[Max(s)], old)]
    BY <2>7
  <2>10. Ages(g, p, old, SUBSET (1..k))
    BY <2>8, <2>9 DEF Ages, S
  <2> QED
    BY <1>2, <2>10
<1> QED
  BY <1>3, <1>4

\* some of the connections that were idle in p are closed in q
Thinned(p, q) ==
  /\ Sound(q) /\ q.u = p.u
  /\ \A n \in Members :
       \/ q.m[n] = p.m[n]
       \/ p.m[n].user = None /\ q.m[n] = FreshMember

\* One idle connection is too old, or not.
LEMMA AgedThins ==
  ASSUME NEW p, Sound(p), NEW q, Thinned(p, q), NEW m \in Members,
         p.m[m].user = None, NEW old
  PROVE  Thinned(p, Aged(q, m, old))
<1>1. CASE Aged(q, m, old) = q
  BY <1>1
<1>2. CASE Aged(q, m, old) = FreeMember(q, m)
  <2> DEFINE s == FreeMember(q, m)
  <2>1. Sound(q) /\ q.m[m].user = None /\ q.u \in [Users -> UserRec]
    <3>1. Sound(q) /\ q.m[m].user = None
      BY DEF Thinned, FreshMember
    <3> QED
      BY <3>1, SoundFits, PoolFields
  <2>2. Gone(q, s, None, m, FALSE) /\ Change(q, s, None, m)
    BY <2>1, FreeMemberChanges
  <2> HIDE DEF s
  <2>3. s.u = q.u
    BY <2>1, <2>2, PoolAssumption DEF Gone
  <2>4. s.m[m] = FreshMember /\ \A n \in Members \ {m} : s.m[n] = q.m[n]
    BY <2>2 DEF Gone
  <2>5. Sound(s)
    BY <2>2 DEF Change
  <2>6. Thinned(p, s)
    BY <2>3, <2>4, <2>5 DEF Thinned
  <2> QED
    BY <1>2, <2>6 DEF s
<1> QED
  BY <1>1, <1>2 DEF Aged

\* When the old connections are closed, the pool has fewer idle ones and is
\* otherwise as it was: the fold is followed to its least counterexample.
LEMMA CloseOldThins ==
  ASSUME NEW p, Sound(p), NEW old
  PROVE  Thinned(p, CloseOld(p, old))
<1> DEFINE n == Len(p.idle)
           f == CHOOSE f : Ages(f, p, old, SUBSET (1..n))
           Bad == {k \in Nat : k <= n /\ ~Thinned(p, f[1..k])}
<1>1. p.idle \in Seq(Members) /\ n \in Nat /\ DOMAIN p.idle = 1..n
  BY SoundFits, PoolFields, LenProperties
<1>2. CloseOld(p, old) = f[1..n]
  BY <1>1, CloseOldAges, Zenon
<1>3. Ages(f, p, old, SUBSET (1..n))
  BY <1>1, AgesExists
<1> HIDE DEF f, n
<1>4. ASSUME NEW s \in SUBSET (1..n)
      PROVE  f[s] = IF s = {} THEN p
                    ELSE Aged(f[s \ {Max(s)}], p.idle[Max(s)], old)
  BY <1>3 DEF Ages
<1>5. Thinned(p, f[1..0])
  <2>1. f[1..0] = p
    BY <1>4
  <2> QED
    BY <2>1 DEF Thinned
<1>6. ASSUME NEW k \in Nat, k # 0, k <= n, Thinned(p, f[1..(k - 1)])
      PROVE  Thinned(p, f[1..k])
  <2>1. 1..k \in SUBSET (1..n) /\ 1..k # {} /\ k \in 1..k
    <3>1. k \in 1..k
      BY <1>6
    <3>2. \A y \in 1..k : y \in 1..n
      BY <1>1, <1>6
    <3> QED
      BY <3>1, <3>2
  <2>2. Max(1..k) = k
    <3>1. Max(1..k) \in 1..k /\ \A y \in 1..k : y <= Max(1..k)
      BY <2>1, LastOf
    <3> QED
      BY <2>1, <3>1
  <2>3. (1..k) \ {k} = 1..(k - 1)
    BY <1>6
  <2>4. f[1..k] = Aged(f[1..(k - 1)], p.idle[k], old)
    BY <1>4, <2>1, <2>2, <2>3
  <2>5. p.idle[k] \in Members /\ p.idle[k] \in Range(p.idle)
    BY <1>1, <2>1 DEF Range
  <2>6. p.m[p.idle[k]].user = None
    BY <2>5, SoundFits DEF MemberFits
  <2> QED
    BY <1>6, <2>4, <2>5, <2>6, AgedThins
<1>7. Bad = {}
  <2> SUFFICES ASSUME Bad # {} PROVE FALSE
    OBVIOUS
  <2>1. PICK k \in Bad : \A i \in Bad : k <= i
    <3>1. Bad \subseteq Nat
      OBVIOUS
    <3> HIDE DEF Bad
    <3> QED
      BY <3>1, LeastNat
  <2>2. k # 0 /\ k <= n /\ k \in Nat /\ ~Thinned(p, f[1..k])
    BY <1>5, <2>1
  <2>3. k - 1 \in Nat /\ k - 1 <= n /\ k - 1 \notin Bad
    BY <1>1, <2>1, <2>2
  <2>4. Thinned(p, f[1..(k - 1)])
    BY <2>3
  <2> QED
    BY <1>6, <2>2, <2>4
<1>8. Thinned(p, f[1..n])
  BY <1>1, <1>7
<1> QED
  BY <1>2, <1>8

---------------------------------------------------------------------------
(* A client and its connection are worked on.                              *)

\* the flags of a user record r and of the record s of its connection agree
Agree(r, s, u) ==
  /\ s.session \in {None, u}
  /\ s.async \/ s.tds
  /\ s.async => ~r.recv /\ ~r.send /\ ~s.recv /\ ~s.send
  /\ r.part = s.send /\ s.part = r.send
  /\ r.part => ~r.recv
  /\ s.part => ~s.recv

\* In a sound pool they do.
LEMMA JoinedAgree ==
  ASSUME NEW p, Sound(p), NEW m \in Members, NEW u, u = p.m[m].user, u # None
  PROVE  /\ u \in Users /\ p.u[u].st = "query" /\ p.u[u].member = m
         /\ p.m[m].st = "open" /\ Agree(p.u[u], p.m[m], u)
         /\ p.u[u] \in UserRec /\ p.m[m] \in MemberRec
         /\ Partners(p, u, m)
<1>1. p.m[m] \in MemberRec /\ MemberFits(p, m)
  BY SoundFits
<1>2. u \in Users
  BY <1>1, MemberFields
<1>3. UserFits(p, u) /\ p.u[u] \in UserRec
  BY <1>2, SoundFits
<1>4. Joined(p, m)
  BY <1>1 DEF MemberFits
<1>5. p.u[u].member = m /\ p.m[m].st = "open" /\ Agree(p.u[u], p.m[m], u)
  BY <1>4 DEF Joined, Agree
<1>6. p.u[u].st = "query"
  BY <1>3, <1>5, PoolAssumption DEF UserFits
<1> QED
  BY <1>1, <1>2, <1>3, <1>5, <1>6, PoolAssumption DEF Partners

\* only user u and its connection m differ in q, and there they are r and s
Touches(p, q, u, r, m, s) ==
  /\ q \in PoolRec /\ r \in UserRec /\ s \in MemberRec
  /\ q.users = p.users /\ q.waiters = p.waiters
  /\ q.active = p.active /\ q.idle = p.idle
  /\ q.num_active = p.num_active /\ q.num_users = p.num_users
  /\ q.u = [p.u EXCEPT ![u] = r] /\ q.m = [p.m EXCEPT ![m] = s]
  /\ q.u[u] = r /\ q.m[m] = s

\* Nothing is touched, or one more field of the user, or of the connection.
LEMMA TouchNone ==
  ASSUME NEW p \in PoolRec, NEW u \in Users, NEW m \in Members
  PROVE  Touches(p, p, u, p.u[u], m, p.m[m])
BY PoolFields DEF Touches

\* One more field of the user.
LEMMA TouchUser ==
  ASSUME NEW p \in PoolRec, NEW u \in Users, NEW m \in Members, NEW a,
         NEW r, NEW s, Touches(p, a, u, r, m, s), NEW g \in UserRec,
         NEW q, q = [a EXCEPT !.u = [a.u EXCEPT ![u] = g]]
  PROVE  Touches(p, q, u, g, m, s)
<1>1. /\ p.u \in [Users -> UserRec] /\ a \in PoolRec
      /\ a.u = [p.u EXCEPT ![u] = r]
  BY PoolFields DEF Touches
<1>2. /\ [a.u EXCEPT ![u] = g] = [p.u EXCEPT ![u] = g]
      /\ [p.u EXCEPT ![u] = g] \in [Users -> UserRec]
      /\ [p.u EXCEPT ![u] = g][u] = g
  BY <1>1
<1>3. q = [a EXCEPT !.u = [p.u EXCEPT ![u] = g]]
  BY <1>2
<1>4. /\ q \in PoolRec /\ q.u = [p.u EXCEPT ![u] = g] /\ q.u[u] = g
      /\ q.users = a.users /\ q.waiters = a.waiters
      /\ q.active = a.active /\ q.idle = a.idle /\ q.m = a.m
      /\ q.num_active = a.num_active /\ q.num_users = a.num_users
  BY <1>1, <1>2, <1>3 DEF PoolRec
<1> QED
  BY <1>4 DEF Touches

\* One more field of the connection.
LEMMA TouchMember ==
  ASSUME NEW p \in PoolRec, NEW u \in Users, NEW m \in Members, NEW a,
         NEW r, NEW s, Touches(p, a, u, r, m, s), NEW f \in MemberRec,
         NEW q, q = [a EXCEPT !.m = [a.m EXCEPT ![m] = f]]
  PROVE  Touches(p, q, u, r, m, f)
<1>1. /\ p.m \in [Members -> MemberRec] /\ a \in PoolRec
      /\ a.m = [p.m EXCEPT ![m] = s]
  BY PoolFields DEF Touches
<1>2. /\ [a.m EXCEPT ![m] = f] = [p.m EXCEPT ![m] = f]
      /\ [p.m EXCEPT ![m] = f] \in [Members -> MemberRec]
      /\ [p.m EXCEPT ![m] = f][m] = f
  BY <1>1
<1>3. q = [a EXCEPT !.m = [p.m EXCEPT ![m] = f]]
  BY <1>2
<1>4. /\ q \in PoolRec /\ q.m = [p.m EXCEPT ![m] = f] /\ q.m[m] = f
      /\ q.users = a.users /\ q.waiters = a.waiters
      /\ q.active = a.active /\ q.idle = a.idle /\ q.u = a.u
      /\ q.num_active = a.num_active /\ q.num_users = a.num_users
  BY <1>1, <1>2, <1>3 DEF PoolRec
<1> QED
  BY <1>4 DEF Touches

\* The flags of a client and of its connection change, and agree.
LEMMA Touched ==
  ASSUME NEW p, Sound(p), NEW m \in Members, NEW u, u = p.m[m].user, u # None,
         NEW r, NEW s, NEW q, Touches(p, q, u, r, m, s),
         r.st = "query", r.member = m, s.st = "open", s.user = u, Agree(r, s, u)
  PROVE  Change(p, q, u, m)
<1>1. /\ u \in Users /\ p.u[u].st = "query" /\ p.u[u].member = m
      /\ p.m[m].st = "open" /\ Partners(p, u, m)
  BY JoinedAgree
<1>2. /\ p \in PoolRec /\ UserFits(p, u) /\ MemberFits(p, m) /\ Balanced(p)
      /\ p.u \in [Users -> UserRec] /\ p.m \in [Members -> MemberRec]
      /\ p.num_active <= MaxOpen /\ p.num_users <= MaxUsers
  <2>1. /\ p \in PoolRec /\ UserFits(p, u) /\ MemberFits(p, m)
        /\ p.num_active <= MaxOpen /\ p.num_users <= MaxUsers
    BY <1>1, SoundFits
  <2> QED
    BY <2>1, PoolFields, SoundBalances
<1>3. Balanced(q)
  BY <1>2 DEF Balanced, Lists, Touches
<1>4. UserFits(q, u)
  BY <1>1, <1>2, PoolAssumption DEF UserFits, Touches
<1>5. MemberFits(q, m)
  <2>1. q.u[u] = r /\ q.m[m] = s
    BY DEF Touches
  <2>2. Joined(q, m)
    BY <2>1 DEF Joined, Agree
  <2>3. m \in Range(q.active) /\ m \notin Range(q.idle)
    BY <1>1, <1>2 DEF Touches, MemberFits
  <2> QED
    BY <2>1, <2>2, <2>3 DEF MemberFits
<1>6. Same(p, q, u, m)
  BY <1>1, <1>2 DEF Same, Touches
<1>7. Pair(p, u, m)
  BY <1>1 DEF Pair
<1> QED
  BY <1>2, <1>3, <1>4, <1>5, <1>6, <1>7, Frame DEF Touches

---------------------------------------------------------------------------
(* What the loop and the threads do to a client and its connection.        *)

\* The login of a client is answered.
LEMMA LoginAckChanges ==
  ASSUME NEW p, Sound(p), NEW m \in Members, NEW u, u = p.m[m].user, u # None,
         NEW written \in BOOLEAN,
         NEW q, q = LoginAck(p, u, m, written)
  PROVE  /\ Change(p, q, u, m)
         /\ Touches(p, q, u, [p.u[u] EXCEPT !.login = FALSE,
                                            !.version = FirstVersion,
                                            !.dead = ~written],
                    m, [p.m[m] EXCEPT !.session = u])
<1> DEFINE a == [p EXCEPT !.u[u].login = FALSE]
           r1 == [p.u[u] EXCEPT !.login = FALSE]
           b == [a EXCEPT !.u[u].version = FirstVersion]
           r2 == [r1 EXCEPT !.version = FirstVersion]
           c == [b EXCEPT !.u[u].dead = ~written]
           r3 == [r2 EXCEPT !.dead = ~written]
           d == [c EXCEPT !.m[m].session = u]
           s1 == [p.m[m] EXCEPT !.session = u]
<1>1. /\ u \in Users /\ p.u[u].st = "query" /\ p.u[u].member = m
      /\ p.m[m].st = "open" /\ Agree(p.u[u], p.m[m], u)
      /\ p.u[u] \in UserRec /\ p.m[m] \in MemberRec /\ p \in PoolRec
  BY JoinedAgree, SoundFits
<1>2. q = d
  BY <1>1 DEF LoginAck
<1>3. r1 \in UserRec /\ r2 \in UserRec /\ r3 \in UserRec /\ s1 \in MemberRec
  BY <1>1, PoolAssumption DEF UserRec, MemberRec
<1>4. Touches(p, p, u, p.u[u], m, p.m[m])
  BY <1>1, TouchNone
<1>5. Touches(p, a, u, r1, m, p.m[m])
  <2>1. p.u[u] = p.u[u]
    BY <1>4 DEF Touches
  <2>2. a = [p EXCEPT !.u = [p.u EXCEPT ![u] = r1]]
    BY <2>1
  <2> HIDE DEF a, b, c, d, r1, r2, r3, s1
  <2> QED
    BY <1>1, <1>3, <1>4, <2>2, TouchUser
<1>6. Touches(p, b, u, r2, m, p.m[m])
  <2>1. a.u[u] = r1
    BY <1>5 DEF Touches
  <2>2. b = [a EXCEPT !.u = [a.u EXCEPT ![u] = r2]]
    BY <2>1
  <2> HIDE DEF a, b, c, d, r1, r2, r3, s1
  <2> QED
    BY <1>1, <1>3, <1>5, <2>2, TouchUser
<1>7. Touches(p, c, u, r3, m, p.m[m])
  <2>1. b.u[u] = r2
    BY <1>6 DEF Touches
  <2>2. c = [b EXCEPT !.u = [b.u EXCEPT ![u] = r3]]
    BY <2>1
  <2> HIDE DEF a, b, c, d, r1, r2, r3, s1
  <2> QED
    BY <1>1, <1>3, <1>6, <2>2, TouchUser
<1>8. Touches(p, d, u, r3, m, s1)
  <2>1. c.m[m] = p.m[m]
    BY <1>7 DEF Touches
  <2>2. d = [c EXCEPT !.m = [c.m EXCEPT ![m] = s1]]
    BY <2>1
  <2> HIDE DEF a, b, c, d, r1, r2, r3, s1
  <2> QED
    BY <1>1, <1>3, <1>7, <2>2, TouchMember
<1>9. /\ r3.st = "query" /\ r3.member = m
      /\ r3.recv = p.u[u].recv /\ r3.send = p.u[u].send /\ r3.part = p.u[u].part
      /\ s1.st = "open" /\ s1.user = u /\ s1.session = u
      /\ s1.async = p.m[m].async /\ s1.tds = p.m[m].tds
      /\ s1.recv = p.m[m].recv /\ s1.send = p.m[m].send /\ s1.part = p.m[m].part
  BY <1>1 DEF UserRec, MemberRec
<1> HIDE DEF a, b, c, d, r1, r2, r3, s1
<1>10. Agree(r3, s1, u)
  BY <1>1, <1>9 DEF Agree
<1>11. Touches(p, q, u, r3, m, s1)
  BY <1>2, <1>8
<1>12. Change(p, q, u, m)
  BY <1>9, <1>10, <1>11, Touched
<1> QED
  BY <1>11, <1>12 DEF r1, r2, r3, s1

\* The settings a client asks for are sent to the server.
LEMMA SessionChanges ==
  ASSUME NEW p, Sound(p), NEW m \in Members, NEW u, u = p.m[m].user, u # None,
         NEW q, q = [p EXCEPT !.m[m].session = u]
  PROVE  /\ Change(p, q, u, m)
         /\ Touches(p, q, u, p.u[u],
                    m, [p.m[m] EXCEPT !.session = u])
<1> DEFINE a == [p EXCEPT !.m[m].session = u]
           s1 == [p.m[m] EXCEPT !.session = u]
<1>1. /\ u \in Users /\ p.u[u].st = "query" /\ p.u[u].member = m
      /\ p.m[m].st = "open" /\ Agree(p.u[u], p.m[m], u)
      /\ p.u[u] \in UserRec /\ p.m[m] \in MemberRec /\ p \in PoolRec
  BY JoinedAgree, SoundFits
<1>2. q = a
  OBVIOUS
<1>3. s1 \in MemberRec
  BY <1>1, PoolAssumption DEF UserRec, MemberRec
<1>4. Touches(p, p, u, p.u[u], m, p.m[m])
  BY <1>1, TouchNone
<1>5. Touches(p, a, u, p.u[u], m, s1)
  <2>1. p.m[m] = p.m[m]
    BY <1>4 DEF Touches
  <2>2. a = [p EXCEPT !.m = [p.m EXCEPT ![m] = s1]]
    BY <2>1
  <2> HIDE DEF a, s1
  <2> QED
    BY <1>1, <1>3, <1>4, <2>2, TouchMember
<1>6. /\ p.u[u].st = "query" /\ p.u[u].member = m
      /\ s1.st = "open" /\ s1.user = u /\ s1.session = u
      /\ s1.async = p.m[m].async /\ s1.tds = p.m[m].tds
      /\ s1.recv = p.m[m].recv /\ s1.send = p.m[m].send /\ s1.part = p.m[m].part
  BY <1>1 DEF UserRec, MemberRec
<1> HIDE DEF a, s1
<1>7. Agree(p.u[u], s1, u)
  BY <1>1, <1>6 DEF Agree
<1>8. Touches(p, q, u, p.u[u], m, s1)
  BY <1>2, <1>5
<1>9. Change(p, q, u, m)
  BY <1>6, <1>7, <1>8, Touched
<1> QED
  BY <1>8, <1>9 DEF s1

\* A connection is made.
LEMMA UpChanges ==
  ASSUME NEW p, Sound(p), NEW m \in Members, NEW u, u = p.m[m].user, u # None,
         NEW v \in Versions,
         NEW q, q = [p EXCEPT !.m[m].tds = TRUE, !.m[m].version = v]
  PROVE  /\ Change(p, q, u, m)
         /\ Touches(p, q, u, p.u[u],
                    m, [p.m[m] EXCEPT !.tds = TRUE, !.version = v])
<1> DEFINE a == [p EXCEPT !.m[m].tds = TRUE]
           s1 == [p.m[m] EXCEPT !.tds = TRUE]
           b == [a EXCEPT !.m[m].version = v]
           s2 == [s1 EXCEPT !.version = v]
<1>1. /\ u \in Users /\ p.u[u].st = "query" /\ p.u[u].member = m
      /\ p.m[m].st = "open" /\ Agree(p.u[u], p.m[m], u)
      /\ p.u[u] \in UserRec /\ p.m[m] \in MemberRec /\ p \in PoolRec
  BY JoinedAgree, SoundFits
<1>2. q = b
  OBVIOUS
<1>3. s1 \in MemberRec /\ s2 \in MemberRec
  BY <1>1, PoolAssumption DEF UserRec, MemberRec
<1>4. Touches(p, p, u, p.u[u], m, p.m[m])
  BY <1>1, TouchNone
<1>5. Touches(p, a, u, p.u[u], m, s1)
  <2>1. p.m[m] = p.m[m]
    BY <1>4 DEF Touches
  <2>2. a = [p EXCEPT !.m = [p.m EXCEPT ![m] = s1]]
    BY <2>1
  <2> HIDE DEF a, b, s1, s2
  <2> QED
    BY <1>1, <1>3, <1>4, <2>2, TouchMember
<1>6. Touches(p, b, u, p.u[u], m, s2)
  <2>1. a.m[m] = s1
    BY <1>5 DEF Touches
  <2>2. b = [a EXCEPT !.m = [a.m EXCEPT ![m] = s2]]
    BY <2>1
  <2> HIDE DEF a, b, s1, s2
  <2> QED
    BY <1>1, <1>3, <1>5, <2>2, TouchMember
<1>7. /\ p.u[u].st = "query" /\ p.u[u].member = m
      /\ s2.st = "open" /\ s2.user = u /\ s2.session = p.m[m].session
      /\ s2.async = p.m[m].async /\ s2.tds
      /\ s2.recv = p.m[m].recv /\ s2.send = p.m[m].send /\ s2.part = p.m[m].part
  BY <1>1 DEF UserRec, MemberRec
<1> HIDE DEF a, b, s1, s2
<1>8. Agree(p.u[u], s2, u)
  BY <1>1, <1>7 DEF Agree
<1>9. Touches(p, q, u, p.u[u], m, s2)
  BY <1>2, <1>6
<1>10. Change(p, q, u, m)
  BY <1>7, <1>8, <1>9, Touched
<1> QED
  BY <1>9, <1>10 DEF s1, s2

\* A connection that was made is read from, and so is its client.
LEMMA ConnectedChanges ==
  ASSUME NEW p, Sound(p), NEW m \in Members, NEW u, u = p.m[m].user, u # None,
         p.m[m].tds, MuteUser(p, u), MuteMember(p, m),
         NEW q, q = Connected(p, m)
  PROVE  Change(p, q, u, m)
<1> DEFINE a == [p EXCEPT !.m[m].async = FALSE]
           s1 == [p.m[m] EXCEPT !.async = FALSE]
           b == [a EXCEPT !.m[m].recv = TRUE]
           s2 == [s1 EXCEPT !.recv = TRUE]
           c == [b EXCEPT !.u[u].recv = TRUE]
           r1 == [p.u[u] EXCEPT !.recv = TRUE]
           d == [c EXCEPT !.u[u].st = "query"]
           r2 == [r1 EXCEPT !.st = "query"]
<1>1. /\ u \in Users /\ p.u[u].st = "query" /\ p.u[u].member = m
      /\ p.m[m].st = "open" /\ Agree(p.u[u], p.m[m], u)
      /\ p.u[u] \in UserRec /\ p.m[m] \in MemberRec /\ p \in PoolRec
  BY JoinedAgree, SoundFits
<1>2. q = d
  BY <1>1 DEF UserOf, Connected
<1>3. r1 \in UserRec /\ r2 \in UserRec /\ s1 \in MemberRec /\ s2 \in MemberRec
  BY <1>1, PoolAssumption DEF UserRec, MemberRec
<1>4. Touches(p, p, u, p.u[u], m, p.m[m])
  BY <1>1, TouchNone
<1>5. Touches(p, a, u, p.u[u], m, s1)
  <2>1. p.m[m] = p.m[m]
    BY <1>4 DEF Touches
  <2>2. a = [p EXCEPT !.m = [p.m EXCEPT ![m] = s1]]
    BY <2>1
  <2> HIDE DEF a, b, c, d, r1, r2, s1, s2
  <2> QED
    BY <1>1, <1>3, <1>4, <2>2, TouchMember
<1>6. Touches(p, b, u, p.u[u], m, s2)
  <2>1. a.m[m] = s1
    BY <1>5 DEF Touches
  <2>2. b = [a EXCEPT !.m = [a.m EXCEPT ![m] = s2]]
    BY <2>1
  <2> HIDE DEF a, b, c, d, r1, r2, s1, s2
  <2> QED
    BY <1>1, <1>3, <1>5, <2>2, TouchMember
<1>7. Touches(p, c, u, r1, m, s2)
  <2>1. b.u[u] = p.u[u]
    BY <1>6 DEF Touches
  <2>2. c = [b EXCEPT !.u = [b.u EXCEPT ![u] = r1]]
    BY <2>1
  <2> HIDE DEF a, b, c, d, r1, r2, s1, s2
  <2> QED
    BY <1>1, <1>3, <1>6, <2>2, TouchUser
<1>8. Touches(p, d, u, r2, m, s2)
  <2>1. c.u[u] = r1
    BY <1>7 DEF Touches
  <2>2. d = [c EXCEPT !.u = [c.u EXCEPT ![u] = r2]]
    BY <2>1
  <2> HIDE DEF a, b, c, d, r1, r2, s1, s2
  <2> QED
    BY <1>1, <1>3, <1>7, <2>2, TouchUser
<1>9. /\ r2.st = "query" /\ r2.member = m
      /\ r2.send = p.u[u].send /\ r2.part = p.u[u].part
      /\ s2.st = "open" /\ s2.user = u /\ s2.session = p.m[m].session
      /\ ~s2.async /\ s2.tds = p.m[m].tds
      /\ s2.send = p.m[m].send /\ s2.part = p.m[m].part
  BY <1>1 DEF UserRec, MemberRec
<1> HIDE DEF a, b, c, d, r1, r2, s1, s2
<1>10. Agree(r2, s2, u)
  BY <1>1, <1>9 DEF Agree, MuteUser, MuteMember
<1>11. Touches(p, q, u, r2, m, s2)
  BY <1>2, <1>8
<1>12. Change(p, q, u, m)
  BY <1>9, <1>10, <1>11, Touched
<1> QED
  BY <1>12

\* So are a client that was given an idle connection, and that connection.
LEMMA LoginEndedChanges ==
  ASSUME NEW p, Sound(p), NEW m \in Members, NEW u, u = p.m[m].user, u # None,
         ~p.m[m].async, MuteUser(p, u), MuteMember(p, m),
         NEW q, q = LoginEnded(p, u)
  PROVE  Change(p, q, u, m)
<1> DEFINE a == [p EXCEPT !.u[u].recv = TRUE]
           r1 == [p.u[u] EXCEPT !.recv = TRUE]
           b == [a EXCEPT !.u[u].send = FALSE]
           r2 == [r1 EXCEPT !.send = FALSE]
           c == [b EXCEPT !.m[m].recv = TRUE]
           s1 == [p.m[m] EXCEPT !.recv = TRUE]
           d == [c EXCEPT !.m[m].send = FALSE]
           s2 == [s1 EXCEPT !.send = FALSE]
<1>1. /\ u \in Users /\ p.u[u].st = "query" /\ p.u[u].member = m
      /\ p.m[m].st = "open" /\ Agree(p.u[u], p.m[m], u)
      /\ p.u[u] \in UserRec /\ p.m[m] \in MemberRec /\ p \in PoolRec
  BY JoinedAgree, SoundFits
<1>2. q = d
  BY <1>1 DEF MemberOf, LoginEnded
<1>3. r1 \in UserRec /\ r2 \in UserRec /\ s1 \in MemberRec /\ s2 \in MemberRec
  BY <1>1, PoolAssumption DEF UserRec, MemberRec
<1>4. Touches(p, p, u, p.u[u], m, p.m[m])
  BY <1>1, TouchNone
<1>5. Touches(p, a, u, r1, m, p.m[m])
  <2>1. p.u[u] = p.u[u]
    BY <1>4 DEF Touches
  <2>2. a = [p EXCEPT !.u = [p.u EXCEPT ![u] = r1]]
    BY <2>1
  <2> HIDE DEF a, b, c, d, r1, r2, s1, s2
  <2> QED
    BY <1>1, <1>3, <1>4, <2>2, TouchUser
<1>6. Touches(p, b, u, r2, m, p.m[m])
  <2>1. a.u[u] = r1
    BY <1>5 DEF Touches
  <2>2. b = [a EXCEPT !.u = [a.u EXCEPT ![u] = r2]]
    BY <2>1
  <2> HIDE DEF a, b, c, d, r1, r2, s1, s2
  <2> QED
    BY <1>1, <1>3, <1>5, <2>2, TouchUser
<1>7. Touches(p, c, u, r2, m, s1)
  <2>1. b.m[m] = p.m[m]
    BY <1>6 DEF Touches
  <2>2. c = [b EXCEPT !.m = [b.m EXCEPT ![m] = s1]]
    BY <2>1
  <2> HIDE DEF a, b, c, d, r1, r2, s1, s2
  <2> QED
    BY <1>1, <1>3, <1>6, <2>2, TouchMember
<1>8. Touches(p, d, u, r2, m, s2)
  <2>1. c.m[m] = s1
    BY <1>7 DEF Touches
  <2>2. d = [c EXCEPT !.m = [c.m EXCEPT ![m] = s2]]
    BY <2>1
  <2> HIDE DEF a, b, c, d, r1, r2, s1, s2
  <2> QED
    BY <1>1, <1>3, <1>7, <2>2, TouchMember
<1>9. /\ r2.st = "query" /\ r2.member = m
      /\ r2.send = FALSE /\ r2.part = p.u[u].part /\ p.u[u].send \in BOOLEAN
      /\ p.u[u].part \in BOOLEAN /\ p.m[m].part \in BOOLEAN /\ p.m[m].send \in BOOLEAN
      /\ s2.st = "open" /\ s2.user = u /\ s2.session = p.m[m].session
      /\ ~s2.async /\ s2.tds = p.m[m].tds /\ s2.async = p.m[m].async
      /\ s2.send = FALSE /\ s2.part = p.m[m].part
  BY <1>1 DEF UserRec, MemberRec
<1> HIDE DEF a, b, c, d, r1, r2, s1, s2
<1>10. Agree(r2, s2, u)
  BY <1>1, <1>9 DEF Agree, MuteUser, MuteMember
<1>11. Touches(p, q, u, r2, m, s2)
  BY <1>2, <1>8
<1>12. Change(p, q, u, m)
  BY <1>9, <1>10, <1>11, Touched
<1> QED
  BY <1>12

\* What a client sends is forwarded to its connection.
LEMMA UserToMemberChanges ==
  ASSUME NEW p, Sound(p), NEW m \in Members, NEW u, u = p.m[m].user, u # None,
         ~p.m[m].async, NEW all \in BOOLEAN,
         NEW q, q = WriteUserToMember(p, u, m, all)
  PROVE  /\ Change(p, q, u, m)
         /\ Touches(p, q, u, [p.u[u] EXCEPT !.part = ~all, !.recv = all],
                    m, [p.m[m] EXCEPT !.send = ~all])
<1> DEFINE a == [p EXCEPT !.u[u].part = ~all]
           r1 == [p.u[u] EXCEPT !.part = ~all]
           b == [a EXCEPT !.m[m].send = ~all]
           s1 == [p.m[m] EXCEPT !.send = ~all]
           c == [b EXCEPT !.u[u].recv = all]
           r2 == [r1 EXCEPT !.recv = all]
<1>1. /\ u \in Users /\ p.u[u].st = "query" /\ p.u[u].member = m
      /\ p.m[m].st = "open" /\ Agree(p.u[u], p.m[m], u)
      /\ p.u[u] \in UserRec /\ p.m[m] \in MemberRec /\ p \in PoolRec
  BY JoinedAgree, SoundFits
<1>2. q = c
  BY <1>1 DEF WriteUserToMember
<1>3. r1 \in UserRec /\ r2 \in UserRec /\ s1 \in MemberRec
  BY <1>1, PoolAssumption DEF UserRec, MemberRec
<1>4. Touches(p, p, u, p.u[u], m, p.m[m])
  BY <1>1, TouchNone
<1>5. Touches(p, a, u, r1, m, p.m[m])
  <2>1. p.u[u] = p.u[u]
    BY <1>4 DEF Touches
  <2>2. a = [p EXCEPT !.u = [p.u EXCEPT ![u] = r1]]
    BY <2>1
  <2> HIDE DEF a, b, c, r1, r2, s1
  <2> QED
    BY <1>1, <1>3, <1>4, <2>2, TouchUser
<1>6. Touches(p, b, u, r1, m, s1)
  <2>1. a.m[m] = p.m[m]
    BY <1>5 DEF Touches
  <2>2. b = [a EXCEPT !.m = [a.m EXCEPT ![m] = s1]]
    BY <2>1
  <2> HIDE DEF a, b, c, r1, r2, s1
  <2> QED
    BY <1>1, <1>3, <1>5, <2>2, TouchMember
<1>7. Touches(p, c, u, r2, m, s1)
  <2>1. b.u[u] = r1
    BY <1>6 DEF Touches
  <2>2. c = [b EXCEPT !.u = [b.u EXCEPT ![u] = r2]]
    BY <2>1
  <2> HIDE DEF a, b, c, r1, r2, s1
  <2> QED
    BY <1>1, <1>3, <1>6, <2>2, TouchUser
<1>8. /\ r2.st = "query" /\ r2.member = m
      /\ r2.send = p.u[u].send /\ r2.part = ~all /\ r2.recv = all
      /\ s1.st = "open" /\ s1.user = u /\ s1.session = p.m[m].session
      /\ ~s1.async /\ s1.tds = p.m[m].tds
      /\ s1.recv = p.m[m].recv /\ s1.send = ~all /\ s1.part = p.m[m].part
  BY <1>1 DEF UserRec, MemberRec
<1> HIDE DEF a, b, c, r1, r2, s1
<1>9. Agree(r2, s1, u)
  BY <1>1, <1>8 DEF Agree
<1>10. Touches(p, q, u, r2, m, s1)
  BY <1>2, <1>7
<1>11. Change(p, q, u, m)
  BY <1>8, <1>9, <1>10, Touched
<1> QED
  BY <1>10, <1>11 DEF r1, r2, s1

\* What a connection sends is forwarded to its client.
LEMMA MemberToUserChanges ==
  ASSUME NEW p, Sound(p), NEW m \in Members, NEW u, u = p.m[m].user, u # None,
         ~p.m[m].async, NEW all \in BOOLEAN,
         NEW q, q = WriteMemberToUser(p, m, u, all)
  PROVE  /\ Change(p, q, u, m)
         /\ Touches(p, q, u, [p.u[u] EXCEPT !.send = ~all],
                    m, [p.m[m] EXCEPT !.part = ~all, !.recv = all])
<1> DEFINE a == [p EXCEPT !.m[m].part = ~all]
           s1 == [p.m[m] EXCEPT !.part = ~all]
           b == [a EXCEPT !.u[u].send = ~all]
           r1 == [p.u[u] EXCEPT !.send = ~all]
           c == [b EXCEPT !.m[m].recv = all]
           s2 == [s1 EXCEPT !.recv = all]
<1>1. /\ u \in Users /\ p.u[u].st = "query" /\ p.u[u].member = m
      /\ p.m[m].st = "open" /\ Agree(p.u[u], p.m[m], u)
      /\ p.u[u] \in UserRec /\ p.m[m] \in MemberRec /\ p \in PoolRec
  BY JoinedAgree, SoundFits
<1>2. q = c
  BY <1>1 DEF WriteMemberToUser
<1>3. r1 \in UserRec /\ s1 \in MemberRec /\ s2 \in MemberRec
  BY <1>1, PoolAssumption DEF UserRec, MemberRec
<1>4. Touches(p, p, u, p.u[u], m, p.m[m])
  BY <1>1, TouchNone
<1>5. Touches(p, a, u, p.u[u], m, s1)
  <2>1. p.m[m] = p.m[m]
    BY <1>4 DEF Touches
  <2>2. a = [p EXCEPT !.m = [p.m EXCEPT ![m] = s1]]
    BY <2>1
  <2> HIDE DEF a, b, c, r1, s1, s2
  <2> QED
    BY <1>1, <1>3, <1>4, <2>2, TouchMember
<1>6. Touches(p, b, u, r1, m, s1)
  <2>1. a.u[u] = p.u[u]
    BY <1>5 DEF Touches
  <2>2. b = [a EXCEPT !.u = [a.u EXCEPT ![u] = r1]]
    BY <2>1
  <2> HIDE DEF a, b, c, r1, s1, s2
  <2> QED
    BY <1>1, <1>3, <1>5, <2>2, TouchUser
<1>7. Touches(p, c, u, r1, m, s2)
  <2>1. b.m[m] = s1
    BY <1>6 DEF Touches
  <2>2. c = [b EXCEPT !.m = [b.m EXCEPT ![m] = s2]]
    BY <2>1
  <2> HIDE DEF a, b, c, r1, s1, s2
  <2> QED
    BY <1>1, <1>3, <1>6, <2>2, TouchMember
<1>8. /\ r1.st = "query" /\ r1.member = m
      /\ r1.send = ~all /\ r1.part = p.u[u].part /\ r1.recv = p.u[u].recv
      /\ s2.st = "open" /\ s2.user = u /\ s2.session = p.m[m].session
      /\ ~s2.async /\ s2.tds = p.m[m].tds
      /\ s2.recv = all /\ s2.send = p.m[m].send /\ s2.part = ~all
  BY <1>1 DEF UserRec, MemberRec
<1> HIDE DEF a, b, c, r1, s1, s2
<1>9. Agree(r1, s2, u)
  BY <1>1, <1>8 DEF Agree
<1>10. Touches(p, q, u, r1, m, s2)
  BY <1>2, <1>7
<1>11. Change(p, q, u, m)
  BY <1>8, <1>9, <1>10, Touched
<1> QED
  BY <1>10, <1>11 DEF r1, s1, s2

\* the pool with the login that user u sent
LoginRead(p, u, v) == [p EXCEPT !.u[u].login = TRUE, !.u[u].version = v]

\* A client's login was read.
LEMMA LoginReadChanges ==
  ASSUME NEW p, Sound(p), NEW u \in Users, NEW v \in Versions,
         p.u[u].st = "query", p.u[u].member = None,
         NEW q, q = LoginRead(p, u, v)
  PROVE  /\ Change(p, q, u, None)
         /\ q.u[u].st = "query" /\ q.u[u].member = None /\ q.u[u].login
<1> DEFINE r == [p.u[u] EXCEPT !.login = TRUE, !.version = v]
           g == [p.u EXCEPT ![u] = r]
           h == [[p.u EXCEPT ![u].login = TRUE] EXCEPT ![u].version = v]
<1>1. /\ p \in PoolRec /\ Balanced(p) /\ UserFits(p, u) /\ p.u[u] \in UserRec
      /\ p.u \in [Users -> UserRec] /\ p.m \in [Members -> MemberRec]
      /\ p.num_active <= MaxOpen /\ p.num_users <= MaxUsers
  <2>1. /\ p \in PoolRec /\ UserFits(p, u) /\ p.u[u] \in UserRec
        /\ p.num_active <= MaxOpen /\ p.num_users <= MaxUsers
    BY SoundFits
  <2> QED
    BY <2>1, SoundBalances, PoolFields
<1>2. q = [p EXCEPT !.u = g, !.m = p.m]
  <2>1. h = g
    BY <1>1 DEF UserRec
  <2>2. q = [p EXCEPT !.u = h, !.m = p.m]
    BY <1>1 DEF PoolRec, LoginRead
  <2> HIDE DEF g, h
  <2> QED
    BY <2>1, <2>2
<1>3. /\ r \in UserRec /\ r.st = "query" /\ r.member = None /\ r.login
      /\ r.recv = p.u[u].recv /\ r.send = p.u[u].send /\ r.part = p.u[u].part
  BY <1>1 DEF UserRec
<1> HIDE DEF r
<1>4. g \in [Users -> UserRec] /\ g[u] = r /\ \A x \in Users \ {u} : g[x] = p.u[x]
  BY <1>1, <1>3
<1> HIDE DEF g
<1>5. Updates(p, q, g, p.m)
  <2>1. Updates(p, [p EXCEPT !.u = g, !.m = p.m], g, p.m)
    BY <1>1, <1>4, Updated, Zenon
  <2> QED
    BY <1>2, <2>1, Zenon
<1>6. UserFits(q, u)
  BY <1>1, <1>3, <1>4, <1>5 DEF UserFits, Updates
<1>7. Same(p, q, u, None)
  BY <1>4, <1>5 DEF Same, Updates
<1>8. Pair(p, u, None)
  BY PoolAssumption DEF Pair
<1>9. Change(p, q, u, None)
  <2>1. Balanced(q) /\ q.num_active <= MaxOpen /\ q.num_users <= MaxUsers
    BY <1>1, <1>5 DEF Updates
  <2>2. None \notin Members
    BY PoolAssumption
  <2> QED
    BY <1>6, <1>7, <1>8, <2>1, <2>2, Frame, Zenon
<1> QED
  BY <1>3, <1>4, <1>5, <1>9 DEF Updates

\* the pool with a new user
Added(p, u) == [p EXCEPT !.users = Append(@, u), !.num_users = @ + 1,
                         !.u[u].st = "query"]

\* A client is accepted; its record may be left without a socket.
LEMMA AddedChanges ==
  ASSUME NEW p, Sound(p), NEW u \in Users, p.u[u].st = "free",
         p.num_users < MaxUsers,
         NEW q, q \in {Added(p, u), [Added(p, u) EXCEPT !.u[u].dead = TRUE]}
  PROVE  Change(p, q, u, None) /\ q.u[u].st = "query" /\ q.u[u].member = None
<1> DEFINE a == Append(p.users, u)
           k == p.num_users + 1
           e == [p.u[u] EXCEPT !.st = "query"]
           f == [e EXCEPT !.dead = TRUE]
<1>1. /\ p \in PoolRec /\ Balanced(p) /\ UserFits(p, u) /\ p.u[u] \in UserRec
      /\ p.u \in [Users -> UserRec] /\ p.num_active <= MaxOpen
      /\ p.num_users \in Int
      /\ p.users \in Seq(Users) /\ p.waiters \in Seq(Users) /\ Lists(p)
  <2>1. /\ p \in PoolRec /\ UserFits(p, u) /\ p.u[u] \in UserRec
        /\ p.num_active <= MaxOpen
    BY SoundFits
  <2> QED
    BY <2>1, SoundBalances, PoolFields DEF Sound
<1>2. u \notin Range(p.users) /\ u \notin Range(p.waiters)
  BY <1>1 DEF UserFits
<1>3. \E r \in {e, f} : q = [p EXCEPT !.users = a, !.num_users = k,
                                      !.u = [p.u EXCEPT ![u] = r]]
  <2>1. Added(p, u) = [p EXCEPT !.users = a, !.num_users = k,
                                !.u = [p.u EXCEPT ![u] = e]]
    BY DEF Added
  <2>2. [Added(p, u) EXCEPT !.u[u].dead = TRUE] =
          [p EXCEPT !.users = a, !.num_users = k,
                    !.u = [p.u EXCEPT ![u] = f]]
    <3> DEFINE b == [p EXCEPT !.users = a, !.num_users = k,
                              !.u = [p.u EXCEPT ![u] = e]]
    <3> HIDE DEF a, k, e, f
    <3>1. b.u = [p.u EXCEPT ![u] = e] /\ b.u[u] = e
      BY <1>1 DEF PoolRec
    <3>2. [b EXCEPT !.u[u].dead = TRUE] =
            [b EXCEPT !.u = [[p.u EXCEPT ![u] = e] EXCEPT ![u] = f]]
      <4> HIDE DEF b
      <4> QED
        BY <3>1 DEF f
    <3>3. [[p.u EXCEPT ![u] = e] EXCEPT ![u] = f] = [p.u EXCEPT ![u] = f]
      BY <1>1
    <3>4. [b EXCEPT !.u = [p.u EXCEPT ![u] = f]] =
            [p EXCEPT !.users = a, !.num_users = k, !.u = [p.u EXCEPT ![u] = f]]
      BY <1>1 DEF PoolRec
    <3> HIDE DEF b
    <3>5. Added(p, u) = b
      BY <2>1 DEF b
    <3> QED
      BY <3>2, <3>3, <3>4, <3>5
  <2> HIDE DEF a, k, e, f
  <2> QED
    BY <2>1, <2>2
<1>4. PICK r \in {e, f} : q = [p EXCEPT !.users = a, !.num_users = k,
                                        !.u = [p.u EXCEPT ![u] = r]]
  BY <1>3
<1> DEFINE g == [p.u EXCEPT ![u] = r]
<1>5. /\ r \in UserRec /\ r.st = "query" /\ r.member = None
      /\ ~r.recv /\ ~r.send /\ ~r.part
  <2>1. /\ p.u[u].member = None /\ ~p.u[u].recv /\ ~p.u[u].send /\ ~p.u[u].part
    BY <1>1 DEF UserFits, FreshUser
  <2>2. /\ e \in UserRec /\ e.st = "query" /\ e.member = None
        /\ ~e.recv /\ ~e.send /\ ~e.part
    BY <1>1, <2>1 DEF UserRec
  <2> HIDE DEF e
  <2>3. /\ f \in UserRec /\ f.st = "query" /\ f.member = None
        /\ ~f.recv /\ ~f.send /\ ~f.part
    BY <2>2 DEF UserRec
  <2> HIDE DEF f
  <2> QED
    BY <2>2, <2>3
<1> HIDE DEF e, f
<1>6. g \in [Users -> UserRec] /\ g[u] = r /\ \A x \in Users \ {u} : g[x] = p.u[x]
  BY <1>1, <1>5
<1>7. a \in Seq(Users) /\ IsInjective(a) /\ Range(a) = Range(p.users) \cup {u}
  BY <1>1, <1>2, With DEF Lists
<1>8. Total(a, p.waiters) = k
  <2>1. Total(a, p.waiters) = Total(p.users, p.waiters) + 1
    BY <1>1, TotalWith DEF Lists
  <2>2. p.num_users = Total(p.users, p.waiters)
    BY <1>1 DEF Balanced
  <2> QED
    BY <2>1, <2>2
<1>9. k \in Int /\ k <= MaxUsers
  BY <1>1, LoopAssumption
<1> HIDE DEF a, g, k
<1>10. /\ q \in PoolRec /\ q.users = a /\ q.waiters = p.waiters
       /\ q.active = p.active /\ q.idle = p.idle
       /\ q.num_active = p.num_active /\ q.num_users = k
       /\ q.u = g /\ q.m = p.m
  <2>1. q = [p EXCEPT !.users = a, !.num_users = k, !.u = g]
    BY <1>4 DEF g
  <2>2. q \in PoolRec
    BY <1>1, <1>6, <1>7, <1>9, <2>1 DEF PoolRec
  <2> QED
    BY <1>1, <2>1, <2>2 DEF PoolRec
<1>11. Balanced(q)
  BY <1>1, <1>7, <1>8, <1>10 DEF Balanced, Lists
<1>12. UserFits(q, u)
  BY <1>2, <1>5, <1>6, <1>7, <1>10 DEF UserFits
<1>13. Same(p, q, u, None)
  BY <1>6, <1>7, <1>10 DEF Same
<1>14. Pair(p, u, None)
  BY <1>1, PoolAssumption DEF Pair, UserFits, FreshUser
<1>15. Change(p, q, u, None)
  <2>1. q.num_active <= MaxOpen /\ q.num_users <= MaxUsers
    BY <1>1, <1>9, <1>10
  <2>2. None \notin Members
    BY PoolAssumption
  <2> QED
    BY <1>11, <1>12, <1>13, <1>14, <2>1, <2>2, Frame, Zenon
<1> QED
  BY <1>5, <1>6, <1>10, <1>15

---------------------------------------------------------------------------
(* The threads, and the events they leave, when the pool changes.          *)

\* job e is about neither u nor m
Clear(u, m, e) == /\ e.u = None \/ e.u # u
                  /\ e.m = None \/ e.m # m

\* A job finds what it works on as it was, when others are touched.
LEMMA OthersWork ==
  ASSUME NEW p, NEW q, NEW u, NEW m, Change(p, q, u, m), NEW e \in Job,
         Works(p, e), Clear(u, m, e)
  PROVE  Works(q, e) /\ (Told(p, e) => Told(q, e))
<1>1. Sound(p) /\ Pair(p, u, m) /\ Same(p, q, u, m)
  BY DEF Change
<1>2. e.kind \in {"login", "end_login", "connect"}
  BY DEF Job
<1>3. CASE e.kind = "login"
  <2>1. e.u \in Users /\ e.u # u
    BY <1>3, PoolAssumption DEF Works, Clear
  <2>2. q.u[e.u] = p.u[e.u]
    BY <1>1, <2>1 DEF Same
  <2> QED
    BY <1>3, <2>2 DEF Works, Told
<1>4. CASE e.kind = "end_login"
  <2> DEFINE n == p.u[e.u].member
  <2>1. e.u \in Users /\ e.u # u /\ n # None
    BY <1>4, PoolAssumption DEF Works, Clear
  <2>2. UserFits(p, e.u) /\ p.u[e.u] \in UserRec
    BY <1>1, <2>1, SoundFits
  <2>3. n \in Members /\ p.m[n].user = e.u
    BY <2>1, <2>2, UserFields DEF UserFits
  <2>4. n # m
    BY <1>1, <2>1, <2>3, PoolAssumption DEF Pair
  <2>5. q.u[e.u] = p.u[e.u] /\ q.m[n] = p.m[n]
    BY <1>1, <2>1, <2>3, <2>4 DEF Same
  <2> QED
    BY <1>4, <2>5 DEF Works, Told, MuteUser, MuteMember
<1>5. CASE e.kind = "connect"
  <2> DEFINE w == p.m[e.m].user
  <2>1. e.m \in Members /\ e.m # m /\ w # None
    BY <1>5, PoolAssumption DEF Works, Clear
  <2>2. w \in Users /\ p.u[w].member = e.m
    <3> HIDE DEF w
    <3>1. w = p.m[e.m].user
      BY DEF w
    <3> QED
      BY <1>1, <2>1, <3>1, JoinedAgree
  <2>3. w # u
    BY <1>1, <2>1, <2>2, PoolAssumption DEF Pair
  <2>4. q.m[e.m] = p.m[e.m] /\ q.u[w] = p.u[w]
    BY <1>1, <2>1, <2>2, <2>3 DEF Same
  <2> QED
    BY <1>5, <2>4 DEF Works, Told, MuteUser, MuteMember
<1> QED
  BY <1>2, <1>3, <1>4, <1>5

\* No job is about a user that is free or waits, or about a member without
\* a user.
LEMMA NoJob ==
  ASSUME NEW p, Sound(p), NEW e \in Job, Works(p, e)
  PROVE  /\ \A u \in Users : p.u[u].st # "query" => e.u # u
         /\ \A m \in Members : p.m[m].user = None => e.m # m
<1>1. e.kind \in {"login", "end_login", "connect"}
  BY DEF Job
<1>2. ASSUME NEW u \in Users, p.u[u].st # "query", e.u = u PROVE FALSE
  <2>1. UserFits(p, u)
    BY SoundFits
  <2> QED
    BY <1>1, <1>2, <2>1, PoolAssumption DEF Works, UserFits
<1>3. ASSUME NEW m \in Members, p.m[m].user = None, e.m = m PROVE FALSE
  BY <1>1, <1>3, PoolAssumption DEF Works
<1> QED
  BY <1>2, <1>3

\* No job is about a pair that the loop reads or writes.
LEMMA BusyClear ==
  ASSUME NEW p, Sound(p), NEW e \in Job, Works(p, e),
         NEW m \in Members, NEW u, u = p.m[m].user, u # None,
         ~(MuteUser(p, u) /\ MuteMember(p, m))
  PROVE  Clear(u, m, e)
<1>1. e.kind \in {"login", "end_login", "connect"}
  BY DEF Job
<1>2. u \in Users /\ p.u[u].member = m
  BY JoinedAgree
<1>3. e.u # u
  BY <1>1, <1>2, PoolAssumption DEF Works
<1>4. e.m # m
  BY <1>1, PoolAssumption DEF Works
<1> QED
  BY <1>3, <1>4 DEF Clear

\* what job a works on
Own(p, a, u, m) ==
  \/ /\ a.kind = "login" /\ u = a.u
     /\ m # None => m \in Members /\ p.m[m].user = None
  \/ a.kind = "end_login" /\ u = a.u /\ m = p.u[u].member
  \/ a.kind = "connect" /\ m = a.m /\ u = p.m[m].user

\* No other job is about it.
LEMMA OwnClear ==
  ASSUME NEW p, Sound(p), NEW a \in Job, Works(p, a), NEW e \in Job,
         Works(p, e), Apart(a, e), NEW u, NEW m, Own(p, a, u, m)
  PROVE  Clear(u, m, e)
<1>1. /\ a.kind \in {"login", "end_login", "connect"}
      /\ e.kind \in {"login", "end_login", "connect"}
  BY DEF Job
<1>2. CASE a.kind = "login"
  <2>1. u = a.u /\ u \in Users /\ (m # None => m \in Members /\ p.m[m].user = None)
    BY <1>2 DEF Own, Works
  <2>2. e.u # u
    BY <2>1, PoolAssumption DEF Apart
  <2>3. e.m # m \/ e.m = None
    BY <2>1, NoJob
  <2> QED
    BY <2>2, <2>3 DEF Clear
<1>3. CASE a.kind = "end_login"
  <2>1. u = a.u /\ u \in Users /\ m = p.u[u].member /\ m # None /\ ~p.m[m].async
    BY <1>3 DEF Own, Works
  <2>2. e.u # u
    BY <2>1, PoolAssumption DEF Apart
  <2>3. e.m # m
    BY <1>1, <2>1 DEF Works
  <2> QED
    BY <2>2, <2>3 DEF Clear
<1>4. CASE a.kind = "connect"
  <2>1. m = a.m /\ m \in Members /\ u = p.m[m].user /\ u # None /\ p.m[m].async
    BY <1>4 DEF Own, Works
  <2>2. u \in Users /\ p.u[u].member = m
    BY <2>1, JoinedAgree
  <2>3. e.m # m
    BY <2>1, PoolAssumption DEF Apart
  <2>4. e.u # u
    BY <1>1, <2>1, <2>2, PoolAssumption DEF Works
  <2> QED
    BY <2>3, <2>4 DEF Clear
<1> QED
  BY <1>1, <1>2, <1>3, <1>4

\* A job about what is clear of another is apart from it.
LEMMA ClearApart ==
  ASSUME NEW u, NEW m, NEW e, Clear(u, m, e), NEW j,
         j.u \in {None, u}, j.m \in {None, m}
  PROVE  Apart(j, e)
BY DEF Clear, Apart

---------------------------------------------------------------------------
(* The jobs, as threads start and end and events are taken.                *)

\* the jobs that there are
AllJobs(T, E, B) == T \cup Range(E) \cup Range(B)

\* What is known of each job.
LEMMA JobsKnown ==
  ASSUME NEW p, NEW T, NEW E, NEW B, JobsOf(p, T, E, B),
         NEW e \in AllJobs(T, E, B)
  PROVE  e \in Job /\ Works(p, e) /\ (e \notin T => Told(p, e))
<1>1. Range(E) \subseteq Job /\ Range(B) \subseteq Job /\ T \subseteq Job
  BY DEF JobsOf, Range
<1> QED
  BY <1>1 DEF JobsOf, AllJobs

\* The pool changes.
LEMMA JobsKept ==
  ASSUME NEW p, NEW q, NEW T, NEW E, NEW B, JobsOf(p, T, E, B),
         \A e \in AllJobs(T, E, B) : Works(q, e) /\ (Told(p, e) => Told(q, e))
  PROVE  JobsOf(q, T, E, B)
BY DEF JobsOf, AllJobs

\* A step on u and m that no job is about.
LEMMA JobsAside ==
  ASSUME NEW p, NEW q, NEW T, NEW E, NEW B, JobsOf(p, T, E, B),
         NEW u, NEW m, Change(p, q, u, m),
         \A e \in AllJobs(T, E, B) : Clear(u, m, e)
  PROVE  JobsOf(q, T, E, B)
<1>1. ASSUME NEW e \in AllJobs(T, E, B)
      PROVE  Works(q, e) /\ (Told(p, e) => Told(q, e))
  BY JobsKnown, OthersWork
<1> QED
  BY <1>1, JobsKept

\* A thread starts.
LEMMA JobStarts ==
  ASSUME NEW p, NEW T, NEW E, NEW B, JobsOf(p, T, E, B),
         NEW j \in Job, Works(p, j),
         \A e \in AllJobs(T, E, B) : Apart(j, e)
  PROVE  JobsOf(p, T \cup {j}, E, B)
<1>1. \A e \in T : Apart(j, e) /\ Apart(e, j)
  BY DEF AllJobs, Apart
<1> QED
  BY <1>1 DEF JobsOf, AllJobs

\* A thread ends and leaves its event.
LEMMA JobReports ==
  ASSUME NEW p, NEW q, NEW T, NEW E, NEW B, JobsOf(p, T, E, B),
         NEW t \in T, NEW ok \in BOOLEAN, NEW a, a = [t EXCEPT !.ok = ok],
         Works(q, a), Told(q, a),
         \A e \in AllJobs(T, E, B) : Apart(t, e) =>
            Works(q, e) /\ (Told(p, e) => Told(q, e))
  PROVE  JobsOf(q, T \ {t}, <<a>> \o E, B)
<1>1. t \in Job /\ E \in Seq(Job)
  BY DEF JobsOf
<1>2. a \in Job /\ a.u = t.u /\ a.m = t.m
  BY <1>1 DEF Job
<1> DEFINE F == <<a>> \o E
<1>3. /\ F \in Seq(Job) /\ Len(F) = 1 + Len(E) /\ F[1] = a
      /\ \A i \in 1..Len(E) : F[i + 1] = E[i]
  <2>1. <<a>> \in Seq(Job) /\ Len(<<a>>) = 1 /\ <<a>>[1] = a
    BY <1>2
  <2>2. Len(E) \in Nat
    BY <1>1, LenProperties
  <2> QED
    BY <1>1, <2>1, <2>2, ConcatProperties
<1> HIDE DEF F
<1>4. /\ Len(E) \in Nat /\ DOMAIN E = 1..Len(E)
      /\ DOMAIN F = 1..(1 + Len(E))
  BY <1>1, <1>3, LenProperties
<1>5. \A i \in DOMAIN F : i = 1 \/ (i - 1 \in DOMAIN E /\ F[i] = E[i - 1])
  BY <1>3, <1>4
<1>6. Range(F) \subseteq {a} \cup Range(E)
  BY <1>3, <1>5 DEF Range
<1>7. \A e \in T \ {t} : Apart(t, e)
  BY DEF JobsOf
<1>8. \A e \in Range(E) \cup Range(B) : Apart(t, e)
  BY DEF JobsOf
<1>9. \A e : Apart(t, e) => Apart(a, e) /\ Apart(e, a)
  BY <1>2 DEF Apart
<1>10. AllApart(F)
  <2> SUFFICES ASSUME NEW i \in DOMAIN F, NEW j \in DOMAIN F, i # j
               PROVE  Apart(F[i], F[j])
    BY DEF AllApart
  <2>1. CASE i = 1
    <3>1. j - 1 \in DOMAIN E /\ F[j] = E[j - 1]
      BY <1>5, <2>1
    <3>2. F[j] \in Range(E)
      BY <3>1 DEF Range
    <3> QED
      BY <1>3, <1>8, <1>9, <2>1, <3>2
  <2>2. CASE i # 1 /\ j = 1
    <3>1. i - 1 \in DOMAIN E /\ F[i] = E[i - 1]
      BY <1>5, <2>2
    <3>2. F[i] \in Range(E)
      BY <3>1 DEF Range
    <3> QED
      BY <1>3, <1>8, <1>9, <2>2, <3>2
  <2>3. CASE i # 1 /\ j # 1
    <3>1. /\ i - 1 \in DOMAIN E /\ F[i] = E[i - 1]
          /\ j - 1 \in DOMAIN E /\ F[j] = E[j - 1] /\ i - 1 # j - 1
      BY <1>4, <1>5, <2>3
    <3>2. AllApart(E)
      BY DEF JobsOf
    <3> QED
      BY <3>1, <3>2 DEF AllApart
  <2> QED
    BY <2>1, <2>2, <2>3
<1>11. \A e \in T \ {t} : Works(q, e)
  BY <1>7 DEF AllJobs
<1>12. \A e \in Range(E) \cup Range(B) : Works(q, e) /\ Told(q, e)
  BY <1>8 DEF AllJobs, JobsOf
<1>13. \A e \in Range(F) : e = a \/ e \in Range(E)
  BY <1>6
<1>14. JobsOf(p, T, E, B)
  OBVIOUS
<1>15. \A e \in T \ {t}, f \in Range(F) \cup Range(B) : Apart(e, f)
  BY <1>7, <1>9, <1>13, <1>14 DEF JobsOf
<1>16. \A e \in Range(F), f \in Range(B) : Apart(e, f)
  BY <1>8, <1>9, <1>13, <1>14 DEF JobsOf
<1>17. \A e \in Range(F) \cup Range(B) : Works(q, e) /\ Told(q, e)
  BY <1>12, <1>13
<1>18. /\ T \ {t} \subseteq Job /\ B \in Seq(Job) /\ AllApart(B)
       /\ \A e, f \in T \ {t} : e # f => Apart(e, f)
  BY DEF JobsOf
<1> QED
  BY <1>3, <1>10, <1>11, <1>15, <1>16, <1>17, <1>18 DEF JobsOf, F

\* An event is taken from the batch.
LEMMA JobTaken ==
  ASSUME NEW p, NEW T, NEW E, NEW B, JobsOf(p, T, E, B), B # <<>>,
         NEW a, a = Head(B), NEW C, C = Tail(B)
  PROVE  /\ a \in Job /\ Works(p, a) /\ Told(p, a)
         /\ JobsOf(p, T, E, C) /\ \A e \in AllJobs(T, E, C) : Apart(a, e)
<1>1. B \in Seq(Job) /\ AllApart(B)
  BY DEF JobsOf
<1>2. /\ Len(B) \in Nat \ {0} /\ DOMAIN B = 1..Len(B) /\ a = B[1]
      /\ C \in Seq(Job) /\ Len(C) = Len(B) - 1
      /\ \A i \in 1..Len(C) : C[i] = B[i + 1]
  BY <1>1, HeadTailProperties, LenProperties, EmptySeq
<1>3. /\ 1 \in DOMAIN B /\ DOMAIN C = 1..Len(C)
      /\ \A i \in DOMAIN C : i + 1 \in DOMAIN B /\ i + 1 # 1 /\ C[i] = B[i + 1]
  BY <1>2, LenProperties
<1>4. a \in Range(B) /\ Range(C) \subseteq Range(B)
  BY <1>2, <1>3 DEF Range
<1>5. \A e \in Range(C) : Apart(a, e)
  BY <1>1, <1>2, <1>3 DEF Range, AllApart
<1>6. AllApart(C)
  <2> SUFFICES ASSUME NEW i \in DOMAIN C, NEW j \in DOMAIN C, i # j
               PROVE  Apart(C[i], C[j])
    BY DEF AllApart
  <2>1. i + 1 # j + 1
    BY <1>3
  <2> QED
    BY <1>1, <1>3, <2>1 DEF AllApart
<1>7. JobsOf(p, T, E, C)
  BY <1>2, <1>4, <1>6 DEF JobsOf
<1>8. \A e \in T \cup Range(E) : Apart(a, e)
  <2>1. \A e \in T \cup Range(E) : Apart(e, a)
    BY <1>4 DEF JobsOf
  <2> QED
    BY <2>1 DEF Apart
<1>9. a \in Job
  BY <1>1, <1>2, <1>3
<1> QED
  BY <1>4, <1>5, <1>7, <1>8, <1>9 DEF JobsOf, AllJobs

\* The queued events are taken.
LEMMA JobsDetach ==
  ASSUME NEW p, NEW T, NEW E, JobsOf(p, T, E, <<>>)
  PROVE  JobsOf(p, T, <<>>, E)
<1>1. Range(<<>>) = {} /\ <<>> \in Seq(Job)
  BY DEF Range
<1>2. AllApart(<<>>)
  BY DEF AllApart
<1> QED
  BY <1>1, <1>2 DEF JobsOf

---------------------------------------------------------------------------
(* The steps.                                                              *)

\* What the loop holds is still listed.
LEMMA LoopKept ==
  ASSUME Looping, loop' = loop,
         Range(pool.users) \subseteq Range(pool'.users),
         Range(pool.active) \subseteq Range(pool'.active)
  PROVE  Looping'
BY DEF Looping

\* Who dials has no record, when only a user that has one is touched.
LEMMA PeersTouched ==
  ASSUME Peers, NEW u, NEW m, Change(pool, pool', u, m),
         u \in Users => pool.u[u].st # "free",
         Reset(pool') \/ UNCHANGED <<client, server>>
  PROVE  Peers'
<1>1. \A x \in Users \ {u} : pool'.u[x] = pool.u[x]
  BY DEF Change, Same
<1>2. \A x \in Users : client'[x] = "dialing" => client[x] = "dialing"
  BY DEF Reset, Peers
<1>3. \A x \in Users : client'[x] = "dialing" => pool'.u[x].st = "free"
  BY <1>1, <1>2 DEF Peers
<1>4. client' \in [Users -> {"out", "dialing", "in", "gone"}]
  BY DEF Reset, Peers
<1>5. server' \in [Members -> {"up", "closed"}]
  BY DEF Reset, Peers
<1> QED
  BY <1>3, <1>4, <1>5 DEF Peers

\* A thread that ends leaves the others as they were.
LEMMA ThreadEnds ==
  ASSUME PoolInv, NEW t \in threads, NEW ok \in BOOLEAN,
         NEW u, NEW m, Own(pool, t, u, m), Change(pool, pool', u, m),
         Works(pool', t), Told(pool', [t EXCEPT !.ok = ok]),
         threads' = threads \ {t},
         events' = <<[t EXCEPT !.ok = ok]>> \o events,
         UNCHANGED <<loop, client, server>>,
         Range(pool.users) \subseteq Range(pool'.users),
         Range(pool.active) \subseteq Range(pool'.active)
  PROVE  PoolInv'
<1> DEFINE a == [t EXCEPT !.ok = ok]
<1>1. JobsOf(pool, threads, events, loop.batch) /\ Sound(pool)
  BY DEF PoolInv, Jobs
<1>2. t \in Job /\ Works(pool, t)
  BY <1>1 DEF JobsOf
<1>3. a.kind = t.kind /\ a.u = t.u /\ a.m = t.m
  BY <1>2 DEF Job
<1> HIDE DEF a
<1>4. Works(pool', a) /\ Told(pool', a)
  BY <1>3 DEF Works, a
<1>5. ASSUME NEW e \in AllJobs(threads, events, loop.batch), Apart(t, e)
      PROVE  Works(pool', e) /\ (Told(pool, e) => Told(pool', e))
  <2>1. e \in Job /\ Works(pool, e)
    BY <1>1, JobsKnown
  <2>2. Clear(u, m, e)
    BY <1>1, <1>2, <1>5, <2>1, OwnClear
  <2> QED
    BY <2>1, <2>2, OthersWork
<1>6. JobsOf(pool', threads \ {t}, <<a>> \o events, loop.batch)
  BY <1>1, <1>4, <1>5, JobReports DEF a
<1>7. Jobs'
  BY <1>6 DEF Jobs, a
<1>8. Looping'
  BY LoopKept DEF PoolInv
<1>9. Peers'
  <2>1. u \in Users => pool.u[u].st # "free"
    <3>1. CASE t.kind = "login"
      BY <1>2, <3>1 DEF Works, Own
    <3>2. CASE t.kind = "end_login"
      <4>1. u \in Users /\ pool.u[u].member # None
        BY <1>2, <3>2 DEF Works, Own
      <4>2. UserFits(pool, u)
        BY <1>1, <4>1, SoundFits
      <4> QED
        BY <4>1, <4>2 DEF UserFits
    <3>3. CASE t.kind = "connect"
      <4>1. m \in Members /\ u = pool.m[m].user /\ u # None
        BY <1>2, <3>3 DEF Works, Own
      <4> QED
        BY <1>1, <4>1, JoinedAgree
    <3> QED
      BY <3>1, <3>2, <3>3 DEF Own
  <2> QED
    BY <2>1, PeersTouched DEF PoolInv
<1> QED
  BY <1>7, <1>8, <1>9 DEF PoolInv, Change

\* No pool changes.
LEMMA ChangesNone ==
  ASSUME NEW p, Sound(p), NEW u, NEW m, Pair(p, u, m)
  PROVE  Change(p, p, u, m)
BY DEF Change, Same

\* The thread of login_proc ends.
LEMMA LoginThreadStep ==
  ASSUME PoolInv, NEW t, NEW ok \in BOOLEAN, NEW v \in Versions,
         LoginThread(t, ok, v)
  PROVE  PoolInv'
<1> DEFINE u == t.u
<1>1. /\ t \in threads /\ t.kind = "login" /\ threads' = threads \ {t}
      /\ events' = <<[t EXCEPT !.ok = ok]>> \o events
      /\ UNCHANGED <<loop, client, server>>
  BY DEF LoginThread
<1>2. t \in Job /\ Works(pool, t) /\ Sound(pool)
  BY <1>1 DEF PoolInv, Jobs, JobsOf
<1>3. /\ u \in Users /\ t.m = None /\ pool.u[u].st = "query"
      /\ pool.u[u].member = None
  BY <1>1, <1>2 DEF Works
<1>4. Own(pool, t, u, None)
  BY <1>1 DEF Own
<1> HIDE DEF u
<1>5. /\ Change(pool, pool', u, None)
      /\ pool'.u[u].st = "query" /\ pool'.u[u].member = None
      /\ ok => pool'.u[u].login
  <2>1. CASE ok
    <3>1. pool' = LoginRead(pool, u, v)
      BY <2>1 DEF LoginThread, LoginRead, u
    <3> QED
      BY <1>2, <1>3, <3>1, LoginReadChanges
  <2>2. CASE ~ok
    <3>1. pool' = pool
      BY <2>2 DEF LoginThread
    <3>2. Pair(pool, u, None)
      BY <1>3, PoolAssumption DEF Pair
    <3> QED
      BY <1>2, <1>3, <2>2, <3>1, <3>2, ChangesNone
  <2> QED
    BY <2>1, <2>2
<1>6. Works(pool', t)
  BY <1>1, <1>3, <1>5 DEF Works, u
<1>7. Told(pool', [t EXCEPT !.ok = ok])
  <2>1. /\ [t EXCEPT !.ok = ok].kind = "login" /\ [t EXCEPT !.ok = ok].u = u
        /\ [t EXCEPT !.ok = ok].ok = ok
    BY <1>1, <1>2 DEF Job, u
  <2> QED
    BY <1>5, <2>1 DEF Told
<1>8. /\ Range(pool.users) \subseteq Range(pool'.users)
      /\ Range(pool.active) \subseteq Range(pool'.active)
  <2>1. /\ \A x \in Users \ {u} : x \in Range(pool'.users) <=> x \in Range(pool.users)
        /\ \A n \in Members \ {None} :
             n \in Range(pool'.active) <=> n \in Range(pool.active)
    BY <1>5 DEF Change, Same
  <2>2. UserFits(pool', u)
    BY <1>3, <1>5, SoundFits DEF Change
  <2>3. Range(pool.users) \subseteq Users /\ Range(pool.active) \subseteq Members
    <3>1. pool.users \in Seq(Users) /\ pool.active \in Seq(Members)
      BY <1>2, SoundFits, PoolFields
    <3> QED
      BY <3>1 DEF Range
  <2> QED
    BY <1>5, <2>1, <2>2, <2>3, PoolAssumption DEF UserFits
<1> QED
  BY <1>1, <1>4, <1>5, <1>6, <1>7, <1>8, ThreadEnds

\* The thread that ends a login ends.
LEMMA EndLoginThreadStep ==
  ASSUME PoolInv, NEW t, NEW ok \in BOOLEAN, NEW written \in BOOLEAN,
         EndLoginThread(t, ok, written)
  PROVE  PoolInv'
<1> DEFINE u == t.u
           m == pool.u[u].member
<1>1. /\ t \in threads /\ t.kind = "end_login" /\ threads' = threads \ {t}
      /\ events' = <<[t EXCEPT !.ok = ok]>> \o events
      /\ UNCHANGED <<loop, client, server>>
      /\ pool' = IF ok THEN LoginAck(pool, u, m, written)
                       ELSE [pool EXCEPT !.m[m].session = u]
  BY DEF EndLoginThread, MemberOf
<1>2. t \in Job /\ Works(pool, t) /\ Sound(pool)
  BY <1>1 DEF PoolInv, Jobs, JobsOf
<1>3. /\ u \in Users /\ t.m = None /\ m # None
      /\ MuteUser(pool, u) /\ MuteMember(pool, m) /\ ~pool.m[m].async
  BY <1>1, <1>2 DEF Works
<1>4. Own(pool, t, u, m)
  BY <1>1 DEF Own
<1>5. m \in Members /\ u = pool.m[m].user /\ u # None
  <2>1. UserFits(pool, u) /\ pool.u[u] \in UserRec
    BY <1>2, <1>3, SoundFits
  <2> QED
    BY <1>3, <2>1, UserFields, PoolAssumption DEF UserFits
<1>6. pool.u[u] \in UserRec /\ pool.m[m] \in MemberRec
  BY <1>2, <1>3, <1>5, SoundFits
<1>7. pool.u[u].member = m
  OBVIOUS
<1> HIDE DEF u, m
<1> DEFINE r0 == pool.u[u]
           s == [pool.m[m] EXCEPT !.session = u]
           r1 == [pool.u[u] EXCEPT !.login = FALSE, !.version = FirstVersion,
                                   !.dead = ~written]
<1>8. /\ Change(pool, pool', u, m)
      /\ Touches(pool, pool', u, r1, m, s) \/ Touches(pool, pool', u, r0, m, s)
  <2>1. CASE ok
    BY <1>1, <1>2, <1>5, <2>1, LoginAckChanges
  <2>2. CASE ~ok
    BY <1>1, <1>2, <1>5, <2>2, SessionChanges
  <2> QED
    BY <2>1, <2>2
<1>9. /\ ~s.recv /\ ~s.send /\ ~s.async
      /\ ~r0.recv /\ ~r0.send /\ r0.member = m
      /\ ~r1.recv /\ ~r1.send /\ r1.member = m
  BY <1>3, <1>6, <1>7 DEF MuteUser, MuteMember, UserRec, MemberRec
<1> HIDE DEF r0, r1, s
<1>10. /\ pool'.u[u] \in {r0, r1} /\ pool'.m[m] = s
       /\ pool'.users = pool.users /\ pool'.active = pool.active
  BY <1>8 DEF Touches
<1>11. /\ ~pool'.u[u].recv /\ ~pool'.u[u].send /\ pool'.u[u].member = m
  BY <1>9, <1>10
<1>12. Works(pool', t)
  BY <1>1, <1>3, <1>9, <1>10, <1>11 DEF Works, MuteUser, MuteMember, u
<1>13. Told(pool', [t EXCEPT !.ok = ok])
  <2>1. [t EXCEPT !.ok = ok].kind = "end_login"
    BY <1>1, <1>2 DEF Job
  <2> QED
    BY <2>1 DEF Told
<1> QED
  BY <1>1, <1>4, <1>8, <1>10, <1>12, <1>13, ThreadEnds

\* The thread of connect_proc ends.
LEMMA ConnectThreadStep ==
  ASSUME PoolInv, NEW t, NEW ok \in BOOLEAN, NEW v \in Versions,
         NEW written \in BOOLEAN, ConnectThread(t, ok, v, written)
  PROVE  PoolInv'
<1> DEFINE m == t.m
           u == pool.m[m].user
           up == [pool EXCEPT !.m[m].tds = TRUE, !.m[m].version = v]
<1>1. /\ t \in threads /\ t.kind = "connect" /\ threads' = threads \ {t}
      /\ events' = <<[t EXCEPT !.ok = ok]>> \o events
      /\ UNCHANGED <<loop, client, server>>
      /\ pool' \in IF ok THEN {LoginAck(up, u, m, written)} ELSE {pool, up}
  BY DEF ConnectThread, UserOf
<1>2. t \in Job /\ Works(pool, t) /\ Sound(pool)
  BY <1>1 DEF PoolInv, Jobs, JobsOf
<1>3. /\ m \in Members /\ t.u = None /\ u # None
      /\ MuteUser(pool, u) /\ MuteMember(pool, m) /\ pool.m[m].async
  BY <1>1, <1>2 DEF Works
<1>4. Own(pool, t, u, m)
  BY <1>1 DEF Own
<1>5. /\ u \in Users /\ pool.u[u] \in UserRec /\ pool.m[m] \in MemberRec
      /\ Partners(pool, u, m) /\ u = pool.m[m].user
  BY <1>2, <1>3, JoinedAgree
<1> DEFINE s1 == [pool.m[m] EXCEPT !.tds = TRUE, !.version = v]
           r2 == [pool.u[u] EXCEPT !.login = FALSE, !.version = FirstVersion,
                                   !.dead = ~written]
           s2 == [s1 EXCEPT !.session = u]
<1> HIDE DEF u, m
<1>6. Change(pool, up, u, m) /\ Touches(pool, up, u, pool.u[u], m, s1)
  BY <1>2, <1>3, <1>5, UpChanges
<1>7. /\ s1.tds /\ s1.async /\ s1.user = u /\ ~s1.recv /\ ~s1.send
      /\ s2.tds /\ s2.async /\ s2.user = u /\ ~s2.recv /\ ~s2.send
      /\ ~r2.recv /\ ~r2.send
  <2>1. /\ s1.tds /\ s1.async /\ s1.user = u /\ ~s1.recv /\ ~s1.send
        /\ s1 \in MemberRec
    BY <1>3, <1>5 DEF MuteMember, MemberRec
  <2> HIDE DEF s1
  <2>2. s2.tds /\ s2.async /\ s2.user = u /\ ~s2.recv /\ ~s2.send
    BY <2>1 DEF MemberRec
  <2>3. ~r2.recv /\ ~r2.send
    BY <1>3, <1>5 DEF MuteUser, UserRec
  <2> QED
    BY <2>1, <2>2, <2>3
<1> HIDE DEF up, s1
<1>8. /\ Change(pool, pool', u, m)
      /\ pool'.users = pool.users /\ pool'.active = pool.active
      /\ ~pool'.u[u].recv /\ ~pool'.u[u].send
      /\ pool'.m[m].async /\ pool'.m[m].user = u
      /\ ~pool'.m[m].recv /\ ~pool'.m[m].send
      /\ ok => pool'.m[m].tds
  <2>1. CASE ok
    <3>1. pool' = LoginAck(up, u, m, written)
      BY <1>1, <2>1
    <3>2. /\ Sound(up) /\ up.m[m] = s1 /\ up.u[u] = pool.u[u]
          /\ up.users = pool.users /\ up.active = pool.active
      BY <1>6 DEF Change, Touches
    <3>3. u = up.m[m].user
      BY <1>7, <3>2
    <3>4. /\ Change(up, pool', u, m)
          /\ Touches(up, pool', u, r2, m, s2)
      BY <1>3, <3>1, <3>2, <3>3, LoginAckChanges
    <3>5. Change(pool, pool', u, m)
      BY <1>6, <3>4, ChangesCompose
    <3> HIDE DEF r2, s2
    <3> QED
      BY <1>7, <3>2, <3>4, <3>5 DEF Touches
  <2>2. CASE pool' = up /\ ~ok
    <3> HIDE DEF r2, s2
    <3> QED
      BY <1>3, <1>6, <1>7, <2>2 DEF Touches, MuteUser
  <2>3. CASE pool' = pool /\ ~ok
    <3>1. Pair(pool, u, m)
      BY <1>5 DEF Pair, Partners
    <3> QED
      BY <1>2, <1>3, <1>5, <2>3, <3>1, ChangesNone DEF MuteUser, MuteMember
  <2> QED
    BY <1>1, <2>1, <2>2, <2>3
<1>9. Works(pool', t)
  BY <1>1, <1>3, <1>8 DEF Works, MuteUser, MuteMember, m
<1>10. Told(pool', [t EXCEPT !.ok = ok])
  <2>1. /\ [t EXCEPT !.ok = ok].kind = "connect" /\ [t EXCEPT !.ok = ok].m = m
        /\ [t EXCEPT !.ok = ok].ok = ok
    BY <1>1, <1>2 DEF Job, m
  <2> QED
    BY <1>8, <2>1 DEF Told
<1> QED
  BY <1>1, <1>4, <1>8, <1>9, <1>10, ThreadEnds

\* What a step of the loop leaves: u and m were touched, and a thread may
\* work on them.
Leaves(p, r, u, m) ==
  /\ Change(p, r.pool, u, m)
  /\ \/ r.runs = {}
     \/ \E j \in Job : /\ r.runs = {j} /\ Works(r.pool, j)
                       /\ j.u \in {None, u} /\ j.m \in {None, m}

\* The jobs after it, when none was about u or m.
LEMMA LeavesJobs ==
  ASSUME NEW p, NEW T, NEW E, NEW B, JobsOf(p, T, E, B), NEW r, NEW u, NEW m,
         Leaves(p, r, u, m), \A e \in AllJobs(T, E, B) : Clear(u, m, e)
  PROVE  JobsOf(r.pool, T \cup r.runs, E, B)
<1>1. JobsOf(r.pool, T, E, B)
  BY JobsAside DEF Leaves
<1>2. CASE r.runs = {}
  BY <1>1, <1>2
<1>3. ASSUME NEW j \in Job, r.runs = {j}, Works(r.pool, j),
             j.u \in {None, u}, j.m \in {None, m}
      PROVE  JobsOf(r.pool, T \cup r.runs, E, B)
  <2>1. \A e \in AllJobs(T, E, B) : Apart(j, e)
    BY <1>3, ClearApart
  <2>2. JobsOf(r.pool, T \cup {j}, E, B)
    BY <1>1, <1>3, <2>1, JobStarts
  <2> QED
    BY <1>3, <2>2
<1> QED
  BY <1>2, <1>3 DEF Leaves

\* A record that may be allocated is one of the members that are free.
LEMMA NewMembers ==
  ASSUME NEW p, Sound(p), NEW new \in NewMember(p)
  PROVE  /\ new \in Members \cup {None}
         /\ p.num_active < MaxOpen => new \in Unallocated(p)
BY RoomLeft DEF NewMember, Unallocated

\* The own records of a job, and their user is not free.
LEMMA OwnUser ==
  ASSUME NEW p, Sound(p), NEW a \in Job, Works(p, a), NEW u, NEW m,
         Own(p, a, u, m)
  PROVE  u \in Users /\ p.u[u].st # "free"
<1>1. CASE a.kind = "login"
  BY <1>1 DEF Works, Own
<1>2. CASE a.kind = "end_login"
  <2>1. u \in Users /\ p.u[u].member # None
    BY <1>2 DEF Works, Own
  <2>2. UserFits(p, u)
    BY <2>1, SoundFits
  <2> QED
    BY <2>1, <2>2 DEF UserFits
<1>3. CASE a.kind = "connect"
  <2>1. m \in Members /\ u = p.m[m].user /\ u # None
    BY <1>3 DEF Works, Own
  <2> QED
    BY <2>1, JoinedAgree
<1> QED
  BY <1>1, <1>2, <1>3 DEF Own

\* What an event does is done to the records it is about.
LEMMA EventLeaves ==
  ASSUME Sound(pool), NEW a \in Job, Works(pool, a), Told(pool, a),
         NEW alloc \in BOOLEAN, NEW thread \in BOOLEAN, NEW clean \in BOOLEAN,
         NEW new \in NewMember(pool),
         NEW r, r = EventResult(a, alloc, thread, new, clean)
  PROVE  \E u, m : Own(pool, a, u, m) /\ Leaves(pool, r, u, m)
<1>1. a.kind \in {"login", "end_login", "connect"} /\ a.ok \in BOOLEAN
  BY DEF Job
<1>2. CASE a.kind = "login"
  <2> DEFINE u == a.u
  <2>1. u \in Users /\ pool.u[u].st = "query" /\ pool.u[u].member = None
    BY <1>2 DEF Works
  <2>2. CASE a.ok
    <3> DEFINE p == [pool EXCEPT !.u[u].recv = TRUE]
    <3>1. r = UserQuery(p, u, alloc, thread, new)
      BY <1>2, <2>2 DEF EventResult
    <3>2. pool.u[u].login
      BY <1>2, <2>2 DEF Told
    <3>3. Asks(p, pool, u)
      <4> HIDE DEF u
      <4> QED
        BY <2>1, <3>2, AsksAfterLogin, Zenon
    <3> HIDE DEF p, u
    <3>4. /\ new \in Members \cup {None}
          /\ pool.num_active < MaxOpen => new \in Unallocated(pool)
      BY NewMembers
    <3>5. Answers(pool, r, u)
      BY <3>1, <3>3, <3>4, QueryAnswers
    <3>6. PICK m \in Members \cup {None} :
            /\ m # None => pool.m[m].user = None
            /\ Leaves(pool, r, u, m)
      BY <3>5 DEF Answers, Leaves
    <3>7. Own(pool, a, u, m)
      BY <1>2, <3>6 DEF Own, u
    <3> QED
      BY <3>6, <3>7
  <2>3. CASE ~a.ok
    <3>1. r.pool = FreeUser(pool, u, clean) /\ r.runs = {}
      BY <1>2, <2>3 DEF EventResult
    <3> HIDE DEF u
    <3>2. Change(pool, FreeUser(pool, u, clean), u, None)
      BY <2>1, FreeUserChanges
    <3>3. Own(pool, a, u, None)
      BY <1>2 DEF Own, u
    <3> QED
      BY <3>1, <3>2, <3>3 DEF Leaves
  <2> QED
    BY <1>1, <2>2, <2>3
<1>3. CASE a.kind = "end_login"
  <2> DEFINE u == a.u
             m == pool.u[u].member
  <2>1. /\ u \in Users /\ m # None /\ MuteUser(pool, u)
        /\ MuteMember(pool, m) /\ ~pool.m[m].async
    BY <1>3 DEF Works
  <2>2. m \in Members /\ u = pool.m[m].user /\ u # None
    <3>1. UserFits(pool, u) /\ pool.u[u] \in UserRec
      BY <2>1, SoundFits
    <3> QED
      BY <2>1, <3>1, UserFields, PoolAssumption DEF UserFits
  <2>3. Own(pool, a, u, m)
    BY <1>3 DEF Own
  <2>4. /\ a.ok => r.pool = LoginEnded(pool, u)
        /\ ~a.ok => r.pool = FreeMember(pool, m)
        /\ r.runs = {}
    BY <1>1, <1>3 DEF EventResult, MemberOf
  <2> HIDE DEF u, m
  <2>5. CASE a.ok
    BY <2>1, <2>2, <2>3, <2>4, <2>5, LoginEndedChanges DEF Leaves
  <2>6. CASE ~a.ok
    BY <2>2, <2>3, <2>4, <2>6, FreeMemberChanges DEF Leaves
  <2> QED
    BY <2>5, <2>6
<1>4. CASE a.kind = "connect"
  <2> DEFINE m == a.m
             u == pool.m[m].user
  <2>1. /\ m \in Members /\ u # None /\ MuteUser(pool, u)
        /\ MuteMember(pool, m)
    BY <1>4 DEF Works
  <2>2. Own(pool, a, u, m)
    BY <1>4 DEF Own
  <2>3. /\ a.ok => r.pool = Connected(pool, m) /\ pool.m[m].tds
        /\ ~a.ok => r.pool = FreeMember(pool, m)
        /\ r.runs = {}
    BY <1>1, <1>4 DEF EventResult, Told
  <2>4. u = pool.m[m].user
    OBVIOUS
  <2> HIDE DEF u, m
  <2>5. CASE a.ok
    BY <2>1, <2>2, <2>3, <2>4, <2>5, ConnectedChanges DEF Leaves
  <2>6. CASE ~a.ok
    BY <2>1, <2>2, <2>3, <2>4, <2>6, FreeMemberChanges DEF Leaves
  <2> QED
    BY <2>5, <2>6
<1> QED
  BY <1>1, <1>2, <1>3, <1>4

\* The loop executes an event.
LEMMA ExecuteEventStep ==
  ASSUME PoolInv, NEW alloc \in BOOLEAN, NEW thread \in BOOLEAN,
         NEW clean \in BOOLEAN, NEW new \in NewMember(pool),
         ExecuteEvent(alloc, thread, new, clean)
  PROVE  PoolInv'
<1> DEFINE a == Head(loop.batch)
           B == Tail(loop.batch)
           r == EventResult(a, alloc, thread, new, clean)
<1>1. /\ loop.at = "events" /\ loop.batch # <<>>
      /\ pool' = r.pool /\ threads' = threads \cup r.runs /\ Reset(r.pool)
      /\ loop' = [loop EXCEPT !.batch = B] /\ events' = events
  BY DEF ExecuteEvent
<1>2. Sound(pool) /\ JobsOf(pool, threads, events, loop.batch)
  BY DEF PoolInv, Jobs
<1> HIDE DEF r
<1>3. /\ a \in Job /\ Works(pool, a) /\ Told(pool, a)
      /\ JobsOf(pool, threads, events, B)
      /\ \A e \in AllJobs(threads, events, B) : Apart(a, e)
  BY <1>1, <1>2, JobTaken
<1>4. B \in Seq(Job)
  BY <1>3 DEF JobsOf
<1> HIDE DEF a, B
<1>5. PICK u, m : Own(pool, a, u, m) /\ Leaves(pool, r, u, m)
  BY <1>2, <1>3, EventLeaves DEF r
<1>6. \A e \in AllJobs(threads, events, B) : Clear(u, m, e)
  <2> SUFFICES ASSUME NEW e \in AllJobs(threads, events, B)
               PROVE  Clear(u, m, e)
    OBVIOUS
  <2>1. e \in Job /\ Works(pool, e) /\ Apart(a, e)
    BY <1>3, JobsKnown
  <2> QED
    BY <1>2, <1>3, <1>5, <2>1, OwnClear
<1>7. JobsOf(r.pool, threads \cup r.runs, events, B)
  BY <1>3, <1>5, <1>6, LeavesJobs
<1>8. /\ loop'.at = "events" /\ loop'.batch = B
      /\ Looping'
  BY <1>1, <1>4 DEF PoolInv, Looping
<1>9. Jobs'
  BY <1>1, <1>7, <1>8 DEF Jobs
<1>10. u \in Users => pool.u[u].st # "free"
  BY <1>2, <1>3, <1>5, OwnUser
<1>11. Peers'
  BY <1>1, <1>5, <1>10, PeersTouched DEF PoolInv, Leaves
<1> QED
  BY <1>1, <1>5, <1>8, <1>9, <1>11 DEF PoolInv, Leaves, Change

\* A connection that is touched as well.
LEMMA ChangeWidens ==
  ASSUME NEW p, NEW q, NEW u, NEW m \in Members, Change(p, q, u, None),
         p.m[m].user = None, u \in Users => p.u[u].member = None
  PROVE  Change(p, q, u, m)
BY PoolAssumption DEF Change, Same, Pair

\* The first waiter is tried again.
LEMMA WaiterLeaves ==
  ASSUME NEW p, Sound(p), NEW u \in Range(p.waiters),
         NEW alloc \in BOOLEAN, NEW thread \in BOOLEAN,
         NEW new \in NewMember(p),
         NEW r, r = UserQuery(Requeue(p, u), u, alloc, thread, new)
  PROVE  /\ u \in Users /\ p.u[u].st = "wait"
         /\ \E m \in Members \cup {None} :
              /\ m # None => p.m[m].user = None
              /\ Leaves(p, r, u, m)
<1> DEFINE q == Requeue(p, u)
<1>1. /\ u \in Users /\ p.u[u].st = "wait" /\ Change(p, q, u, None)
      /\ q.u[u].st = "query" /\ q.u[u].member = None /\ q.u[u].login
      /\ q.m = p.m
  BY Requeued
<1> HIDE DEF q
<1>2. Sound(q)
  BY <1>1 DEF Change
<1>3. Asks(q, q, u)
  BY <1>1, <1>2, AsksAfterWait
<1>4. /\ new \in Members \cup {None}
      /\ q.num_active < MaxOpen => new \in Unallocated(q)
  <2>1. NewMember(q) = NewMember(p)
    BY <1>1 DEF NewMember, Unallocated
  <2> QED
    BY <1>2, <2>1, NewMembers
<1>5. Answers(q, r, u)
  BY <1>3, <1>4, QueryAnswers DEF q
<1>6. PICK m \in Members \cup {None} :
        /\ m # None => q.m[m].user = None
        /\ Leaves(q, r, u, m)
  BY <1>5 DEF Answers, Leaves
<1>7. m # None => p.m[m].user = None
  BY <1>1, <1>6
<1>8. p.u[u].member = None
  <2>1. UserFits(p, u)
    BY <1>1, SoundFits
  <2> QED
    BY <1>1, <2>1 DEF UserFits
<1>9. Change(p, q, u, m)
  BY <1>1, <1>6, <1>7, <1>8, ChangeWidens
<1>10. Leaves(p, r, u, m)
  BY <1>6, <1>9, ChangesCompose DEF Leaves
<1> QED
  BY <1>1, <1>7, <1>10

\* The loop tries the first waiter again.
LEMMA ScheduleWaitersStep ==
  ASSUME PoolInv, NEW alloc \in BOOLEAN, NEW thread \in BOOLEAN,
         NEW new \in NewMember(pool), ScheduleWaiters(alloc, thread, new)
  PROVE  PoolInv'
<1> DEFINE u == Head(pool.waiters)
           r == UserQuery(Requeue(pool, u), u, alloc, thread, new)
<1>1. Sound(pool) /\ JobsOf(pool, threads, events, loop.batch)
  BY DEF PoolInv, Jobs
<1>2. /\ loop.at = "waiters" /\ events' = events
      /\ loop' = [loop EXCEPT !.at = "select", !.accept = FALSE]
  BY DEF ScheduleWaiters
<1>3. loop'.batch = loop.batch /\ Looping'
  BY <1>2 DEF PoolInv, Looping
<1>4. CASE ~(pool.waiters # <<>> /\ pool.idle # <<>>)
  <2>1. pool' = pool /\ threads' = threads /\ UNCHANGED <<client, server>>
    BY <1>4 DEF ScheduleWaiters
  <2> QED
    BY <1>2, <1>3, <2>1 DEF PoolInv, Jobs, Peers
<1>5. CASE pool.waiters # <<>> /\ pool.idle # <<>>
  <2>1. pool' = r.pool /\ threads' = threads \cup r.runs /\ Reset(r.pool)
    BY <1>5 DEF ScheduleWaiters
  <2>2. u \in Range(pool.waiters)
    <3>1. pool.waiters \in Seq(Users)
      BY <1>1, SoundFits, PoolFields
    <3>2. Len(pool.waiters) \in Nat \ {0} /\ u = pool.waiters[1]
      BY <1>5, <3>1, HeadTailProperties, LenProperties, EmptySeq
    <3> QED
      BY <3>1, <3>2, LenProperties DEF Range
  <2>3. r = UserQuery(Requeue(pool, u), u, alloc, thread, new)
    OBVIOUS
  <2> HIDE DEF r, u
  <2>4. /\ u \in Users /\ pool.u[u].st = "wait"
        /\ \E m \in Members \cup {None} :
             /\ m # None => pool.m[m].user = None
             /\ Leaves(pool, r, u, m)
    BY <1>1, <2>2, <2>3, WaiterLeaves
  <2>5. PICK m \in Members \cup {None} :
          /\ m # None => pool.m[m].user = None
          /\ Leaves(pool, r, u, m)
    BY <2>4
  <2>6. \A e \in AllJobs(threads, events, loop.batch) : Clear(u, m, e)
    <3> SUFFICES ASSUME NEW e \in AllJobs(threads, events, loop.batch)
                 PROVE  Clear(u, m, e)
      OBVIOUS
    <3>1. e \in Job /\ Works(pool, e)
      BY <1>1, JobsKnown
    <3> QED
      BY <1>1, <2>4, <2>5, <3>1, NoJob DEF Clear
  <2>7. JobsOf(r.pool, threads \cup r.runs, events, loop.batch)
    BY <1>1, <2>5, <2>6, LeavesJobs
  <2>8. Jobs'
    BY <1>2, <1>3, <2>1, <2>7 DEF Jobs
  <2>9. Peers'
    BY <2>1, <2>4, <2>5, PeersTouched DEF PoolInv, Leaves
  <2> QED
    BY <1>3, <2>1, <2>5, <2>8, <2>9 DEF PoolInv, Leaves, Change
<1> QED
  BY <1>4, <1>5

\* The loop accepts a client.
LEMMA AcceptStep ==
  ASSUME PoolInv, NEW u \in Users, NEW alloc \in BOOLEAN,
         NEW thread \in BOOLEAN, Accept(u, alloc, thread)
  PROVE  PoolInv'
<1> DEFINE room == pool.num_users < MaxUsers
           added == Added(pool, u)
           j == [kind |-> "login", u |-> u, m |-> None, ok |-> TRUE]
<1>1. Sound(pool) /\ JobsOf(pool, threads, events, loop.batch) /\ Looping /\ Peers
  BY DEF PoolInv, Jobs
<1>2. /\ loop.at = "accept" /\ client[u] = "dialing" /\ events' = events
      /\ server' = server
      /\ loop' = [loop EXCEPT !.at = "users", !.next = First(pool'.users)]
  BY DEF Accept, Dialing
<1>3. pool.u[u].st = "free"
  BY <1>1, <1>2 DEF Peers
<1>4. \/ /\ room /\ pool' = added /\ threads' = threads \cup {j}
         /\ client' = [client EXCEPT ![u] = "in"]
      \/ /\ room /\ pool' = [added EXCEPT !.u[u].dead = TRUE]
         /\ threads' = threads /\ client' = [client EXCEPT ![u] = "out"]
      \/ /\ pool' = pool
         /\ threads' = threads /\ client' = [client EXCEPT ![u] = "out"]
  <2>1. added = [pool EXCEPT !.users = Append(@, u), !.num_users = @ + 1,
                             !.u[u].st = "query"]
    BY DEF Added
  <2> HIDE DEF j, added
  <2>2. CASE room /\ alloc /\ thread
    BY <2>1, <2>2 DEF Accept, j
  <2>3. CASE room /\ ~alloc
    BY <2>1, <2>3 DEF Accept
  <2>4. CASE ~(room /\ alloc /\ thread) /\ ~(room /\ ~alloc)
    BY <2>4 DEF Accept
  <2> QED
    BY <2>2, <2>3, <2>4
<1>5. /\ client' \in [Users -> {"out", "dialing", "in", "gone"}]
      /\ \A x \in Users : client'[x] = "dialing" => x # u /\ client[x] = "dialing"
  <2>1. client \in [Users -> {"out", "dialing", "in", "gone"}]
    BY <1>1 DEF Peers
  <2> QED
    BY <1>4, <2>1
<1>6. /\ Change(pool, pool', u, None)
      /\ threads' = threads
         \/ /\ threads' = threads \cup {j}
            /\ pool'.u[u].st = "query" /\ pool'.u[u].member = None
  <2>1. CASE pool' = pool /\ threads' = threads
    <3>1. pool.u[u].member = None
      <4>1. UserFits(pool, u)
        BY <1>1, SoundFits
      <4> QED
        BY <1>3, <4>1 DEF UserFits, FreshUser
    <3>2. Pair(pool, u, None)
      BY <3>1, PoolAssumption DEF Pair
    <3>3. Change(pool, pool, u, None)
      BY <1>1, <3>2, ChangesNone
    <3> QED
      BY <2>1, <3>3
  <2>2. CASE /\ room /\ threads' \in {threads, threads \cup {j}}
             /\ pool' \in {added, [added EXCEPT !.u[u].dead = TRUE]}
    <3> HIDE DEF j
    <3>1. /\ Change(pool, pool', u, None)
          /\ pool'.u[u].st = "query" /\ pool'.u[u].member = None
      BY <1>1, <1>3, <2>2, AddedChanges
    <3> QED
      BY <2>2, <3>1
  <2> QED
    BY <1>4, <2>1, <2>2
<1> DEFINE r == [pool |-> pool', runs |-> threads' \ threads]
<1>7. j \in Job /\ j.kind = "login" /\ j.u = u /\ j.m = None
  BY DEF Job
<1> HIDE DEF j
<1>8. Leaves(pool, r, u, None)
  <2>1. r.pool = pool' /\ (r.runs = {} \/ r.runs = {j})
    BY <1>6
  <2>2. r.runs = {j} => Works(r.pool, j)
    BY <1>6, <1>7, <2>1 DEF Works
  <2> QED
    BY <1>6, <1>7, <2>1, <2>2 DEF Leaves
<1>9. r.pool = pool' /\ threads \cup r.runs = threads'
  BY <1>6
<1> HIDE DEF r
<1>10. \A e \in AllJobs(threads, events, loop.batch) : Clear(u, None, e)
  <2> SUFFICES ASSUME NEW e \in AllJobs(threads, events, loop.batch)
               PROVE  Clear(u, None, e)
    OBVIOUS
  <2>1. e \in Job /\ Works(pool, e)
    BY <1>1, JobsKnown
  <2> QED
    BY <1>1, <1>3, <2>1, NoJob DEF Clear
<1>11. JobsOf(pool', threads', events, loop.batch)
  BY <1>1, <1>8, <1>9, <1>10, LeavesJobs
<1>12. Sound(pool') /\ pool'.users \in Seq(Users) /\ Lists(pool')
  <2>1. Sound(pool')
    BY <1>6 DEF Change
  <2> QED
    BY <2>1, SoundFits, PoolFields DEF Sound
<1>13. First(pool'.users) \in Range(pool'.users) \cup {None}
  <2>1. CASE pool'.users = <<>>
    BY <2>1 DEF First
  <2>2. CASE pool'.users # <<>>
    <3>1. 1 \in DOMAIN pool'.users
      BY <1>12, <2>2, EmptySeq, LenProperties
    <3>2. \E x \in Range(pool'.users) : TRUE
      BY <3>1 DEF Range
    <3> QED
      BY <1>12, <3>2, Follows DEF Lists
  <2> QED
    BY <2>1, <2>2
<1>14. loop'.batch = loop.batch /\ Looping'
  <2>1. Range(pool'.users) \subseteq Users
    BY <1>12 DEF Range
  <2> QED
    BY <1>1, <1>2, <1>13, <2>1 DEF Looping
<1>15. Jobs'
  BY <1>2, <1>11, <1>14 DEF Jobs
<1>16. Peers'
  <2>1. \A x \in Users \ {u} : pool'.u[x] = pool.u[x]
    BY <1>6 DEF Change, Same
  <2> QED
    BY <1>1, <1>2, <1>5, <2>1 DEF Peers
<1> QED
  BY <1>12, <1>14, <1>15, <1>16 DEF PoolInv

---------------------------------------------------------------------------
(* The turns of users and members.                                         *)

\* Who is read is freed, or has its packets forwarded.
LEMMA UserReadChanges ==
  ASSUME NEW p, Sound(p), NEW m \in Members, NEW u, u = p.m[m].user, u # None,
         ~p.m[m].async, NEW clean \in BOOLEAN,
         NEW how \in {"done", "partial", "closed", "failed"},
         NEW q, q = UserRead(p, u, how, clean)
  PROVE  /\ Change(p, q, u, m)
         /\ q.u[u].send => q.m[m].user = u /\ ~q.m[m].async
<1>1. /\ u \in Users /\ p.u[u].st = "query" /\ p.u[u].member = m
      /\ p.u[u] \in UserRec /\ p.m[m] \in MemberRec
      /\ Agree(p.u[u], p.m[m], u) /\ p \in PoolRec
  BY JoinedAgree, SoundFits
<1>2. p.m[m].tds
  BY <1>1 DEF Agree
<1>3. p.u \in [Users -> UserRec]
  BY <1>1, PoolFields
<1>4. MemberOf(p, u) = m
  BY <1>1 DEF MemberOf
<1>5. CASE how \in {"done", "partial"}
  <2> DEFINE a == [p EXCEPT !.m[m].session = u]
             all == how = "done"
             s1 == [p.m[m] EXCEPT !.session = u]
             s2 == [s1 EXCEPT !.send = ~all]
             r2 == [p.u[u] EXCEPT !.part = ~all, !.recv = all]
  <2>1. q = WriteUserToMember(a, u, m, all)
    BY <1>4, <1>5 DEF UserRead
  <2>2. Change(p, a, u, m) /\ Touches(p, a, u, p.u[u], m, s1)
    BY SessionChanges
  <2>3. s1.user = u /\ ~s1.async /\ s1 \in MemberRec /\ all \in BOOLEAN
    BY <1>1 DEF MemberRec
  <2>4. s2.user = u /\ ~s2.async
    <3> HIDE DEF s1, all
    <3> QED
      BY <2>3 DEF MemberRec
  <2> HIDE DEF a, all, s1, r2
  <2>5. Sound(a) /\ a.m[m] = s1 /\ a.u[u] = p.u[u]
    BY <2>2 DEF Change, Touches
  <2>6. Change(a, q, u, m) /\ Touches(a, q, u, r2, m, s2)
    BY <2>1, <2>3, <2>5, UserToMemberChanges DEF r2
  <2> HIDE DEF s2
  <2>7. Change(p, q, u, m) /\ q.m[m] = s2
    BY <2>2, <2>6, ChangesCompose DEF Touches
  <2> QED
    BY <2>4, <2>7
<1>6. CASE how = "closed"
  <2>1. q = FreeUser(p, u, clean)
    BY <1>6 DEF UserRead
  <2>2. /\ Change(p, q, u, m) /\ Gone(p, q, u, m, clean /\ m # None)
    BY <1>1, <1>2, <2>1, FreeUserChanges
  <2>3. q.u[u] = FreshUser
    BY <1>1, <1>3, <2>2 DEF Gone
  <2> QED
    BY <2>2, <2>3 DEF FreshUser
<1>7. CASE how = "failed"
  <2>1. q = ResetMember(p, m, clean)
    BY <1>4, <1>7 DEF UserRead
  <2>2. /\ Change(p, q, u, m) /\ Gone(p, q, u, m, clean)
    BY <1>1, <1>2, <2>1, ResetMemberChanges
  <2>3. q.u[u] = FreshUser
    BY <1>1, <1>3, <2>2 DEF Gone
  <2> QED
    BY <2>2, <2>3 DEF FreshUser
<1> QED
  BY <1>5, <1>6, <1>7

\* What a client did not take is sent to it again.
LEMMA UserWriteChanges ==
  ASSUME NEW p, Sound(p), NEW m \in Members, NEW u, u = p.m[m].user, u # None,
         ~p.m[m].async, NEW how, NEW q, q = UserWrite(p, u, how)
  PROVE  Change(p, q, u, m)
<1>1. MemberOf(p, u) = m
  BY JoinedAgree DEF MemberOf
<1>2. CASE how = "failed"
  BY <1>1, <1>2, FreeMemberChanges DEF UserWrite
<1>3. CASE how # "failed"
  <2> DEFINE all == how = "done"
  <2>1. q = WriteMemberToUser(p, m, u, all) /\ all \in BOOLEAN
    BY <1>1, <1>3 DEF UserWrite
  <2> HIDE DEF all
  <2> QED
    BY <2>1, MemberToUserChanges
<1> QED
  BY <1>2, <1>3

\* No job is about a pair whose turn it is: a step on them keeps the rest.
LEMMA TurnKeeps ==
  ASSUME PoolInv, threads' = threads, events' = events, loop'.batch = loop.batch,
         NEW m \in Members, NEW u, u = pool.m[m].user, u # None,
         Change(pool, pool', u, m), Reset(pool'),
         ~(MuteUser(pool, u) /\ MuteMember(pool, m))
  PROVE  Sound(pool') /\ Jobs' /\ Peers'
<1>1. Sound(pool) /\ JobsOf(pool, threads, events, loop.batch)
  BY DEF PoolInv, Jobs
<1>2. \A e \in AllJobs(threads, events, loop.batch) : Clear(u, m, e)
  BY <1>1, JobsKnown, BusyClear
<1>3. JobsOf(pool', threads, events, loop.batch)
  BY <1>1, <1>2, JobsAside
<1>4. Jobs'
  BY <1>3 DEF Jobs
<1>5. pool.u[u].st # "free"
  BY <1>1, JoinedAgree
<1>6. Peers'
  BY <1>5, PeersTouched DEF PoolInv
<1> QED
  BY <1>4, <1>6 DEF Change

\* Nothing happened to the pool.
LEMMA PoolStays ==
  ASSUME PoolInv, threads' = threads, events' = events, loop'.batch = loop.batch,
         pool' = pool, Reset(pool') \/ UNCHANGED <<client, server>>
  PROVE  Sound(pool') /\ Jobs' /\ Peers'
<1>1. \A x \in Users : client'[x] = "dialing" => client[x] = "dialing"
  BY DEF PoolInv, Reset, Peers
<1>2. /\ client' \in [Users -> {"out", "dialing", "in", "gone"}]
      /\ server' \in [Members -> {"up", "closed"}]
  BY DEF PoolInv, Reset, Peers
<1> QED
  BY <1>1, <1>2 DEF PoolInv, Jobs, Peers

\* The loop serves a user and goes to the next.
LEMMA UserTurnStep ==
  ASSUME PoolInv, NEW clean \in BOOLEAN, UserTurn(clean)
  PROVE  PoolInv'
<1> DEFINE u == loop.next
           m == pool.u[u].member
           y == After(pool.users, u)
<1>1. /\ loop.at = "users" /\ u # None /\ threads' = threads /\ events' = events
      /\ loop' = [loop EXCEPT !.next = y]
  BY DEF UserTurn
<1>2. Sound(pool) /\ Looping
  BY DEF PoolInv
<1>3. u \in Range(pool.users)
  BY <1>1, <1>2 DEF Looping
<1>4. pool.users \in Seq(Users) /\ IsInjective(pool.users)
  BY <1>2, SoundFits, PoolFields DEF Sound, Lists
<1>5. u \in Users /\ Range(pool.users) \subseteq Users
  BY <1>3, <1>4 DEF Range
<1>6. UserFits(pool, u) /\ pool.u[u] \in UserRec
  BY <1>2, <1>5, SoundFits
<1>7. loop'.at = "users" /\ loop'.next = y /\ loop'.batch = loop.batch
  BY <1>1, <1>2 DEF Looping
<1>8. y \in (Range(pool.users) \ {u}) \cup {None}
  BY <1>3, <1>4, Follows
<1>9. ASSUME y \in Range(pool'.users) \cup {None} PROVE Looping'
  <2>1. y \in Users \cup {None}
    BY <1>5, <1>8
  <2> HIDE DEF y
  <2> QED
    BY <1>1, <1>2, <1>9, <2>1 DEF Looping
<1>10. /\ Reset(pool')
       /\ \/ pool' = pool
          \/ /\ m \in Members /\ u = pool.m[m].user
             /\ Change(pool, pool', u, m)
             /\ ~(MuteUser(pool, u) /\ MuteMember(pool, m))
  <2>1. PICK reads \in BOOLEAN, writes \in BOOLEAN :
          \E how \in IF pool.u[u].recv THEN UserReads(pool, u) ELSE {"done"},
             out \in ToUser(u) :
            LET p == IF pool.u[u].recv /\ reads
                     THEN UserRead(pool, u, how, clean) ELSE pool
                q == IF p.u[u].send /\ writes
                     THEN UserWrite(p, u, out) ELSE p
            IN  pool' = q /\ Reset(q)
    BY DEF UserTurn, Ready
  <2>2. PICK how \in {"done", "partial", "closed", "failed"},
             out \in ToUser(u) :
          LET p == IF pool.u[u].recv /\ reads
                   THEN UserRead(pool, u, how, clean) ELSE pool
              q == IF p.u[u].send /\ writes
                   THEN UserWrite(p, u, out) ELSE p
          IN  pool' = q /\ Reset(q)
    <3>1. UserReads(pool, u) \subseteq {"done", "partial", "closed", "failed"}
      BY DEF UserReads
    <3> QED
      BY <2>1, <3>1
  <2> DEFINE p == IF pool.u[u].recv /\ reads
                  THEN UserRead(pool, u, how, clean) ELSE pool
  <2>3. /\ Reset(pool')
        /\ pool' = IF p.u[u].send /\ writes THEN UserWrite(p, u, out) ELSE p
    BY <2>2
  <2>4. CASE ~pool.u[u].recv /\ ~pool.u[u].send
    BY <2>3, <2>4
  <2>5. CASE pool.u[u].recv \/ pool.u[u].send
    <3>1. m \in Members /\ pool.m[m].user = u /\ m # None
      BY <1>6, <2>5, UserFields, PoolAssumption DEF UserFits
    <3>2. u = pool.m[m].user
      BY <3>1
    <3>3. ~(MuteUser(pool, u) /\ MuteMember(pool, m))
      BY <2>5 DEF MuteUser
    <3> HIDE DEF u, m
    <3>4. Agree(pool.u[u], pool.m[m], u) /\ Partners(pool, u, m)
      BY <1>1, <1>2, <3>1, <3>2, JoinedAgree
    <3>5. ~pool.m[m].async
      BY <2>5, <3>4 DEF Agree
    <3>6. /\ Change(pool, p, u, m)
          /\ p.u[u].send => p.m[m].user = u /\ ~p.m[m].async
      <4>1. CASE pool.u[u].recv /\ reads
        <5>1. p = UserRead(pool, u, how, clean)
          BY <4>1
        <5> HIDE DEF p
        <5> QED
          BY <1>1, <1>2, <3>1, <3>2, <3>5, <5>1, UserReadChanges
      <4>2. CASE ~(pool.u[u].recv /\ reads)
        <5>1. p = pool
          BY <4>2
        <5>2. Pair(pool, u, m)
          BY <3>4 DEF Pair, Partners
        <5> HIDE DEF p
        <5> QED
          BY <1>2, <3>1, <3>5, <5>1, <5>2, ChangesNone
      <4> QED
        BY <4>1, <4>2
    <3> HIDE DEF p
    <3>7. Change(pool, pool', u, m)
      <4>1. CASE p.u[u].send /\ writes
        <5>1. pool' = UserWrite(p, u, out)
          BY <2>3, <4>1
        <5>2. Sound(p) /\ u = p.m[m].user /\ ~p.m[m].async
          BY <3>6, <4>1 DEF Change
        <5>3. Change(p, pool', u, m)
          BY <1>1, <3>1, <5>1, <5>2, UserWriteChanges
        <5> QED
          BY <3>6, <5>3, ChangesCompose
      <4>2. CASE ~(p.u[u].send /\ writes)
        BY <2>3, <3>6, <4>2
      <4> QED
        BY <4>1, <4>2
    <3> QED
      BY <2>3, <3>1, <3>2, <3>3, <3>7 DEF m
  <2> QED
    BY <2>4, <2>5
<1> HIDE DEF u, m, y
<1>11. CASE pool' = pool
  BY <1>1, <1>7, <1>8, <1>9, <1>10, <1>11, PoolStays DEF PoolInv
<1>12. CASE /\ m \in Members /\ u = pool.m[m].user
            /\ Change(pool, pool', u, m)
            /\ ~(MuteUser(pool, u) /\ MuteMember(pool, m))
  <2>1. Sound(pool') /\ Jobs' /\ Peers'
    BY <1>1, <1>7, <1>10, <1>12, TurnKeeps
  <2>2. y \in Range(pool'.users) \cup {None}
    BY <1>5, <1>8, <1>12 DEF Change, Same
  <2> QED
    BY <1>9, <2>1, <2>2 DEF PoolInv
<1> QED
  BY <1>10, <1>11, <1>12

\* The loop serves a connection and goes to the next.
LEMMA MemberTurnStep ==
  ASSUME PoolInv, NEW clean \in BOOLEAN, MemberTurn(clean)
  PROVE  PoolInv'
<1> DEFINE m == loop.next
           u == pool.m[m].user
           y == After(pool.active, m)
           read == pool.m[m].recv /\ m \in loop.ready
<1>1. /\ loop.at = "members" /\ m # None /\ threads' = threads
      /\ events' = events /\ loop' = [loop EXCEPT !.next = y]
  BY DEF MemberTurn
<1>2. Sound(pool) /\ Looping
  BY DEF PoolInv
<1>3. m \in Range(pool.active)
  BY <1>1, <1>2 DEF Looping
<1>4. pool.active \in Seq(Members) /\ IsInjective(pool.active)
  BY <1>2, SoundFits, PoolFields DEF Sound, Lists
<1>5. m \in Members /\ Range(pool.active) \subseteq Members
  BY <1>3, <1>4 DEF Range
<1>6. u # None
  <2>1. MemberFits(pool, m)
    BY <1>2, <1>5, SoundFits
  <2> QED
    BY <1>3, <2>1 DEF MemberFits
<1>7. loop'.at = "members" /\ loop'.next = y /\ loop'.batch = loop.batch
  BY <1>1, <1>2 DEF Looping
<1>8. y \in (Range(pool.active) \ {m}) \cup {None}
  BY <1>3, <1>4, Follows
<1>9. ASSUME y \in Range(pool'.active) \cup {None} PROVE Looping'
  <2>1. y \in Members \cup {None}
    BY <1>5, <1>8
  <2> HIDE DEF y
  <2> QED
    BY <1>1, <1>2, <1>9, <2>1 DEF Looping
<1>10. CASE pool.m[m].async
  <2>1. pool' = pool /\ UNCHANGED <<client, server>>
    BY <1>10 DEF MemberTurn
  <2> HIDE DEF y
  <2> QED
    BY <1>1, <1>7, <1>8, <1>9, <2>1, PoolStays DEF PoolInv
<1>11. CASE ~pool.m[m].async
  <2>1. PICK how, out :
          LET p == IF read THEN MemberRead(pool, m, how, clean) ELSE pool
              stop == read /\ how \in {"closed", "failed"}
              q == IF ~stop /\ p.m[m].send /\ m \in loop.ready
                   THEN MemberWrite(p, m, out) ELSE p
          IN  pool' = q /\ Reset(q)
    BY <1>11 DEF MemberTurn
  <2> DEFINE p == IF read THEN MemberRead(pool, m, how, clean) ELSE pool
             stop == read /\ how \in {"closed", "failed"}
             write == ~stop /\ p.m[m].send /\ m \in loop.ready
  <2>2. Reset(pool') /\ pool' = IF write THEN MemberWrite(p, m, out) ELSE p
    BY <2>1
  <2>3. u = pool.m[m].user
    OBVIOUS
  <2>4. read => pool.m[m].recv
    OBVIOUS
  <2> HIDE DEF u, m, y, read
  <2>5. /\ u \in Users /\ pool.u[u].member = m /\ pool.u[u].st = "query"
        /\ Agree(pool.u[u], pool.m[m], u) /\ Partners(pool, u, m)
        /\ pool.m[m] \in MemberRec
    BY <1>2, <1>5, <1>6, <2>3, JoinedAgree
  <2>6. pool.m[m].tds
    BY <1>11, <2>5 DEF Agree
  <2>7. /\ Change(pool, p, u, m)
        /\ ~stop => p.m[m].user = u /\ ~p.m[m].async
    <3>1. CASE ~read
      <4>1. p = pool
        BY <3>1
      <4>2. Pair(pool, u, m)
        BY <2>5 DEF Pair, Partners
      <4> HIDE DEF p
      <4> QED
        BY <1>2, <1>11, <2>3, <4>1, <4>2, ChangesNone
    <3>2. CASE read /\ how = "closed"
      <4>1. p = FreeMember(pool, m) /\ stop
        BY <3>2 DEF MemberRead
      <4> QED
        BY <1>2, <1>5, <2>3, <4>1, FreeMemberChanges
    <3>3. CASE read /\ how = "failed"
      <4>1. p = FreeUser(pool, u, clean) /\ stop
        BY <2>3, <3>3 DEF MemberRead, UserOf
      <4>2. m = pool.u[u].member /\ pool.u[u].st # "free"
        BY <2>5
      <4>3. Change(pool, FreeUser(pool, u, clean), u, m)
        BY <1>2, <1>11, <2>5, <2>6, <4>2, FreeUserChanges
      <4> QED
        BY <4>1, <4>3
    <3>4. CASE read /\ how \notin {"closed", "failed"}
      <4> DEFINE all == how = "done"
      <4>1. p = WriteMemberToUser(pool, m, u, all) /\ all \in BOOLEAN
        BY <2>3, <3>4 DEF MemberRead, UserOf
      <4> DEFINE s == [pool.m[m] EXCEPT !.part = ~all, !.recv = all]
                 r == [pool.u[u] EXCEPT !.send = ~all]
      <4>2. s.user = u /\ ~s.async
        BY <1>11, <2>3, <2>5 DEF MemberRec
      <4> HIDE DEF all, p
      <4>3. Change(pool, p, u, m) /\ Touches(pool, p, u, r, m, s)
        BY <1>2, <1>5, <1>6, <1>11, <2>3, <4>1, MemberToUserChanges
      <4> HIDE DEF s, r
      <4> QED
        BY <4>2, <4>3 DEF Touches
    <3> QED
      BY <3>1, <3>2, <3>3, <3>4
  <2> HIDE DEF p
  <2>8. Change(pool, pool', u, m)
    <3>1. CASE write
      <4>1. pool' = MemberWrite(p, m, out) /\ Sound(p) /\ p.m[m].user = u
            /\ ~p.m[m].async
        BY <2>2, <2>7, <3>1 DEF Change
      <4>2. u = p.m[m].user
        BY <4>1
      <4>3. Change(p, pool', u, m)
        <5>1. CASE out = "failed"
          BY <1>5, <4>1, <4>2, <5>1, FreeMemberChanges DEF MemberWrite
        <5>2. CASE out # "failed"
          <6> DEFINE all == out = "done"
          <6>1. pool' = WriteUserToMember(p, u, m, all) /\ all \in BOOLEAN
            BY <4>1, <5>2 DEF MemberWrite, UserOf
          <6> HIDE DEF all
          <6> QED
            BY <1>5, <1>6, <4>1, <4>2, <6>1, UserToMemberChanges
        <5> QED
          BY <5>1, <5>2
      <4> QED
        BY <2>7, <4>3, ChangesCompose
    <3>2. CASE ~write
      BY <2>2, <2>7, <3>2
    <3> QED
      BY <3>1, <3>2
  <2>9. CASE MuteMember(pool, m)
    <3>1. p = pool
      BY <2>4, <2>9 DEF MuteMember, p
    <3>2. ~write
      BY <2>9, <3>1 DEF MuteMember
    <3>3. pool' = pool
      BY <2>2, <3>1, <3>2
    <3> QED
      BY <1>1, <1>7, <1>8, <1>9, <2>2, <3>3, PoolStays DEF PoolInv
  <2>10. CASE ~MuteMember(pool, m)
    <3>1. Sound(pool') /\ Jobs' /\ Peers'
      BY <1>1, <1>5, <1>6, <1>7, <2>2, <2>3, <2>8, <2>10, TurnKeeps
    <3>2. y \in Range(pool'.active) \cup {None}
      BY <1>5, <1>8, <2>8 DEF Change, Same
    <3> QED
      BY <1>9, <3>1, <3>2 DEF PoolInv
  <2> QED
    BY <2>9, <2>10
<1> QED
  BY <1>10, <1>11

\* Connections that are closed for their age serve nobody.
LEMMA MembersDoneStep ==
  ASSUME PoolInv, NEW old, MembersDone(old)
  PROVE  PoolInv'
<1>1. /\ loop.at = "members" /\ loop.next = None
      /\ pool' = CloseOld(pool, old) /\ Reset(pool')
      /\ loop' = [loop EXCEPT !.at = "waiters", !.ready = {}]
      /\ threads' = threads /\ events' = events
  BY DEF MembersDone
<1>2. Sound(pool) /\ JobsOf(pool, threads, events, loop.batch)
  BY DEF PoolInv, Jobs
<1>3. Thinned(pool, pool')
  BY <1>1, <1>2, CloseOldThins
<1>4. /\ Sound(pool') /\ pool'.u = pool.u
      /\ \A n \in Members : pool.m[n].user # None => pool'.m[n] = pool.m[n]
  BY <1>3 DEF Thinned
<1>5. ASSUME NEW e \in AllJobs(threads, events, loop.batch)
      PROVE  Works(pool', e) /\ (Told(pool, e) => Told(pool', e))
  <2>1. e \in Job /\ Works(pool, e)
    BY <1>2, JobsKnown
  <2>2. CASE e.kind = "login"
    BY <1>4, <2>1, <2>2 DEF Works, Told
  <2>3. CASE e.kind = "end_login"
    <3> DEFINE n == pool.u[e.u].member
    <3>1. e.u \in Users /\ n # None
      BY <2>1, <2>3 DEF Works
    <3>2. UserFits(pool, e.u) /\ pool.u[e.u] \in UserRec
      BY <1>2, <3>1, SoundFits
    <3>3. n \in Members /\ pool.m[n].user = e.u
      BY <3>1, <3>2, UserFields DEF UserFits
    <3>4. pool'.m[n] = pool.m[n]
      BY <1>4, <3>1, <3>3, PoolAssumption
    <3> QED
      BY <1>4, <2>1, <2>3, <3>4 DEF Works, Told, MuteUser, MuteMember
  <2>4. CASE e.kind = "connect"
    <3>1. pool'.m[e.m] = pool.m[e.m]
      BY <1>4, <2>1, <2>4 DEF Works
    <3> QED
      BY <1>4, <2>1, <2>4, <3>1 DEF Works, Told, MuteUser, MuteMember
  <2> QED
    BY <2>1, <2>2, <2>3, <2>4 DEF Job
<1>6. JobsOf(pool', threads, events, loop.batch)
  BY <1>2, <1>5, JobsKept
<1>7. loop'.batch = loop.batch /\ Looping'
  BY <1>1 DEF PoolInv, Looping
<1>8. Jobs'
  BY <1>1, <1>6, <1>7 DEF Jobs
<1>9. Peers'
  <2>1. \A x \in Users : client'[x] = "dialing" => client[x] = "dialing"
    BY <1>1 DEF PoolInv, Reset, Peers
  <2>2. /\ client' \in [Users -> {"out", "dialing", "in", "gone"}]
        /\ server' \in [Members -> {"up", "closed"}]
    BY <1>1 DEF PoolInv, Reset, Peers
  <2> QED
    BY <1>4, <2>1, <2>2 DEF PoolInv, Peers
<1> QED
  BY <1>4, <1>7, <1>8, <1>9 DEF PoolInv

\* The first element of a list, if it has one.
LEMMA FirstOf ==
  ASSUME NEW S, NEW l \in Seq(S), IsInjective(l)
  PROVE  First(l) \in Range(l) \cup {None}
<1>1. CASE l = <<>>
  BY <1>1 DEF First
<1>2. CASE l # <<>>
  <2>1. 1 \in DOMAIN l
    BY <1>2, EmptySeq, LenProperties
  <2>2. \E x \in Range(l) : TRUE
    BY <2>1 DEF Range
  <2> QED
    BY <2>2, Follows
<1> QED
  BY <1>1, <1>2

\* What the pool lists are users and members.
LEMMA ListsHold ==
  ASSUME NEW p, Sound(p)
  PROVE  /\ Range(p.users) \subseteq Users /\ Range(p.waiters) \subseteq Users
         /\ Range(p.active) \subseteq Members /\ Range(p.idle) \subseteq Members
         /\ First(p.users) \in Range(p.users) \cup {None}
         /\ First(p.active) \in Range(p.active) \cup {None}
<1>1. /\ p.users \in Seq(Users) /\ p.waiters \in Seq(Users)
      /\ p.active \in Seq(Members) /\ p.idle \in Seq(Members)
      /\ IsInjective(p.users) /\ IsInjective(p.active)
  BY SoundFits, PoolFields DEF Sound, Lists
<1> QED
  BY <1>1, FirstOf DEF Range

\* The steps of the loop that leave the pool alone.
LEMMA LoopSteps ==
  ASSUME PoolInv,
         \/ \E traffic \in SUBSET (Users \cup Members) : Select(traffic)
         \/ Detach \/ EventsDone \/ NobodyDials \/ UsersDone
  PROVE  PoolInv'
<1>1. /\ Sound(pool) /\ JobsOf(pool, threads, events, loop.batch)
      /\ Looping /\ Peers
  BY DEF PoolInv, Jobs
<1>2. /\ Range(pool.users) \subseteq Users /\ Range(pool.active) \subseteq Members
      /\ First(pool.users) \in Range(pool.users) \cup {None}
      /\ First(pool.active) \in Range(pool.active) \cup {None}
  BY <1>1, ListsHold
<1>3. CASE \E traffic \in SUBSET (Users \cup Members) : Select(traffic)
  <2>1. PICK traffic \in SUBSET (Users \cup Members) : Select(traffic)
    BY <1>3
  <2>2. /\ loop.at = "select" /\ UNCHANGED <<pool, threads, events, client, server>>
        /\ loop' = [loop EXCEPT !.at = IF events # <<>> THEN "detach" ELSE "accept",
                                !.ready = Ended \cup traffic,
                                !.accept = Dialing # {}]
    BY <2>1 DEF Select
  <2>3. Ended \subseteq Users \cup Members
    BY DEF Ended
  <2>4. loop'.batch = loop.batch /\ Looping'
    BY <1>1, <2>2, <2>3 DEF Looping
  <2> QED
    BY <1>1, <2>2, <2>4 DEF PoolInv, Jobs, Peers
<1>4. CASE Detach
  <2>1. /\ loop.at = "detach" /\ UNCHANGED <<pool, threads, client, server>>
        /\ loop' = [loop EXCEPT !.at = "events", !.batch = events]
        /\ events' = <<>>
    BY <1>4 DEF Detach
  <2>2. events \in Seq(Job) /\ loop.batch = <<>>
    BY <1>1, <2>1 DEF JobsOf, Looping
  <2>3. loop'.batch = events /\ Looping'
    BY <1>1, <2>1, <2>2 DEF Looping
  <2>4. JobsOf(pool, threads, <<>>, events)
    BY <1>1, <2>2, JobsDetach
  <2> QED
    BY <1>1, <2>1, <2>3, <2>4 DEF PoolInv, Jobs, Peers
<1>5. CASE EventsDone
  <2>1. /\ UNCHANGED <<pool, threads, events, client, server>>
        /\ loop.batch = <<>> /\ loop.at = "events"
        /\ loop' = [loop EXCEPT !.at = "accept"]
    BY <1>5 DEF EventsDone
  <2>2. loop'.batch = loop.batch /\ Looping'
    BY <1>1, <2>1 DEF Looping
  <2> QED
    BY <1>1, <2>1, <2>2 DEF PoolInv, Jobs, Peers
<1>6. CASE NobodyDials
  <2>1. /\ UNCHANGED <<pool, threads, events, client, server>>
        /\ loop.at = "accept"
        /\ loop' = [loop EXCEPT !.at = "users", !.next = First(pool.users)]
    BY <1>6 DEF NobodyDials
  <2>2. loop'.batch = loop.batch /\ Looping'
    BY <1>1, <1>2, <2>1 DEF Looping
  <2> QED
    BY <1>1, <2>1, <2>2 DEF PoolInv, Jobs, Peers
<1>7. CASE UsersDone
  <2>1. /\ UNCHANGED <<pool, threads, events, client, server>>
        /\ loop.at = "users"
        /\ loop' = [loop EXCEPT !.at = "members", !.next = First(pool.active)]
    BY <1>7 DEF UsersDone
  <2>2. loop'.batch = loop.batch /\ Looping'
    BY <1>1, <1>2, <2>1 DEF Looping
  <2> QED
    BY <1>1, <2>1, <2>2 DEF PoolInv, Jobs, Peers
<1> QED
  BY <1>3, <1>4, <1>5, <1>6, <1>7

\* The steps of the clients and of the server.
LEMMA PeerSteps ==
  ASSUME PoolInv,
         \/ \E u \in Users : ClientConnects(u) \/ ClientLeaves(u)
         \/ \E m \in Members : ServerCloses(m)
  PROVE  PoolInv'
<1>1. UNCHANGED <<pool, threads, events, loop>>
  BY DEF ClientConnects, ClientLeaves, ServerCloses
<1>2. Peers'
  <2>1. CASE \E u \in Users : ClientConnects(u)
    BY <2>1 DEF ClientConnects, PoolInv, Peers
  <2>2. CASE \E u \in Users : ClientLeaves(u)
    BY <2>2 DEF ClientLeaves, PoolInv, Peers
  <2>3. CASE \E m \in Members : ServerCloses(m)
    BY <2>3 DEF ServerCloses, PoolInv, Peers
  <2> QED
    BY <2>1, <2>2, <2>3
<1> QED
  BY <1>1, <1>2 DEF PoolInv, Jobs, Looping

---------------------------------------------------------------------------
(* The invariant.                                                          *)

\* The pool that pool_mbr_init leaves is sound.
LEMMA StartedSound ==
  ASSUME NEW s \in [1..MinOpen -> Members], IsInjective(s)
  PROVE  Sound(Started(s))
<1> DEFINE p == Started(s)
           up == [FreshMember EXCEPT !.st = "open", !.tds = TRUE, !.recv = TRUE]
<1>1. MinOpen \in Nat /\ MinOpen <= MaxOpen /\ MaxUsers \in Nat
  BY PoolAssumption, LoopAssumption
<1>2. s \in Seq(Members) /\ Len(s) = MinOpen /\ Range(s) \subseteq Members
  BY <1>1 DEF Seq, Range
<1>3. up \in MemberRec /\ FreshMember \in MemberRec /\ FreshUser \in UserRec
  BY PoolAssumption DEF FreshMember, FreshUser, MemberRec, UserRec
<1>4. /\ up.st = "open" /\ up.user = None /\ up.tds /\ ~up.async
      /\ up.session = None /\ ~up.part /\ ~up.send
  BY DEF FreshMember
<1> HIDE DEF up
<1>5. /\ p.users = <<>> /\ p.waiters = <<>> /\ p.active = <<>> /\ p.idle = s
      /\ p.num_active = MinOpen /\ p.num_users = 0
      /\ p.u = [u \in Users |-> FreshUser]
      /\ p.m = [m \in Members |-> IF m \in Range(s) THEN up ELSE FreshMember]
  BY DEF Started, up
<1>6. p \in PoolRec
  <2>1. /\ [u \in Users |-> FreshUser] \in [Users -> UserRec]
        /\ [m \in Members |-> IF m \in Range(s) THEN up ELSE FreshMember]
             \in [Members -> MemberRec]
    BY <1>3
  <2> HIDE DEF p
  <2>2. p = [users |-> <<>>, waiters |-> <<>>, active |-> <<>>,
             idle |-> s, num_active |-> MinOpen, num_users |-> 0,
             u |-> [u \in Users |-> FreshUser],
             m |-> [m \in Members |->
                      IF m \in Range(s) THEN up ELSE FreshMember]]
    BY DEF p, Started, up
  <2>3. /\ <<>> \in Seq(Users) /\ <<>> \in Seq(Members)
        /\ MinOpen \in Int /\ 0 \in Int
    BY <1>1
  <2> QED
    BY <1>2, <2>1, <2>2, <2>3 DEF PoolRec
<1> HIDE DEF p
<1>7. Range(<<>>) = {} /\ IsInjective(<<>>) /\ Len(<<>>) = 0
  BY DEF Range, IsInjective
<1>8. Lists(p) /\ Counts(p)
  BY <1>1, <1>2, <1>5, <1>7 DEF Lists, Counts
<1>9. ASSUME NEW u \in Users PROVE UserFits(p, u)
  <2>1. p.u[u] = FreshUser /\ Range(p.users) = {} /\ Range(p.waiters) = {}
    BY <1>5, <1>7
  <2> QED
    BY <2>1 DEF UserFits, FreshUser
<1>10. ASSUME NEW m \in Members PROVE MemberFits(p, m)
  <2>1. /\ p.m[m] = IF m \in Range(s) THEN up ELSE FreshMember
        /\ Range(p.active) = {} /\ p.idle = s
    BY <1>5, <1>7
  <2>2. CASE m \in Range(s)
    BY <1>4, <2>1, <2>2 DEF MemberFits
  <2>3. CASE m \notin Range(s)
    BY <2>1, <2>3 DEF MemberFits, FreshMember
  <2> QED
    BY <2>2, <2>3
<1>11. (\A u \in Users : UserFits(p, u)) /\ (\A m \in Members : MemberFits(p, m))
  BY <1>9, <1>10
<1>12. Sound(p)
  BY <1>6, <1>8, <1>11 DEF Sound
<1> QED
  BY <1>12 DEF p

\* The pool that was just started satisfies the invariant.
LEMMA PoolInit == Init => PoolInv
<1> SUFFICES ASSUME Init PROVE PoolInv
  OBVIOUS
<1>1. Sound(pool)
  BY StartedSound DEF Init
<1>2. Jobs
  <2>1. threads = {} /\ events = <<>> /\ loop.batch = <<>>
    BY DEF Init
  <2>2. Range(<<>>) = {} /\ <<>> \in Seq(Job) /\ AllApart(<<>>)
    BY DEF Range, AllApart
  <2> QED
    BY <2>1, <2>2 DEF Jobs, JobsOf
<1>3. Looping
  BY DEF Init, Looping
<1>4. Peers
  BY DEF Init, Peers
<1> QED
  BY <1>1, <1>2, <1>3, <1>4 DEF PoolInv

\* Every step keeps the invariant.
LEMMA PoolNext == PoolInv /\ [Next]_vars => PoolInv'
<1> SUFFICES ASSUME PoolInv, [Next]_vars PROVE PoolInv'
  OBVIOUS
<1>1. \A f : /\ Fails(f) \subseteq BOOLEAN
             /\ Succeeds(f) \subseteq BOOLEAN
  BY DEF Fails, Succeeds
<1>2. CASE Steps
  <2>1. CASE Detach \/ EventsDone \/ NobodyDials \/ UsersDone
    BY <2>1, LoopSteps
  <2>2. CASE \E old \in SUBSET (IF "age" \in Faults THEN Members ELSE {}) :
               MembersDone(old)
    BY <2>2, MembersDoneStep
  <2>3. ASSUME NEW alloc \in BOOLEAN, NEW thread \in BOOLEAN, NEW u \in Users,
               Accept(u, alloc, thread)
        PROVE  PoolInv'
    BY <2>3, AcceptStep
  <2>4. ASSUME NEW alloc \in BOOLEAN, NEW thread \in BOOLEAN,
               NEW new \in NewMember(pool), ScheduleWaiters(alloc, thread, new)
        PROVE  PoolInv'
    BY <2>4, ScheduleWaitersStep
  <2>5. ASSUME NEW alloc \in BOOLEAN, NEW thread \in BOOLEAN,
               NEW new \in NewMember(pool), NEW clean \in BOOLEAN,
               ExecuteEvent(alloc, thread, new, clean)
        PROVE  PoolInv'
    BY <2>5, ExecuteEventStep
  <2>6. ASSUME NEW clean \in BOOLEAN, UserTurn(clean) \/ MemberTurn(clean)
        PROVE  PoolInv'
    BY <2>6, UserTurnStep, MemberTurnStep
  <2> QED
    BY <1>1, <1>2, <2>1, <2>2, <2>3, <2>4, <2>5, <2>6 DEF Steps
<1>3. CASE \E traffic \in SUBSET (Users \cup Members) : Select(traffic)
  BY <1>3, LoopSteps
<1>4. CASE Thread
  <2>1. PICK t \in threads, v \in Versions :
          \/ \E ok \in BOOLEAN : LoginThread(t, ok, v)
          \/ \E ok \in Succeeds("server"), written \in BOOLEAN :
               \/ EndLoginThread(t, ok, written)
               \/ ConnectThread(t, ok, v, written)
    BY <1>4 DEF Thread
  <2>2. ASSUME NEW ok \in BOOLEAN, LoginThread(t, ok, v) PROVE PoolInv'
    BY <2>2, LoginThreadStep
  <2>3. ASSUME NEW ok \in BOOLEAN, NEW written \in BOOLEAN,
               EndLoginThread(t, ok, written)
        PROVE  PoolInv'
    BY <2>3, EndLoginThreadStep
  <2>4. ASSUME NEW ok \in BOOLEAN, NEW written \in BOOLEAN,
               ConnectThread(t, ok, v, written)
        PROVE  PoolInv'
    BY <2>4, ConnectThreadStep
  <2> QED
    BY <1>1, <2>1, <2>2, <2>3, <2>4
<1>5. CASE \/ \E u \in Users : ClientConnects(u) \/ ClientLeaves(u)
           \/ \E m \in Members : ServerCloses(m)
  BY <1>5, PeerSteps
<1>6. CASE UNCHANGED vars
  BY <1>6 DEF vars, PoolInv, Jobs, Looping, Peers
<1> QED
  BY <1>2, <1>3, <1>4, <1>5, <1>6 DEF Next

\* The pool is sound, the threads and events find their records as they left
\* them, and what the loop holds is listed: after any step of pool_main_loop,
\* of a thread, of a client and of the server.
THEOREM PoolInvariant == Spec => []PoolInv
BY PoolInit, PoolNext, PTL DEF Spec

---------------------------------------------------------------------------
(* The properties.                                                         *)

\* Two lists that share nothing, each without a record twice, hold no record
\* twice together.
LEMMA BothInjective ==
  ASSUME NEW S, NEW l \in Seq(S), NEW k \in Seq(S), IsInjective(l),
         IsInjective(k), Range(l) \cap Range(k) = {}
  PROVE  IsInjective(l \o k)
<1> DEFINE c == l \o k
<1>1. /\ Len(l) \in Nat /\ Len(k) \in Nat /\ c \in Seq(S)
      /\ Len(c) = Len(l) + Len(k)
      /\ \A i \in 1..Len(l) : c[i] = l[i]
      /\ \A i \in 1..Len(k) : c[Len(l) + i] = k[i]
  BY ConcatProperties, LenProperties
<1> HIDE DEF c
<1>2. /\ DOMAIN c = 1..(Len(l) + Len(k))
      /\ DOMAIN l = 1..Len(l) /\ DOMAIN k = 1..Len(k)
  BY <1>1, LenProperties
<1>3. \A i \in DOMAIN c : \/ i \in DOMAIN l /\ c[i] = l[i]
                          \/ i - Len(l) \in DOMAIN k /\ c[i] = k[i - Len(l)]
  <2> SUFFICES ASSUME NEW i \in DOMAIN c, i \notin DOMAIN l
               PROVE  i - Len(l) \in DOMAIN k /\ c[i] = k[i - Len(l)]
    BY <1>1, <1>2
  <2>1. i - Len(l) \in 1..Len(k) /\ Len(l) + (i - Len(l)) = i
    BY <1>1, <1>2
  <2> QED
    BY <1>1, <1>2, <2>1
<1>4. ASSUME NEW i \in DOMAIN c, NEW j \in DOMAIN c, c[i] = c[j] PROVE i = j
  <2>1. CASE i \in DOMAIN l /\ c[i] = l[i] /\ j \in DOMAIN l /\ c[j] = l[j]
    BY <1>4, <2>1 DEF IsInjective
  <2>2. CASE /\ i \in DOMAIN l /\ c[i] = l[i]
             /\ j - Len(l) \in DOMAIN k /\ c[j] = k[j - Len(l)]
    <3>1. c[i] \in Range(l) /\ c[j] \in Range(k)
      BY <2>2 DEF Range
    <3> QED
      BY <1>4, <3>1
  <2>3. CASE /\ j \in DOMAIN l /\ c[j] = l[j]
             /\ i - Len(l) \in DOMAIN k /\ c[i] = k[i - Len(l)]
    <3>1. c[j] \in Range(l) /\ c[i] \in Range(k)
      BY <2>3 DEF Range
    <3> QED
      BY <1>4, <3>1
  <2>4. CASE /\ i - Len(l) \in DOMAIN k /\ c[i] = k[i - Len(l)]
             /\ j - Len(l) \in DOMAIN k /\ c[j] = k[j - Len(l)]
    <3>1. i - Len(l) = j - Len(l)
      BY <1>4, <2>4 DEF IsInjective
    <3> QED
      BY <1>1, <1>2, <3>1
  <2> QED
    BY <1>3, <2>1, <2>2, <2>3, <2>4
<1> QED
  BY <1>4 DEF IsInjective, c

\* The pool, the threads and their events, the loop and the peers have the
\* shapes that pool.h declares, and no record is in a list twice or in two.
THEOREM PoolTypes == Spec => []TypeOK
<1>1. PoolInv => TypeOK
  <2> SUFFICES ASSUME PoolInv PROVE TypeOK
    OBVIOUS
  <2>1. Sound(pool) /\ JobsOf(pool, threads, events, loop.batch)
    BY DEF PoolInv, Jobs
  <2>2. /\ pool.users \in Seq(Users) /\ pool.waiters \in Seq(Users)
        /\ pool.active \in Seq(Members) /\ pool.idle \in Seq(Members)
        /\ pool.u \in [Users -> UserRec] /\ pool.m \in [Members -> MemberRec]
    BY <2>1, SoundFits, PoolFields
  <2>3. Range(pool.users) \cap Range(pool.waiters) = {}
    <3>1. \A u \in Users : UserFits(pool, u)
      BY <2>1, SoundFits
    <3>2. Range(pool.users) \subseteq Users
      BY <2>1, ListsHold
    <3> QED
      BY <3>1, <3>2 DEF UserFits
  <2>4. Range(pool.active) \cap Range(pool.idle) = {}
    <3>1. \A m \in Members : MemberFits(pool, m)
      BY <2>1, SoundFits
    <3>2. Range(pool.active) \subseteq Members
      BY <2>1, ListsHold
    <3> QED
      BY <3>1, <3>2 DEF MemberFits
  <2>5. /\ IsInjective(pool.users \o pool.waiters)
        /\ IsInjective(pool.active \o pool.idle)
    BY <2>1, <2>2, <2>3, <2>4, BothInjective DEF Sound, Lists
  <2>6. \A e \in threads \cup AllEvents :
          e.kind \in {"login", "end_login", "connect"}
    BY <2>1, JobsKnown DEF AllEvents, AllJobs, Job
  <2>7. /\ client \in [Users -> {"out", "dialing", "in", "gone"}]
        /\ server \in [Members -> {"up", "closed"}]
    BY DEF PoolInv, Peers
  <2>8. UserRec = [st : {"free", "query", "wait"}, dead : BOOLEAN,
                   login : BOOLEAN, version : Versions, recv : BOOLEAN,
                   send : BOOLEAN, part : BOOLEAN, member : Members \cup {None}]
    BY DEF UserRec
  <2>9. MemberRec = [st : {"free", "open"}, tds : BOOLEAN, async : BOOLEAN,
                     version : Versions, recv : BOOLEAN, send : BOOLEAN,
                     part : BOOLEAN, user : Users \cup {None},
                     session : Users \cup {None}]
    BY DEF MemberRec
  <2> QED
    BY <2>2, <2>5, <2>6, <2>7, <2>8, <2>9 DEF TypeOK
<1> QED
  BY <1>1, PoolInvariant, PTL

\* What the asserts of member.c and user.c say of idle and active
\* connections, of clients that are read from and of those that wait.
THEOREM PoolPairs == Spec => []Paired
<1>1. PoolInv => Paired
  <2> SUFFICES ASSUME PoolInv PROVE Paired
    OBVIOUS
  <2>1. Sound(pool)
    BY DEF PoolInv
  <2>2. /\ \A u \in Users : UserFits(pool, u)
        /\ \A m \in Members : MemberFits(pool, m)
        /\ Range(pool.users) \subseteq Users /\ Range(pool.waiters) \subseteq Users
        /\ Range(pool.active) \subseteq Members /\ Range(pool.idle) \subseteq Members
    BY <2>1, SoundFits, ListsHold
  <2>3. \A m \in Range(pool.idle) :
          pool.m[m].tds /\ ~pool.m[m].async /\ UserOf(pool, m) = None
    BY <2>2 DEF MemberFits, UserOf
  <2>4. \A m \in Range(pool.active) :
          /\ UserOf(pool, m) # None
          /\ MemberOf(pool, UserOf(pool, m)) = m
          /\ pool.m[m].async \/ pool.m[m].tds
    BY <2>2 DEF MemberFits, Joined, UserOf, MemberOf
  <2>5. \A u \in Range(pool.users) :
          pool.u[u].recv \/ pool.u[u].send => MemberOf(pool, u) # None
    BY <2>2 DEF UserFits, MemberOf
  <2>6. \A u \in Range(pool.waiters) :
          pool.u[u].login /\ MemberOf(pool, u) = None
    <3> SUFFICES ASSUME NEW u \in Range(pool.waiters)
                 PROVE  pool.u[u].login /\ MemberOf(pool, u) = None
      OBVIOUS
    <3>1. UserFits(pool, u)
      BY <2>2
    <3> QED
      BY <3>1 DEF UserFits, MemberOf
  <2> QED
    BY <2>3, <2>4, <2>5, <2>6 DEF Paired
<1> QED
  BY <1>1, PoolInvariant, PTL

\* No thread, event, saved next element or assignment outlives the record it
\* refers to, and the loop leaves alone the sockets a thread works on.
THEOREM PoolReferences == Spec => []NoDangling
<1> DEFINE live(x) == IF x \in Users THEN pool.u[x].st # "free"
                                     ELSE pool.m[x].st # "free"
           mute(x) == IF x \in Users THEN ~pool.u[x].recv /\ ~pool.u[x].send
                                     ELSE ~pool.m[x].recv /\ ~pool.m[x].send
<1>1. PoolInv => NoDangling
  <2> SUFFICES ASSUME PoolInv PROVE NoDangling
    OBVIOUS
  <2>1. /\ Sound(pool) /\ JobsOf(pool, threads, events, loop.batch) /\ Looping
        /\ Users \cap Members = {} /\ None \notin Users \cup Members
    BY PoolAssumption DEF PoolInv, Jobs
  <2>2. /\ \A u \in Users : UserFits(pool, u) /\ pool.u[u] \in UserRec
        /\ \A m \in Members : MemberFits(pool, m) /\ pool.m[m] \in MemberRec
        /\ Range(pool.users) \subseteq Users /\ Range(pool.active) \subseteq Members
    BY <2>1, SoundFits, ListsHold
  <2>3. ASSUME NEW m \in Members, pool.m[m].user # None
        PROVE  /\ pool.m[m].st = "open" /\ pool.m[m].user \in Users
               /\ pool.u[pool.m[m].user].st = "query"
    <3> DEFINE u == pool.m[m].user
    <3>1. u = pool.m[m].user /\ u # None
      BY <2>3
    <3> HIDE DEF u
    <3>2. pool.m[m].st = "open" /\ u \in Users /\ pool.u[u].st = "query"
      BY <2>1, <3>1, JoinedAgree
    <3> QED
      BY <3>1, <3>2
  <2>4. ASSUME NEW u \in Users, pool.u[u].member # None
        PROVE  pool.u[u].member \in Members /\ pool.m[pool.u[u].member].st = "open"
    <3> DEFINE m == pool.u[u].member
    <3>1. m \in Members /\ pool.m[m].user = u
      BY <2>2, <2>4, UserFields DEF UserFits
    <3> QED
      BY <2>1, <2>3, <3>1
  <2>5. ASSUME NEW e \in threads \cup AllEvents, NEW x \in Users \cup Members,
               x \in {e.u, e.m} \ {None}
        PROVE  live(x) /\ mute(x)
    <3>1. e \in Job /\ Works(pool, e)
      BY <2>1, JobsKnown DEF AllEvents, AllJobs
    <3>2. CASE e.kind = "login"
      <4>1. x = e.u /\ x \in Users /\ pool.u[x].st = "query" /\ pool.u[x].member = None
        BY <2>5, <3>1, <3>2 DEF Works
      <4>2. ~pool.u[x].recv /\ ~pool.u[x].send
        BY <2>2, <4>1 DEF UserFits
      <4> QED
        BY <4>1, <4>2
    <3>3. CASE e.kind = "end_login"
      <4>1. /\ x = e.u /\ x \in Users /\ pool.u[x].member # None
            /\ MuteUser(pool, x)
        BY <2>5, <3>1, <3>3 DEF Works
      <4>2. pool.u[x].st = "query"
        BY <2>2, <4>1 DEF UserFits
      <4> QED
        BY <4>1, <4>2 DEF MuteUser
    <3>4. CASE e.kind = "connect"
      <4>1. /\ x = e.m /\ x \in Members /\ x \notin Users
            /\ pool.m[x].user # None /\ MuteMember(pool, x)
        BY <2>1, <2>5, <3>1, <3>4 DEF Works
      <4>2. pool.m[x].st = "open"
        BY <2>3, <4>1
      <4> QED
        BY <4>1, <4>2 DEF MuteMember
    <3> QED
      BY <3>1, <3>2, <3>3, <3>4 DEF Job
  <2>6. loop.next # None => live(loop.next)
    <3> HAVE loop.next # None
    <3>1. CASE loop.at = "users"
      <4>1. loop.next \in Range(pool.users) /\ loop.next \in Users
        BY <2>1, <2>2, <3>1 DEF Looping
      <4> QED
        BY <2>2, <4>1 DEF UserFits
    <3>2. CASE loop.at = "members"
      <4>1. /\ loop.next \in Range(pool.active) /\ loop.next \in Members
            /\ loop.next \notin Users
        BY <2>1, <2>2, <3>2 DEF Looping
      <4>2. pool.m[loop.next].user # None
        BY <2>2, <4>1 DEF MemberFits
      <4> QED
        BY <2>3, <4>1, <4>2
    <3> QED
      BY <2>1, <3>1, <3>2 DEF Looping
  <2>7. \A u \in Users : MemberOf(pool, u) # None => live(MemberOf(pool, u))
    BY <2>1, <2>4 DEF MemberOf
  <2>8. \A m \in Members : UserOf(pool, m) # None => live(UserOf(pool, m))
    BY <2>3 DEF UserOf
  <2> QED
    BY <2>5, <2>6, <2>7, <2>8 DEF NoDangling
<1> QED
  BY <1>1, PoolInvariant, PTL

\* The counters the limits are tested with count the lists, whatever way a
\* record was dropped, and the limits hold.
THEOREM PoolCounts == Spec => []Counted
<1>1. PoolInv => Counted
  BY DEF PoolInv, Sound, Counts, Counted
<1> QED
  BY <1>1, PoolInvariant, PTL

\* The rest of a packet that was forwarded in part is waited for, by who has
\* it and by nobody else.
THEOREM PoolForwards == Spec => []RestIsScheduled
<1>1. PoolInv => RestIsScheduled
  <2> SUFFICES ASSUME PoolInv, NEW m \in Range(pool.active)
               PROVE  LET u == UserOf(pool, m)
                      IN  /\ pool.u[u].part = pool.m[m].send
                          /\ pool.m[m].part = pool.u[u].send
                          /\ pool.u[u].part => ~pool.u[u].recv
                          /\ pool.m[m].part => ~pool.m[m].recv
    BY DEF RestIsScheduled
  <2>1. m \in Members /\ MemberFits(pool, m)
    BY SoundFits, ListsHold DEF PoolInv
  <2> QED
    BY <2>1 DEF MemberFits, Joined, UserOf
<1> QED
  BY <1>1, PoolInvariant, PTL

\* What a server session holds is the business of the client its connection
\* serves; that of an idle connection is clean.
THEOREM PoolSessions == Spec => []OwnSession
<1>1. PoolInv => OwnSession
  <2> SUFFICES ASSUME PoolInv PROVE OwnSession
    OBVIOUS
  <2>1. /\ \A m \in Members : MemberFits(pool, m)
        /\ Range(pool.active) \subseteq Members /\ Range(pool.idle) \subseteq Members
    BY SoundFits, ListsHold DEF PoolInv
  <2>2. \A m \in Range(pool.active) : pool.m[m].session \in {None, UserOf(pool, m)}
    BY <2>1 DEF MemberFits, Joined, UserOf
  <2>3. \A m \in Range(pool.idle) : pool.m[m].session = None
    BY <2>1 DEF MemberFits
  <2> QED
    BY <2>2, <2>3 DEF OwnSession
<1> QED
  BY <1>1, PoolInvariant, PTL
=============================================================================

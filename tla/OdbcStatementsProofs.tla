------------------------ MODULE OdbcStatementsProofs ------------------------
(***************************************************************************)
(* Proofs about OdbcStatements, for any statements and any number of       *)
(* objects.  The invariant has three parts that hold only together:        *)
(*                                                                         *)
(*   TalkInv   the phase of the call, who sent the request under way and   *)
(*             who owns the connection;                                    *)
(*   HoldInv   an object's count, less what the connection itself refers   *)
(*             to it, is what a statement and the scan hold of it; the     *)
(*             scan waits for a request about the object it visits;        *)
(*   CloseInv  what the server holds is listed; while the scan has made    *)
(*             all closes, nothing it passed is deferred any more.         *)
(*                                                                         *)
(* Emptied, that a statement is freed with nothing in its hands, is what   *)
(* SQLFreeStmt and SQLDisconnect need beside them.  A stage of a call is   *)
(* shown to keep the three by what it does to each: Talks, Holds, Closes.  *)
(***************************************************************************)
EXTENDS OdbcStatements, FiniteSetTheorems, SequenceTheorems, WellFoundedInduction,
        TLAPS

(***************************************************************************)
(* The values of the variables.                                            *)
(***************************************************************************)
Ops == {"none", "unprepare", "cursorclose", "prepexec", "execute", "cursoropen",
        "cursoroption", "prepare", "cursorfetch"}
Names == Objs \cup {NoObj}
Object == [kind : Kinds \cup {"free"}, refs : Int, known : BOOLEAN,
           defer : BOOLEAN]
Connection ==
  [state : {"idle", "pending", "dead"}, op : Ops,
   by : Stmts \cup {"none", "dbc", "close"}, cur : [Kinds -> Names],
   current : Stmts \cup {"none"}, tds : SUBSET Stmts, pending_close : BOOLEAN,
   list : [Kinds -> Seq(Objs)], obj : [Objs -> Object]]
Statement == [live : BOOLEAN, scroll : BOOLEAN, prepared : BOOLEAN,
              reprepare : BOOLEAN, has : [Kinds -> Names]]
Visit == [list : Kinds \cup {"off"}, at : Names, next : Names, wait : BOOLEAN,
          all : BOOLEAN]

\* the plans of a call: what is left of its stages
Plans ==
  {<<a>> : a \in {"set_query", "prepexec", "free_cursor", "closed", "drop",
                  "execute", "opened", "prepared", "fetched", "results",
                  "unlock", "stay"}}
  \cup {<<a, b>> : a \in {"free_dynamic", "unprepared"},
                   b \in {"set_query", "prepexec", "drop"}}
  \cup {<<a, "free_dynamic", "drop">> : a \in {"free_cursor", "closed"}}
EndPlans == {<<"commit">>, <<"stay">>}
Call == [stmt : Stmts \cup {"none", "dbc"}, todo : Plans \cup EndPlans \cup {<<>>},
         read : {"no", "some", "all", "cancel"}, last : {"none", "done", "doneproc"},
         error : BOOLEAN, rc : {"over", "stop", "fail", "error"}]

Typed == /\ od_conn \in Connection /\ od_stmt \in [Stmts -> Statement]
         /\ od_scan \in Visit /\ od_call \in Call
         /\ od_srv \in [Kinds -> SUBSET Names]

(***************************************************************************)
(* The conversation.                                                       *)
(***************************************************************************)

\* a call is that of a statement, or of the connection, with a plan of its own
Planned ==
  \/ od_call = NoCall
  \/ /\ od_call.stmt \in Stmts /\ od_stmt[od_call.stmt].live
     /\ od_call.todo \in Plans
  \/ od_call.stmt = "dbc" /\ od_call.todo \in EndPlans
     /\ od_call.read \in {"no", "all"}

\* what is read, what ended it and the scan of pending closes, in their order
Phases ==
  /\ od_call.last # "none" => od_call.read # "no"
  /\ od_scan.list # "off" => od_call.last # "none"
  /\ od_scan.list = "off" => od_scan = NoScan
  /\ od_call.last # "none" /\ od_conn.state = "pending" => od_scan.wait
  /\ od_scan.wait => /\ od_conn.state = "pending" /\ od_conn.by = "close"
                     /\ od_scan.list # "off"
  /\ od_call.rc = "fail" => od_conn.state = "dead"

\* who may have sent the request under way
Senders ==
  od_conn.state = "pending" =>
    \/ od_conn.by = "close" /\ od_scan.wait
    \/ od_conn.by = "dbc" /\ od_call.stmt = "dbc" /\ od_call.read = "all"
    \/ od_conn.by \in Stmts /\ od_conn.by = od_conn.current

\* who stops before the end of an answer owns the connection
Owning ==
  od_call.read \in {"some", "cancel"} \/ od_call.todo = <<"opened">> =>
    od_conn.current = od_call.stmt

\* a statement is prepared again after its old handle was let go
Replaced ==
  od_call.todo = <<"prepexec">> => od_stmt[od_call.stmt].has["dyn"] = NoObj

TalkInv == Typed /\ Planned /\ Phases /\ Senders /\ Owning /\ Replaced /\ OneOwner

(***************************************************************************)
(* The references.                                                         *)
(***************************************************************************)
Bit(b) == IF b THEN 1 ELSE 0

\* the count of i, less what the connection's list and last request refer to it
Excess(conn, i) == conn.obj[i].refs - Bit(conn.cur["dyn"] = i)
                     - Bit(conn.cur["cursor"] = i) - Bit(i \in Listed(conn))
\* a statement holds i
Owned(i) == \E s \in Stmts, k \in Kinds : od_stmt[s].has[k] = i
\* the rest of the count is a statement and the scan
Counted ==
  \A i \in Objs : Excess(od_conn, i) =
     Bit(Owned(i)) + Bit(od_scan.at = i) + Bit(od_scan.next = i)
\* no two statements hold an object, nor one twice
OneHolder ==
  \A s, t \in Stmts, k, l \in Kinds :
    od_stmt[s].has[k] = od_stmt[t].has[l] /\ od_stmt[s].has[k] # NoObj
      => s = t /\ k = l
\* objects are listed, requested and held by their kind
OfKind(conn, k, i) == i # NoObj => conn.obj[i].kind = k
Sorted ==
  \A k \in Kinds :
    /\ IsInjective(od_conn.list[k])
    /\ \A i \in ToSet(od_conn.list[k]) : OfKind(od_conn, k, i)
    /\ OfKind(od_conn, k, od_conn.cur[k])
    /\ \A s \in Stmts : OfKind(od_conn, k, od_stmt[s].has[k])
\* the scan visits an object of its list; it waits for a request about it
Visiting ==
  /\ od_scan.at # NoObj => /\ od_scan.list # "off"
                           /\ od_scan.at \in ToSet(od_conn.list[od_scan.list])
  /\ od_scan.next # NoObj => od_scan.wait
  /\ od_scan.wait => /\ od_scan.at # NoObj
                     /\ od_scan.next = NextOf(od_conn, od_scan.at)
                     /\ od_conn.cur[od_scan.list] = od_scan.at
                     /\ od_conn.op = IF od_scan.list = "dyn" THEN "unprepare"
                                                             ELSE "cursorclose"
HoldInv == Counted /\ OneHolder /\ Sorted /\ Visiting

(***************************************************************************)
(* The closes.                                                             *)
(***************************************************************************)

\* the scan has left i behind
Passed(i) ==
  \/ od_scan.list = "dyn" /\ i \in ToSet(od_conn.list["cursor"])
  \/ \E n \in DOMAIN od_conn.list[od_scan.list] :
       /\ od_conn.list[od_scan.list][n] = i
       /\ od_scan.at # NoObj =>
            \E m \in DOMAIN od_conn.list[od_scan.list] :
               n < m /\ od_conn.list[od_scan.list][m] = od_scan.at
\* a close is deferred only while the connection is busy, or the scan is to come
CloseInv ==
  /\ od_conn.state = "dead" => \A k \in Kinds : od_srv[k] = {}
  /\ od_srv["dyn"] \subseteq ToSet(od_conn.list["dyn"])
  /\ od_conn.state = "pending" /\ od_conn.op \in {"prepare", "prepexec"} =>
       od_conn.cur["dyn"] \in ToSet(od_conn.list["dyn"])
  /\ od_conn.state # "pending" /\ od_conn.op = "unprepare" =>
       od_conn.cur["dyn"] \notin od_srv["dyn"]
  /\ od_scan.list = "off" =>
       \A i \in Listed(od_conn) : od_conn.obj[i].defer =>
         od_conn.pending_close /\ od_conn.state # "idle"
  /\ od_scan.list # "off" =>
       IF od_scan.all THEN \A i \in Objs : Passed(i) => ~od_conn.obj[i].defer
       ELSE od_conn.state = "dead"

OdInv == TalkInv /\ HoldInv /\ CloseInv

(***************************************************************************)
(* What is freed.                                                          *)
(***************************************************************************)

\* plans to free a statement, when its cursor was let go
Freeing == {<<"drop">>, <<"free_dynamic", "drop">>, <<"unprepared", "drop">>}

\* a statement that is freed has let go of what it held
Emptied ==
  /\ \A s \in Stmts : ~od_stmt[s].live => \A k \in Kinds : od_stmt[s].has[k] = NoObj
  /\ od_call.todo = <<"drop">> => od_stmt[od_call.stmt].has["dyn"] = NoObj
  /\ od_call.todo \in Freeing => od_stmt[od_call.stmt].has["cursor"] = NoObj

---------------------------------------------------------------------------
(* Lists and records.                                                      *)

\* What unlinking a node leaves: the others, in their order.
LEMMA UnlinkedList ==
  ASSUME NEW l \in Seq(Objs), NEW i \in ToSet(l)
  PROVE  \E n \in 1..Len(l) :
           /\ l[n] = i /\ Unlinked(l, i) \in Seq(Objs)
           /\ Len(Unlinked(l, i)) = Len(l) - 1
           /\ \A m \in 1..(Len(l) - 1) :
                Unlinked(l, i)[m] = IF m < n THEN l[m] ELSE l[m + 1]
<1> DEFINE n == CHOOSE n \in DOMAIN l : l[n] = i
           a == SubSeq(l, 1, n - 1)
           b == SubSeq(l, n + 1, Len(l))
<1>1. n \in 1..Len(l) /\ l[n] = i /\ Len(l) \in Nat
  BY DEF ToSet
<1>2. Unlinked(l, i) = a \o b
  BY DEF Unlinked, RemoveAt
<1> HIDE DEF n
<1>3. /\ a \in Seq(Objs) /\ Len(a) = n - 1
      /\ \A m \in 1..(n - 1) : a[m] = l[m]
  <2>1. \A m \in 1..(n - 1) : l[m] \in Objs
    BY <1>1
  <2> HIDE DEF a
  <2>2. /\ SubSeq(l, 1, n - 1) \in Seq(Objs)
        /\ Len(SubSeq(l, 1, n - 1)) = IF 1 <= n - 1 THEN n - 1 - 1 + 1 ELSE 0
        /\ \A m \in 1..(n - 1 - 1 + 1) : SubSeq(l, 1, n - 1)[m] = l[1 + m - 1]
    BY <1>1, <2>1, SubSeqProperties
  <2> QED
    BY <1>1, <2>2 DEF a
<1>4. /\ b \in Seq(Objs) /\ Len(b) = Len(l) - n
      /\ \A m \in 1..(Len(l) - n) : b[m] = l[n + m]
  <2>1. \A m \in (n + 1)..Len(l) : l[m] \in Objs
    BY <1>1
  <2> HIDE DEF b
  <2>2. /\ SubSeq(l, n + 1, Len(l)) \in Seq(Objs)
        /\ Len(SubSeq(l, n + 1, Len(l))) =
             IF n + 1 <= Len(l) THEN Len(l) - (n + 1) + 1 ELSE 0
        /\ \A m \in 1..(Len(l) - (n + 1) + 1) :
             SubSeq(l, n + 1, Len(l))[m] = l[(n + 1) + m - 1]
    BY <1>1, <2>1, SubSeqProperties
  <2> QED
    BY <1>1, <2>2 DEF b
<1> HIDE DEF a, b
<1>5. /\ a \o b \in Seq(Objs) /\ Len(a \o b) = Len(a) + Len(b)
      /\ \A m \in 1..(Len(a) + Len(b)) :
           (a \o b)[m] = IF m <= Len(a) THEN a[m] ELSE b[m - Len(a)]
  BY <1>3, <1>4, ConcatProperties
<1>6. /\ Len(a \o b) = Len(l) - 1
      /\ \A m \in 1..(Len(l) - 1) :
           (a \o b)[m] = IF m < n THEN l[m] ELSE l[m + 1]
  BY <1>1, <1>3, <1>4, <1>5
<1> QED
  BY <1>1, <1>2, <1>5, <1>6

\* the least of a set of numbers
LEMMA LeastOf ==
  ASSUME NEW T, T \subseteq Nat, T # {}
  PROVE  \E m \in T : \A n \in T : m <= n
<1> DEFINE R == OpToRel(<, Nat)
<1>1. IsWellFoundedOn(R, Nat)
  BY NatLessThanWellFounded
<1>2. \A m, n \in Nat : m < n => <<m, n>> \in R
  BY DEF OpToRel
<1> HIDE DEF R
<1>3. PICK m \in T : \A n \in T : <<n, m>> \notin R
  BY <1>1, WFMin
<1>4. \A n \in T : ~ (n < m)
  BY <1>2, <1>3
<1> QED
  BY <1>3, <1>4

\* A new name is that of a free object.
LEMMA NewObjIsFree ==
  ASSUME SomeFree
  PROVE  NewObj \in Objs /\ od_conn.obj[NewObj] = FreeObj
<1> DEFINE Usable(i) == /\ od_conn.obj[i] = FreeObj
                        /\ \A k \in Kinds : i \notin od_srv[k]
           T == {i \in Objs : Usable(i)}
<1>0. Objs \subseteq Nat /\ \A i \in Objs : 1..(i - 1) \subseteq Objs
  BY OdAssumption DEF Objs
<1>1. T \subseteq Nat /\ T # {}
  BY <1>0 DEF SomeFree
<1>2. PICK m \in T : \A n \in T : m <= n
  BY <1>1, LeastOf
<1>3. \A j \in 1..(m - 1) : ~Usable(j)
  BY <1>0, <1>2
<1>4. \E i \in Objs : /\ od_conn.obj[i] = FreeObj
                      /\ \A k \in Kinds : i \notin od_srv[k]
                      /\ \A j \in 1..(i - 1) : \/ od_conn.obj[j] # FreeObj
                                               \/ \E k \in Kinds : j \in od_srv[k]
  BY <1>2, <1>3
<1> QED
  BY <1>4 DEF NewObj

---------------------------------------------------------------------------
(* What the operators on the connection return and leave alone.            *)

\* nobody but the objects changed
ObjectsOnly(c, d) ==
  /\ d.state = c.state /\ d.op = c.op /\ d.by = c.by /\ d.cur = c.cur
  /\ d.current = c.current /\ d.tds = c.tds /\ d.list = c.list
  /\ d.pending_close = c.pending_close

\* the conversation is the same; objects and lists may not be
Undisturbed(c, d) ==
  /\ d.state = c.state /\ d.op = c.op /\ d.by = c.by /\ d.cur = c.cur
  /\ d.current = c.current /\ d.tds = c.tds

\* who changed only objects did not disturb the conversation
LEMMA ObjectsOnlyUndisturbed ==
  ASSUME NEW c, NEW d, ObjectsOnly(c, d) PROVE Undisturbed(c, d)
BY DEF ObjectsOnly, Undisturbed

\* the kinds by name
LEMMA KindNames == "dyn" \in Kinds /\ "cursor" \in Kinds
BY DEF Kinds

\* an object is a number, and none is the absence of one
LEMMA ObjsNamed == NoObj \notin Objs /\ Objs \subseteq Int /\ Objs \subseteq Names
                   /\ NoObj \in Names
BY OdAssumption DEF Objs, NoObj, Names

\* a free object is one that nobody refers to
LEMMA FreeObjTyped == FreeObj \in Object /\ FreeObj.refs = 0
BY DEF FreeObj, Object

\* the connection with other objects
LEMMA ConnWithObj ==
  ASSUME NEW conn \in Connection, NEW f \in [Objs -> Object]
  PROVE  LET d == [conn EXCEPT !.obj = f]
         IN  d \in Connection /\ ObjectsOnly(conn, d) /\ d.obj = f
BY DEF Connection, ObjectsOnly

\* Taken changes one count and nothing else.
LEMMA TakenConn ==
  ASSUME NEW conn \in Connection, NEW i \in Names
  PROVE  /\ Taken(conn, i) \in Connection /\ ObjectsOnly(conn, Taken(conn, i))
         /\ Taken(conn, i).obj =
              IF i = NoObj THEN conn.obj ELSE [conn.obj EXCEPT ![i].refs = @ + 1]
<1>1. CASE i = NoObj
  BY <1>1 DEF Taken, ObjectsOnly
<1>2. CASE i # NoObj
  <2> DEFINE f == [conn.obj EXCEPT ![i].refs = @ + 1]
  <2>1. conn.obj \in [Objs -> Object] /\ i \in Objs
    BY <1>2 DEF Connection, Names
  <2>2. f \in [Objs -> Object]
    <3>1. ASSUME NEW o \in Object PROVE [o EXCEPT !.refs = o.refs + 1] \in Object
      BY DEF Object
    <3>2. conn.obj[i] \in Object
      BY <2>1
    <3> QED
      BY <2>1, <3>1, <3>2
  <2>3. Taken(conn, i) = [conn EXCEPT !.obj = f]
    BY <1>2 DEF Taken
  <2> HIDE DEF f
  <2>4. Taken(conn, i) \in Connection /\ ObjectsOnly(conn, Taken(conn, i))
        /\ Taken(conn, i).obj = f
    BY <2>2, <2>3, ConnWithObj
  <2> QED
    BY <1>2, <2>4 DEF f
<1> QED
  BY <1>1, <1>2

\* Released changes one object and nothing else.
LEMMA ReleasedConn ==
  ASSUME NEW conn \in Connection, NEW i \in Names
  PROVE  /\ Released(conn, i) \in Connection /\ ObjectsOnly(conn, Released(conn, i))
         /\ Released(conn, i).obj =
              IF i = NoObj THEN conn.obj
              ELSE [conn.obj EXCEPT ![i] = IF @.refs = 1 THEN FreeObj
                                           ELSE [@ EXCEPT !.refs = conn.obj[i].refs - 1]]
<1>1. CASE i = NoObj
  BY <1>1 DEF Released, ObjectsOnly
<1>2. CASE i # NoObj
  <2> DEFINE f == [conn.obj EXCEPT ![i] =
                     IF @.refs = 1 THEN FreeObj
                     ELSE [@ EXCEPT !.refs = conn.obj[i].refs - 1]]
  <2>1. conn.obj \in [Objs -> Object] /\ i \in Objs
    BY <1>2 DEF Connection, Names
  <2>2. f \in [Objs -> Object]
    <3>1. ASSUME NEW o \in Object
          PROVE  (IF o.refs = 1 THEN FreeObj ELSE [o EXCEPT !.refs = o.refs - 1])
                   \in Object
      BY FreeObjTyped DEF Object
    <3>2. conn.obj[i] \in Object
      BY <2>1
    <3> QED
      BY <2>1, <3>1, <3>2
  <2>3. Released(conn, i) = [conn EXCEPT !.obj = f]
    BY <1>2 DEF Released
  <2> HIDE DEF f
  <2>4. Released(conn, i) \in Connection /\ ObjectsOnly(conn, Released(conn, i))
        /\ Released(conn, i).obj = f
    BY <2>2, <2>3, ConnWithObj
  <2> QED
    BY <1>2, <2>4 DEF f
<1> QED
  BY <1>1, <1>2

\* Deallocated leaves the conversation alone.
LEMMA DeallocatedConn ==
  ASSUME NEW conn \in Connection, NEW kind \in Kinds, NEW i \in Names
  PROVE  /\ Deallocated(conn, kind, i) \in Connection
         /\ Undisturbed(conn, Deallocated(conn, kind, i))
         /\ Deallocated(conn, kind, i).pending_close = conn.pending_close
<1> DEFINE mid == [conn EXCEPT !.list[kind] = Unlinked(@, i),
                               !.obj[i].known = FALSE]
<1>1. CASE i \notin ToSet(conn.list[kind])
  BY <1>1 DEF Deallocated, Undisturbed
<1>2. CASE i \in ToSet(conn.list[kind])
  <2>1. conn.list[kind] \in Seq(Objs)
    BY DEF Connection
  <2>2. Unlinked(conn.list[kind], i) \in Seq(Objs)
    BY <1>2, <2>1, UnlinkedList
  <2>3. mid \in Connection /\ Undisturbed(conn, mid)
        /\ mid.pending_close = conn.pending_close
    <3> DEFINE l == [conn.list EXCEPT ![kind] = Unlinked(@, i)]
               f == [conn.obj EXCEPT ![i].known = FALSE]
    <3>1. conn.list \in [Kinds -> Seq(Objs)] /\ conn.obj \in [Objs -> Object]
      BY DEF Connection
    <3>2. l \in [Kinds -> Seq(Objs)] /\ f \in [Objs -> Object]
      BY <2>2, <3>1 DEF Object
    <3>3. mid = [conn EXCEPT !.list = l, !.obj = f]
      BY DEF Connection
    <3> HIDE DEF l, f, mid
    <3> QED
      BY <3>2, <3>3 DEF Connection, Undisturbed
  <2>4. Deallocated(conn, kind, i) = Released(mid, i)
    BY <1>2 DEF Deallocated
  <2> HIDE DEF mid
  <2>5. /\ Released(mid, i) \in Connection /\ ObjectsOnly(mid, Released(mid, i))
    BY <2>3, ReleasedConn
  <2> QED
    BY <2>3, <2>4, <2>5 DEF ObjectsOnly, Undisturbed
<1> QED
  BY <1>1, <1>2

\* Deferred leaves the conversation alone.
LEMMA DeferredConn ==
  ASSUME NEW conn \in Connection, NEW kind \in Kinds, NEW i \in Names
  PROVE  /\ Deferred(conn, kind, i) \in Connection
         /\ Undisturbed(conn, Deferred(conn, kind, i))
<1>1. CASE conn.obj[i].known
  <2> DEFINE f == [conn.obj EXCEPT ![i].defer = TRUE]
  <2>1. conn.obj \in [Objs -> Object]
    BY DEF Connection
  <2>2. f \in [Objs -> Object]
    BY <2>1 DEF Object
  <2>3. Deferred(conn, kind, i) = [conn EXCEPT !.obj = f, !.pending_close = TRUE]
    BY <1>1 DEF Deferred
  <2> HIDE DEF f
  <2> QED
    BY <2>2, <2>3 DEF Connection, Undisturbed
<1>2. CASE ~conn.obj[i].known
  BY <1>2, DeallocatedConn DEF Deferred
<1> QED
  BY <1>1, <1>2

\* tds_cursor_check_allocated leaves the conversation alone.
LEMMA CheckedConn ==
  ASSUME NEW conn \in Connection, NEW i \in Names
  PROVE  /\ tds_cursor_check_allocated(conn, i) \in Connection
         /\ Undisturbed(conn, tds_cursor_check_allocated(conn, i))
BY DeallocatedConn DEF tds_cursor_check_allocated, Kinds, Undisturbed

\* A new object leaves the conversation alone.
LEMMA WithNewConn ==
  ASSUME NEW conn \in Connection, NEW kind \in Kinds, NEW i \in Objs
  PROVE  /\ WithNew(conn, kind, i) \in Connection
         /\ Undisturbed(conn, WithNew(conn, kind, i))
<1>1. conn.list[kind] \in Seq(Objs) /\ <<i>> \in Seq(Objs)
  BY DEF Connection
<1>2. <<i>> \o conn.list[kind] \in Seq(Objs) /\ Append(conn.list[kind], i) \in Seq(Objs)
  BY <1>1
<1>3. [FreeObj EXCEPT !.kind = kind, !.refs = 2] \in Object
  <2>1. ASSUME NEW o \in Object, NEW k \in Kinds
        PROVE  [o EXCEPT !.kind = k] \in Object
    BY DEF Object
  <2>2. ASSUME NEW o \in Object
        PROVE  [o EXCEPT !.refs = 2] \in Object
    BY DEF Object
  <2> DEFINE m == [FreeObj EXCEPT !.kind = kind]
  <2>3. m \in Object
    BY <2>1, FreeObjTyped
  <2> HIDE DEF m
  <2>4. [m EXCEPT !.refs = 2] \in Object
    BY <2>2, <2>3
  <2> QED
    BY <2>4 DEF m
<1> DEFINE l == [conn.list EXCEPT ![kind] =
                  IF kind = "dyn" THEN <<i>> \o @ ELSE Append(@, i)]
           f == [conn.obj EXCEPT ![i] = [FreeObj EXCEPT !.kind = kind, !.refs = 2]]
<1>4. conn.list \in [Kinds -> Seq(Objs)] /\ conn.obj \in [Objs -> Object]
  BY DEF Connection
<1>5. l \in [Kinds -> Seq(Objs)] /\ f \in [Objs -> Object]
  BY <1>2, <1>3, <1>4
<1>6. WithNew(conn, kind, i) = [conn EXCEPT !.list = l, !.obj = f]
  BY DEF WithNew, Connection
<1> HIDE DEF l, f
<1> QED
  BY <1>5, <1>6 DEF Connection, Undisturbed

\* d is c with a request sent
Sent(c, d, op, kind, i, who) ==
  /\ d \in Connection /\ d.state = "pending" /\ d.op = op /\ d.by = who
  /\ d.cur = [NoObjs EXCEPT ![kind] = i] /\ d.current = c.current
  /\ d.tds = c.tds /\ d.list = c.list /\ d.pending_close = c.pending_close

\* d is c but for the owner
OwnerOnly(c, d) ==
  /\ d \in Connection /\ d.state = c.state /\ d.op = c.op /\ d.by = c.by
  /\ d.cur = c.cur /\ d.list = c.list /\ d.obj = c.obj
  /\ d.pending_close = c.pending_close

\* the operations by name
LEMMA OpNames ==
  /\ "none" \in Ops /\ "unprepare" \in Ops /\ "cursorclose" \in Ops
  /\ "prepexec" \in Ops /\ "execute" \in Ops /\ "cursoropen" \in Ops
  /\ "cursoroption" \in Ops /\ "prepare" \in Ops /\ "cursorfetch" \in Ops
BY DEF Ops

\* A request is under way, and the owner and the lists are as before.
LEMMA RequestedConn ==
  ASSUME NEW conn \in Connection, NEW op \in Ops, NEW kind \in Kinds,
         NEW i \in Names, NEW who \in Stmts \cup {"dbc", "close"}
  PROVE  Sent(conn, Requested(conn, op, kind, i, who), op, kind, i, who)
<1> DEFINE a == Taken(conn, i)
           b == Released(a, conn.cur["cursor"])
           c == Released(b, conn.cur["dyn"])
<1>0. conn.cur["cursor"] \in Names /\ conn.cur["dyn"] \in Names
  BY DEF Connection, Kinds
<1>1. a \in Connection /\ ObjectsOnly(conn, a)
  BY TakenConn
<1> HIDE DEF a
<1>2. b \in Connection /\ ObjectsOnly(a, b)
  BY <1>0, <1>1, ReleasedConn
<1> HIDE DEF b
<1>3. c \in Connection /\ ObjectsOnly(b, c)
  BY <1>0, <1>2, ReleasedConn
<1>4. Requested(conn, op, kind, i, who)
        = [c EXCEPT !.state = "pending", !.op = op, !.by = who,
                    !.cur = [NoObjs EXCEPT ![kind] = i]]
  BY DEF Requested, a, b
<1> HIDE DEF c
<1>5. ObjectsOnly(conn, c)
  BY <1>1, <1>2, <1>3 DEF ObjectsOnly
<1>6. [NoObjs EXCEPT ![kind] = i] \in [Kinds -> Names]
  BY ObjsNamed DEF NoObjs
<1> QED
  BY <1>3, <1>4, <1>5, <1>6 DEF Connection, ObjectsOnly, Sent

\* Locking changes the owner, if it can, and nothing else.
LEMMA LockedConn ==
  ASSUME NEW conn \in Connection, NEW s \in Stmts
  PROVE  /\ OwnerOnly(conn, Locked(conn, s))
         /\ IF CanLock(s)
            THEN /\ Locked(conn, s).current = s
                 /\ Locked(conn, s).tds = (conn.tds \ {conn.current}) \cup {s}
            ELSE /\ Locked(conn, s).current = conn.current
                 /\ Locked(conn, s).tds = conn.tds
BY DEF Locked, Connection, OwnerOnly

\* Unlocking changes the owner, if it is the statement, and nothing else.
LEMMA UnlockedConn ==
  ASSUME NEW conn \in Connection, NEW s \in Stmts \cup {"dbc"}
  PROVE  /\ OwnerOnly(conn, Unlocked(conn, s))
         /\ IF conn.current = s /\ conn.state = "idle"
            THEN /\ Unlocked(conn, s).current = "none"
                 /\ Unlocked(conn, s).tds = conn.tds \ {s}
            ELSE /\ Unlocked(conn, s).current = conn.current
                 /\ Unlocked(conn, s).tds = conn.tds
BY DEF Unlocked, Connection, OwnerOnly

---------------------------------------------------------------------------
(* References: what an operator adds to the count of an object, less what   *)
(* the connection itself refers to it.                                      *)

SameExcess(c, d) == \A j \in Objs : Excess(d, j) = Excess(c, j)
LessExcess(c, d, i) == \A j \in Objs : Excess(d, j) = Excess(c, j) - Bit(j = i)
MoreExcess(c, d, i) == \A j \in Objs : Excess(d, j) = Excess(c, j) + Bit(j = i)

\* an object that is still referred to is the one it was
Moves(c, d) ==
  \A j \in Objs : d.obj[j].refs >= 1 =>
    c.obj[j].refs >= 1 /\ d.obj[j].kind = c.obj[j].kind

\* no object is deferred that was not
Defers(c, d) == \A j \in Objs : d.obj[j].defer => c.obj[j].defer

\* no object is in both lists, or twice in one
Apart(c) ==
  /\ \A k \in Kinds : IsInjective(c.list[k])
  /\ ToSet(c.list["dyn"]) \cap ToSet(c.list["cursor"]) = {}

\* the types of an object's fields
LEMMA ObjectFields ==
  ASSUME NEW c \in Connection, NEW j \in Objs
  PROVE  /\ c.obj[j].refs \in Int /\ c.obj[j].defer \in BOOLEAN
         /\ c.obj[j].known \in BOOLEAN /\ c.obj \in [Objs -> Object]
BY DEF Connection, Object

\* the references that others hold are a number
LEMMA ExcessTyped ==
  ASSUME NEW c \in Connection, NEW j \in Objs PROVE Excess(c, j) \in Int
BY ObjectFields DEF Excess, Bit

\* the same lists and the same last request: only the counts matter
LEMMA ExcessOfRefs ==
  ASSUME NEW c \in Connection, NEW d \in Connection, NEW j \in Objs,
         d.cur = c.cur, d.list = c.list
  PROVE  Excess(d, j) = Excess(c, j) + d.obj[j].refs - c.obj[j].refs
<1>1. /\ c.obj[j].refs \in Int /\ d.obj[j].refs \in Int
      /\ Bit(c.cur["dyn"] = j) \in Int /\ Bit(c.cur["cursor"] = j) \in Int
      /\ Bit(j \in Listed(c)) \in Int
  BY ObjectFields DEF Bit
<1>2. Listed(d) = Listed(c)
  BY DEF Listed
<1> QED
  BY <1>1, <1>2 DEF Excess

\* Taken is one more reference to its object.
LEMMA TakenCounts ==
  ASSUME NEW conn \in Connection, NEW i \in Names,
         i # NoObj => conn.obj[i].refs >= 1
  PROVE  /\ Moves(conn, Taken(conn, i)) /\ Defers(conn, Taken(conn, i))
         /\ MoreExcess(conn, Taken(conn, i), i)
<1> DEFINE d == Taken(conn, i)
<1>1. d \in Connection /\ ObjectsOnly(conn, d)
      /\ d.obj = IF i = NoObj THEN conn.obj ELSE [conn.obj EXCEPT ![i].refs = @ + 1]
  BY TakenConn
<1> HIDE DEF d
<1>2. ASSUME NEW j \in Objs
      PROVE  /\ d.obj[j].refs = conn.obj[j].refs + Bit(j = i)
             /\ d.obj[j].kind = conn.obj[j].kind
             /\ d.obj[j].defer = conn.obj[j].defer
  BY <1>1, ObjsNamed, ObjectFields DEF Bit, Object
<1>3. ASSUME NEW j \in Objs PROVE Excess(d, j) = Excess(conn, j) + Bit(j = i)
  <2>1. Excess(d, j) = Excess(conn, j) + d.obj[j].refs - conn.obj[j].refs
    BY <1>1, ExcessOfRefs DEF ObjectsOnly
  <2> QED
    BY <1>1, <1>2, <2>1, ObjectFields, ExcessTyped DEF Bit
<1>4. Moves(conn, d) /\ Defers(conn, d)
  BY <1>1, <1>2, ObjsNamed, ObjectFields DEF Moves, Defers, Bit
<1> QED
  BY <1>3, <1>4 DEF MoreExcess, d

\* Released is one reference less to its object.
LEMMA ReleasedCounts ==
  ASSUME NEW conn \in Connection, NEW i \in Names
  PROVE  /\ Moves(conn, Released(conn, i)) /\ Defers(conn, Released(conn, i))
         /\ LessExcess(conn, Released(conn, i), i)
<1> DEFINE d == Released(conn, i)
<1>1. d \in Connection /\ ObjectsOnly(conn, d)
      /\ d.obj = IF i = NoObj THEN conn.obj
                 ELSE [conn.obj EXCEPT ![i] =
                        IF @.refs = 1 THEN FreeObj
                        ELSE [@ EXCEPT !.refs = conn.obj[i].refs - 1]]
  BY ReleasedConn
<1> HIDE DEF d
<1>2. ASSUME NEW j \in Objs
      PROVE  /\ d.obj[j].refs = conn.obj[j].refs - Bit(j = i)
             /\ d.obj[j].refs >= 1 => d.obj[j].kind = conn.obj[j].kind
             /\ d.obj[j].defer => conn.obj[j].defer
  <2>1. conn.obj \in [Objs -> Object] /\ conn.obj[j] \in Object
    BY DEF Connection
  <2>2. CASE j # i
    BY <1>1, <2>1, <2>2, ObjectFields DEF Bit
  <2>3. CASE j = i /\ conn.obj[j].refs = 1
    BY <1>1, <2>1, <2>3, ObjsNamed, FreeObjTyped DEF Bit, FreeObj
  <2>4. CASE j = i /\ conn.obj[j].refs # 1
    BY <1>1, <2>1, <2>4, ObjsNamed DEF Bit, Object
  <2> QED
    BY <2>2, <2>3, <2>4
<1>3. ASSUME NEW j \in Objs PROVE Excess(d, j) = Excess(conn, j) - Bit(j = i)
  <2>1. Excess(d, j) = Excess(conn, j) + d.obj[j].refs - conn.obj[j].refs
    BY <1>1, ExcessOfRefs DEF ObjectsOnly
  <2> QED
    BY <1>1, <1>2, <2>1, ObjectFields, ExcessTyped DEF Bit
<1>4. Moves(conn, d) /\ Defers(conn, d)
  BY <1>1, <1>2, ObjectFields DEF Moves, Defers, Bit
<1> QED
  BY <1>3, <1>4 DEF LessExcess, d

\* objects that move on twice move on
LEMMA MovesOn ==
  ASSUME NEW a, NEW b, NEW c, Moves(a, b), Moves(b, c) PROVE Moves(a, c)
BY DEF Moves

\* what is deferred by none of two steps is not by both
LEMMA DefersOn ==
  ASSUME NEW a, NEW b, NEW c, Defers(a, b), Defers(b, c) PROVE Defers(a, c)
BY DEF Defers

\* A request takes its object over from the request before it.
LEMMA RequestedCounts ==
  ASSUME NEW conn \in Connection, NEW op \in Ops, NEW kind \in Kinds,
         NEW i \in Names, NEW who \in Stmts \cup {"dbc", "close"},
         i # NoObj => conn.obj[i].refs >= 1
  PROVE  LET d == Requested(conn, op, kind, i, who)
         IN  Moves(conn, d) /\ Defers(conn, d) /\ SameExcess(conn, d)
<1> DEFINE a == Taken(conn, i)
           b == Released(a, conn.cur["cursor"])
           c == Released(b, conn.cur["dyn"])
           d == Requested(conn, op, kind, i, who)
<1>0. conn.cur["cursor"] \in Names /\ conn.cur["dyn"] \in Names
  BY KindNames DEF Connection
<1>1. /\ a \in Connection /\ ObjectsOnly(conn, a) /\ Moves(conn, a)
      /\ Defers(conn, a) /\ MoreExcess(conn, a, i)
  BY TakenConn, TakenCounts
<1> HIDE DEF a
<1>2. /\ b \in Connection /\ ObjectsOnly(a, b) /\ Moves(a, b) /\ Defers(a, b)
      /\ LessExcess(a, b, conn.cur["cursor"])
  BY <1>0, <1>1, ReleasedConn, ReleasedCounts
<1> HIDE DEF b
<1>3. /\ c \in Connection /\ ObjectsOnly(b, c) /\ Moves(b, c) /\ Defers(b, c)
      /\ LessExcess(b, c, conn.cur["dyn"])
  BY <1>0, <1>2, ReleasedConn, ReleasedCounts
<1>4. d.obj = c.obj
  BY DEF Requested, a, b
<1> HIDE DEF c
<1>5. Sent(conn, d, op, kind, i, who)
  BY RequestedConn
<1> HIDE DEF d
<1>6. Moves(conn, d) /\ Defers(conn, d)
  BY <1>1, <1>2, <1>3, <1>4, MovesOn, DefersOn DEF Moves, Defers
<1>7. ASSUME NEW j \in Objs PROVE Excess(d, j) = Excess(conn, j)
  <2>1. /\ Excess(a, j) = Excess(conn, j) + a.obj[j].refs - conn.obj[j].refs
        /\ Excess(b, j) = Excess(a, j) + b.obj[j].refs - a.obj[j].refs
        /\ Excess(c, j) = Excess(b, j) + c.obj[j].refs - b.obj[j].refs
    BY <1>1, <1>2, <1>3, ExcessOfRefs DEF ObjectsOnly
  <2>2. /\ Excess(a, j) = Excess(conn, j) + Bit(j = i)
        /\ Excess(b, j) = Excess(a, j) - Bit(j = conn.cur["cursor"])
        /\ Excess(c, j) = Excess(b, j) - Bit(j = conn.cur["dyn"])
    BY <1>1, <1>2, <1>3 DEF MoreExcess, LessExcess
  <2>3. d.obj[j].refs = ((conn.obj[j].refs + Bit(j = i))
                          - Bit(j = conn.cur["cursor"])) - Bit(j = conn.cur["dyn"])
    <3>1. /\ Excess(a, j) \in Int /\ Excess(b, j) \in Int
          /\ Excess(c, j) \in Int /\ Excess(conn, j) \in Int
      BY <1>1, <1>2, <1>3, ExcessTyped
    <3>2. /\ a.obj[j].refs \in Int /\ b.obj[j].refs \in Int
          /\ c.obj[j].refs \in Int /\ conn.obj[j].refs \in Int
      BY <1>1, <1>2, <1>3, ObjectFields
    <3>3. a.obj[j].refs = conn.obj[j].refs + Bit(j = i)
      BY <2>1, <2>2, <3>1, <3>2 DEF Bit
    <3>4. b.obj[j].refs = a.obj[j].refs - Bit(j = conn.cur["cursor"])
      BY <2>1, <2>2, <3>1, <3>2 DEF Bit
    <3>5. c.obj[j].refs = b.obj[j].refs - Bit(j = conn.cur["dyn"])
      BY <2>1, <2>2, <3>1, <3>2 DEF Bit
    <3> QED
      BY <1>4, <3>3, <3>4, <3>5
  <2>4. Bit(d.cur["dyn"] = j) + Bit(d.cur["cursor"] = j) = Bit(j = i)
    BY <1>5, ObjsNamed, KindNames DEF Sent, NoObjs, Bit, Kinds
  <2>5. Listed(d) = Listed(conn)
    BY <1>5 DEF Sent, Listed
  <2>6. Bit(j = conn.cur["cursor"]) = Bit(conn.cur["cursor"] = j)
        /\ Bit(j = conn.cur["dyn"]) = Bit(conn.cur["dyn"] = j)
    BY DEF Bit
  <2>7. Excess(d, j) = d.obj[j].refs - Bit(d.cur["dyn"] = j)
                         - Bit(d.cur["cursor"] = j) - Bit(j \in Listed(d))
        /\ Excess(conn, j) = conn.obj[j].refs - Bit(conn.cur["dyn"] = j)
                         - Bit(conn.cur["cursor"] = j) - Bit(j \in Listed(conn))
    BY DEF Excess
  <2> QED
    BY <1>5, <2>3, <2>4, <2>5, <2>6, <2>7, ObjectFields DEF Bit, Sent
<1> QED
  BY <1>6, <1>7 DEF SameExcess, d

\* A change of owner counts for nothing.
LEMMA OwnerCounts ==
  ASSUME NEW c \in Connection, NEW d, OwnerOnly(c, d)
  PROVE  Moves(c, d) /\ Defers(c, d) /\ SameExcess(c, d) /\ Listed(d) = Listed(c)
BY DEF OwnerOnly, Moves, Defers, SameExcess, Excess, Listed

\* the elements of a list that lost a node, or has a new one at an end
LEMMA UnlinkedElements ==
  ASSUME NEW l \in Seq(Objs), NEW i \in ToSet(l), IsInjective(l)
  PROVE  /\ ToSet(Unlinked(l, i)) = ToSet(l) \ {i}
         /\ IsInjective(Unlinked(l, i))
<1> DEFINE u == Unlinked(l, i)
<1>1. PICK n \in 1..Len(l) :
           /\ l[n] = i /\ u \in Seq(Objs) /\ Len(u) = Len(l) - 1
           /\ \A m \in 1..(Len(l) - 1) : u[m] = IF m < n THEN l[m] ELSE l[m + 1]
  BY UnlinkedList
<1> HIDE DEF u
<1>2. /\ Len(l) \in Nat /\ DOMAIN l = 1..Len(l) /\ DOMAIN u = 1..(Len(l) - 1)
  BY <1>1
<1>3. \A a, b \in 1..Len(l) : l[a] = l[b] => a = b
  BY <1>2 DEF IsInjective
<1>4. IsInjective(u)
  BY <1>1, <1>2, <1>3 DEF IsInjective
<1>5. ASSUME NEW x \in ToSet(u) PROVE x \in ToSet(l) \ {i}
  <2>1. PICK m \in 1..(Len(l) - 1) : x = u[m]
    BY <1>2 DEF ToSet
  <2>2. CASE m < n
    <3>1. x = l[m] /\ m \in 1..Len(l) /\ m # n
      BY <1>1, <1>2, <2>1, <2>2
    <3> QED
      BY <1>1, <1>2, <1>3, <3>1 DEF ToSet
  <2>3. CASE ~(m < n)
    <3>1. x = l[m + 1] /\ m + 1 \in 1..Len(l) /\ m + 1 # n
      BY <1>1, <1>2, <2>1, <2>3
    <3> QED
      BY <1>1, <1>2, <1>3, <3>1 DEF ToSet
  <2> QED
    BY <2>2, <2>3
<1>6. ASSUME NEW x \in ToSet(l) \ {i} PROVE x \in ToSet(u)
  <2>1. PICK m \in 1..Len(l) : x = l[m] /\ m # n
    BY <1>1, <1>2 DEF ToSet
  <2>2. CASE m < n
    <3>1. m \in 1..(Len(l) - 1) /\ u[m] = x
      BY <1>1, <1>2, <2>1, <2>2
    <3> QED
      BY <1>2, <3>1 DEF ToSet
  <2>3. CASE ~(m < n)
    <3>1. m - 1 \in 1..(Len(l) - 1) /\ ~(m - 1 < n) /\ (m - 1) + 1 = m
      BY <1>1, <1>2, <2>1, <2>3
    <3>2. u[m - 1] = x
      BY <1>1, <2>1, <3>1
    <3> QED
      BY <1>2, <3>1, <3>2 DEF ToSet
  <2> QED
    BY <2>2, <2>3
<1> QED
  BY <1>4, <1>5, <1>6 DEF u

\* What linking an object at either end adds to a list.
LEMMA LinkedElements ==
  ASSUME NEW l \in Seq(Objs), NEW i \in Objs, i \notin ToSet(l), IsInjective(l),
         NEW n, n = <<i>> \o l \/ n = Append(l, i)
  PROVE  n \in Seq(Objs) /\ ToSet(n) = ToSet(l) \cup {i} /\ IsInjective(n)
<1>1. Len(l) \in Nat /\ DOMAIN l = 1..Len(l)
  OBVIOUS
<1>2. CASE n = Append(l, i)
  <2>1. /\ n \in Seq(Objs) /\ Len(n) = Len(l) + 1 /\ n[Len(l) + 1] = i
        /\ \A m \in 1..Len(l) : n[m] = l[m]
    BY <1>2, AppendProperties
  <2>2. DOMAIN n = 1..(Len(l) + 1)
    BY <2>1
  <2> QED
    BY <1>1, <2>1, <2>2 DEF ToSet, IsInjective
<1>3. CASE n = <<i>> \o l
  <2>1. <<i>> \in Seq(Objs) /\ Len(<<i>>) = 1 /\ <<i>>[1] = i
    OBVIOUS
  <2>2. /\ n \in Seq(Objs) /\ Len(n) = 1 + Len(l)
        /\ \A m \in 1..(1 + Len(l)) : n[m] = IF m <= 1 THEN <<i>>[m] ELSE l[m - 1]
    BY <1>3, <2>1, ConcatProperties
  <2>3. DOMAIN n = 1..(Len(l) + 1) /\ n[1] = i
        /\ \A m \in 2..(Len(l) + 1) : n[m] = l[m - 1] /\ m - 1 \in 1..Len(l)
    BY <1>1, <2>1, <2>2
  <2>4. \A m \in 1..Len(l) : n[m + 1] = l[m] /\ m + 1 \in 2..(Len(l) + 1)
    BY <1>1, <2>3
  <2>5. ToSet(n) = ToSet(l) \cup {i}
    <3>1. \A m \in 1..(Len(l) + 1) : m = 1 \/ m \in 2..(Len(l) + 1)
      BY <1>1
    <3>2. ASSUME NEW x \in ToSet(n) PROVE x \in ToSet(l) \cup {i}
      <4>1. PICK m \in 1..(Len(l) + 1) : x = n[m]
        BY <2>3 DEF ToSet
      <4>2. m = 1 \/ (x = l[m - 1] /\ m - 1 \in 1..Len(l))
        BY <2>3, <3>1, <4>1
      <4> QED
        BY <1>1, <2>3, <4>1, <4>2 DEF ToSet
    <3>3. ASSUME NEW x \in ToSet(l) PROVE x \in ToSet(n)
      <4>1. PICK m \in 1..Len(l) : x = l[m]
        BY <1>1 DEF ToSet
      <4>2. m + 1 \in 1..(Len(l) + 1) /\ n[m + 1] = x
        BY <1>1, <2>4, <4>1
      <4> QED
        BY <2>3, <4>2 DEF ToSet
    <3>4. i \in ToSet(n)
      <4>1. 1 \in 1..(Len(l) + 1)
        BY <1>1
      <4> QED
        BY <2>3, <4>1 DEF ToSet
    <3> QED
      BY <3>2, <3>3, <3>4
  <2>6. IsInjective(n)
    <3>1. \A m \in 2..(Len(l) + 1) : n[m] \in ToSet(l)
      BY <1>1, <2>3 DEF ToSet
    <3>2. ASSUME NEW a \in 1..(Len(l) + 1), NEW b \in 1..(Len(l) + 1), n[a] = n[b]
          PROVE  a = b
      <4>1. CASE a = 1 \/ b = 1
        <5>1. \A m \in 1..(Len(l) + 1) : m = 1 \/ m \in 2..(Len(l) + 1)
          BY <1>1
        <5> QED
          BY <2>3, <3>1, <3>2, <4>1, <5>1
      <4>2. CASE a # 1 /\ b # 1
        <5>1. /\ a \in 2..(Len(l) + 1) /\ b \in 2..(Len(l) + 1)
          BY <1>1, <4>2
        <5>2. l[a - 1] = l[b - 1] /\ a - 1 \in 1..Len(l) /\ b - 1 \in 1..Len(l)
          BY <2>3, <3>2, <5>1
        <5>3. a - 1 = b - 1
          BY <1>1, <5>2 DEF IsInjective
        <5> QED
          BY <5>1, <5>3
      <4> QED
        BY <4>1, <4>2
    <3> QED
      BY <2>3, <3>2 DEF IsInjective
  <2> QED
    BY <2>2, <2>5, <2>6
<1> QED
  BY <1>2, <1>3

\* A new object is referred to by its list, and once more.
LEMMA WithNewCounts ==
  ASSUME NEW conn \in Connection, NEW kind \in Kinds, NEW i \in Objs,
         conn.obj[i].refs = 0, i \notin Listed(conn), Apart(conn)
  PROVE  LET d == WithNew(conn, kind, i)
         IN  /\ MoreExcess(conn, d, i) /\ Defers(conn, d) /\ Apart(d)
             /\ d.obj[i].refs = 2 /\ d.obj[i].kind = kind
             /\ d.pending_close = conn.pending_close
             /\ \A j \in Objs \ {i} : d.obj[j] = conn.obj[j]
             /\ ToSet(d.list[kind]) = ToSet(conn.list[kind]) \cup {i}
             /\ \A k \in Kinds \ {kind} : d.list[k] = conn.list[k]
<1> DEFINE d == WithNew(conn, kind, i)
           n == IF kind = "dyn" THEN <<i>> \o conn.list[kind]
                                ELSE Append(conn.list[kind], i)
<1>1. /\ conn.list \in [Kinds -> Seq(Objs)] /\ conn.obj \in [Objs -> Object]
      /\ conn.list[kind] \in Seq(Objs)
  BY DEF Connection
<1>2. i \notin ToSet(conn.list[kind]) /\ IsInjective(conn.list[kind])
  BY DEF Listed, Apart, Kinds
<1>3. /\ n \in Seq(Objs) /\ ToSet(n) = ToSet(conn.list[kind]) \cup {i}
      /\ IsInjective(n)
  <2>1. n = <<i>> \o conn.list[kind] \/ n = Append(conn.list[kind], i)
    OBVIOUS
  <2> HIDE DEF n
  <2> QED
    BY <1>1, <1>2, <2>1, LinkedElements
<1>4. /\ d \in Connection /\ Undisturbed(conn, d)
  BY WithNewConn
<1>5. /\ d.list = [conn.list EXCEPT ![kind] = n]
      /\ d.obj = [conn.obj EXCEPT ![i] = [FreeObj EXCEPT !.kind = kind, !.refs = 2]]
      /\ d.pending_close = conn.pending_close
  BY DEF WithNew, Connection
<1> HIDE DEF n, d
<1>6. /\ d.obj[i].refs = 2 /\ d.obj[i].kind = kind /\ ~d.obj[i].defer
      /\ \A j \in Objs \ {i} : d.obj[j] = conn.obj[j]
  BY <1>1, <1>5 DEF FreeObj
<1>7. /\ d.list[kind] = n /\ \A k \in Kinds \ {kind} : d.list[k] = conn.list[k]
  BY <1>1, <1>5
<1>8. Listed(d) = Listed(conn) \cup {i}
  BY <1>3, <1>7 DEF Listed, Kinds
<1>9. Apart(d)
  <2>1. \A k \in Kinds : IsInjective(d.list[k])
    BY <1>3, <1>7 DEF Apart
  <2> QED
    BY <1>3, <1>7, <2>1 DEF Apart, Listed, Kinds
<1>10. MoreExcess(conn, d, i)
  <2>1. ASSUME NEW j \in Objs PROVE Excess(d, j) = Excess(conn, j) + Bit(j = i)
    <3>1. d.cur = conn.cur /\ conn.obj[j].refs \in Int
      BY <1>4, ObjectFields DEF Undisturbed
    <3>2. CASE j = i
      <4>1. /\ d.obj[j].refs = 2 /\ conn.obj[j].refs = 0
            /\ j \in Listed(d) /\ j \notin Listed(conn)
        BY <1>6, <1>8, <3>2
      <4> QED
        BY <3>1, <3>2, <4>1 DEF Excess, Bit
    <3>3. CASE j # i
      <4>1. d.obj[j].refs = conn.obj[j].refs /\ (j \in Listed(d) <=> j \in Listed(conn))
        BY <1>6, <1>8, <3>3
      <4> QED
        BY <3>1, <3>3, <4>1 DEF Excess, Bit
    <3> QED
      BY <3>2, <3>3
  <2> QED
    BY <2>1 DEF MoreExcess
<1>11. Defers(conn, d)
  BY <1>6 DEF Defers
<1> QED
  BY <1>3, <1>5, <1>6, <1>7, <1>9, <1>10, <1>11 DEF d

\* What leaves its list is let go by it.
LEMMA DeallocatedCounts ==
  ASSUME NEW conn \in Connection, NEW kind \in Kinds, NEW i \in Names, Apart(conn)
  PROVE  LET d == Deallocated(conn, kind, i)
         IN  /\ SameExcess(conn, d) /\ Moves(conn, d) /\ Defers(conn, d) /\ Apart(d)
             /\ ToSet(d.list[kind]) = ToSet(conn.list[kind]) \ {i}
             /\ \A k \in Kinds \ {kind} : d.list[k] = conn.list[k]
<1> DEFINE d == Deallocated(conn, kind, i)
           mid == [conn EXCEPT !.list[kind] = Unlinked(@, i),
                               !.obj[i].known = FALSE]
           u == Unlinked(conn.list[kind], i)
<1>1. CASE i \notin ToSet(conn.list[kind])
  BY <1>1 DEF Deallocated, SameExcess, Moves, Defers
<1>2. CASE i \in ToSet(conn.list[kind])
  <2>1. /\ conn.list \in [Kinds -> Seq(Objs)] /\ conn.obj \in [Objs -> Object]
        /\ conn.list[kind] \in Seq(Objs) /\ IsInjective(conn.list[kind])
    BY DEF Connection, Apart
  <2>2. i \in Objs
    BY <1>2, <2>1 DEF ToSet
  <2>3. /\ u \in Seq(Objs) /\ ToSet(u) = ToSet(conn.list[kind]) \ {i}
        /\ IsInjective(u)
    BY <1>2, <2>1, UnlinkedList, UnlinkedElements
  <2>4. d = Released(mid, i)
    BY <1>2 DEF Deallocated
  <2>5. /\ mid.list = [conn.list EXCEPT ![kind] = u] /\ mid.cur = conn.cur
        /\ mid.obj = [conn.obj EXCEPT ![i].known = FALSE]
    BY DEF Connection
  <2>6. mid \in Connection
    <3> DEFINE l == [conn.list EXCEPT ![kind] = u]
               f == [conn.obj EXCEPT ![i].known = FALSE]
    <3>1. l \in [Kinds -> Seq(Objs)] /\ f \in [Objs -> Object]
      BY <2>1, <2>3 DEF Object
    <3>2. mid = [conn EXCEPT !.list = l, !.obj = f]
      BY DEF Connection
    <3> HIDE DEF l, f, mid
    <3> QED
      BY <3>1, <3>2 DEF Connection
  <2> HIDE DEF mid, u
  <2>7. \A j \in Objs : /\ mid.obj[j].refs = conn.obj[j].refs
                        /\ mid.obj[j].kind = conn.obj[j].kind
                        /\ mid.obj[j].defer = conn.obj[j].defer
    BY <2>1, <2>5 DEF Object
  <2>8. /\ ObjectsOnly(mid, d) /\ Moves(mid, d) /\ Defers(mid, d)
        /\ LessExcess(mid, d, i)
    <3>1. /\ ObjectsOnly(mid, Released(mid, i)) /\ Moves(mid, Released(mid, i))
          /\ Defers(mid, Released(mid, i)) /\ LessExcess(mid, Released(mid, i), i)
      BY <2>6, ReleasedConn, ReleasedCounts
    <3> HIDE DEF d
    <3> QED
      BY <2>4, <3>1
  <2>9. /\ ToSet(mid.list[kind]) = ToSet(conn.list[kind]) \ {i}
        /\ \A k \in Kinds \ {kind} : mid.list[k] = conn.list[k]
        /\ \A k \in Kinds : IsInjective(mid.list[k])
    BY <2>1, <2>3, <2>5 DEF Apart
  <2>10. Listed(mid) = Listed(conn) \ {i} /\ i \in Listed(conn)
    BY <1>2, <2>9 DEF Listed, Kinds, Apart
  <2>11. ASSUME NEW j \in Objs PROVE Excess(mid, j) = Excess(conn, j) + Bit(j = i)
    BY <2>5, <2>7, <2>10, ObjectFields DEF Excess, Bit
  <2>12. SameExcess(conn, d)
    BY <2>6, <2>8, <2>11, ExcessTyped DEF LessExcess, SameExcess, Bit
  <2>13. Moves(conn, d) /\ Defers(conn, d)
    BY <2>7, <2>8 DEF Moves, Defers
  <2>14. Apart(mid)
    BY <2>9 DEF Apart, Kinds
  <2> QED
    BY <2>8, <2>9, <2>12, <2>13, <2>14 DEF ObjectsOnly, Apart
<1> QED
  BY <1>1, <1>2

\* lists that nothing was added to
NoneListed(c, d) ==
  /\ Apart(d) /\ \A k \in Kinds : ToSet(d.list[k]) \subseteq ToSet(c.list[k])

\* Deferring an object adds no reference to it.
LEMMA DeferredCounts ==
  ASSUME NEW conn \in Connection, NEW kind \in Kinds, NEW i \in Names, Apart(conn)
  PROVE  LET d == Deferred(conn, kind, i)
         IN  /\ SameExcess(conn, d) /\ Moves(conn, d) /\ NoneListed(conn, d)
             /\ Defers(conn, d) \/ d.pending_close
             /\ conn.pending_close => d.pending_close
             /\ \A k \in Kinds : k # kind \/ conn.obj[i].known =>
                  d.list[k] = conn.list[k]
<1>1. CASE conn.obj[i].known
  <2> DEFINE f == [conn.obj EXCEPT ![i].defer = TRUE]
             d == Deferred(conn, kind, i)
  <2>1. conn.obj \in [Objs -> Object]
    BY DEF Connection
  <2>2. f \in [Objs -> Object] /\ \A j \in Objs : /\ f[j].refs = conn.obj[j].refs
                                                  /\ f[j].kind = conn.obj[j].kind
    BY <2>1 DEF Object
  <2>3. d = [conn EXCEPT !.obj = f, !.pending_close = TRUE]
    BY <1>1 DEF Deferred
  <2> HIDE DEF f, d
  <2>4. /\ d \in Connection /\ d.obj = f /\ d.pending_close /\ d.list = conn.list
        /\ d.cur = conn.cur
    BY <2>2, <2>3 DEF Connection
  <2>5. SameExcess(conn, d) /\ Moves(conn, d)
    BY <2>2, <2>4, ExcessOfRefs, ExcessTyped, ObjectFields
       DEF SameExcess, Moves
  <2> QED
    BY <2>4, <2>5 DEF NoneListed, Apart, d
<1>2. CASE ~conn.obj[i].known
  <2>1. Deferred(conn, kind, i) = Deallocated(conn, kind, i)
    BY <1>2 DEF Deferred
  <2> DEFINE d == Deallocated(conn, kind, i)
  <2>2. /\ SameExcess(conn, d) /\ Moves(conn, d) /\ Defers(conn, d) /\ Apart(d)
        /\ ToSet(d.list[kind]) = ToSet(conn.list[kind]) \ {i}
        /\ \A k \in Kinds \ {kind} : d.list[k] = conn.list[k]
        /\ d.pending_close = conn.pending_close
    BY DeallocatedCounts, DeallocatedConn
  <2> HIDE DEF d
  <2>3. NoneListed(conn, d)
    BY <2>2 DEF NoneListed
  <2> QED
    BY <1>2, <2>1, <2>2, <2>3 DEF d
<1> QED
  BY <1>1, <1>2

\* The check of a cursor adds no reference to it.
LEMMA CheckedCounts ==
  ASSUME NEW conn \in Connection, NEW i \in Names, Apart(conn)
  PROVE  LET d == tds_cursor_check_allocated(conn, i)
         IN  /\ SameExcess(conn, d) /\ Moves(conn, d) /\ NoneListed(conn, d)
             /\ Defers(conn, d) /\ d.pending_close = conn.pending_close
             /\ d.list["dyn"] = conn.list["dyn"]
<1>1. CASE conn.obj[i].known
  BY <1>1 DEF tds_cursor_check_allocated, SameExcess, Moves, NoneListed, Defers
<1>2. CASE ~conn.obj[i].known
  <2> DEFINE d == Deallocated(conn, "cursor", i)
  <2>1. tds_cursor_check_allocated(conn, i) = d
    BY <1>2 DEF tds_cursor_check_allocated
  <2>2. /\ SameExcess(conn, d) /\ Moves(conn, d) /\ Defers(conn, d) /\ Apart(d)
        /\ ToSet(d.list["cursor"]) = ToSet(conn.list["cursor"]) \ {i}
        /\ \A k \in Kinds \ {"cursor"} : d.list[k] = conn.list[k]
        /\ d.pending_close = conn.pending_close
    <3>1. /\ SameExcess(conn, d) /\ Moves(conn, d) /\ Defers(conn, d) /\ Apart(d)
          /\ ToSet(d.list["cursor"]) = ToSet(conn.list["cursor"]) \ {i}
          /\ \A k \in Kinds \ {"cursor"} : d.list[k] = conn.list[k]
      BY DeallocatedCounts, KindNames
    <3>2. d.pending_close = conn.pending_close
      BY DeallocatedConn, KindNames
    <3> QED
      BY <3>1, <3>2
  <2> HIDE DEF d
  <2>3. NoneListed(conn, d) /\ d.list["dyn"] = conn.list["dyn"]
    BY <2>2 DEF NoneListed, Kinds
  <2> QED
    BY <2>1, <2>2, <2>3
<1> QED
  BY <1>1, <1>2

---------------------------------------------------------------------------
(* Calls and their plans.                                                  *)

\* a stage before another
LEMMA TwoStages ==
  ASSUME NEW a, NEW b PROVE <<a>> \o <<b>> = <<a, b>>
<1> DEFINE S == {a, b}
<1>1. <<a>> \in Seq(S) /\ <<b>> \in Seq(S) /\ <<a, b>> \in Seq(S)
  OBVIOUS
<1>2. /\ <<a>> \o <<b>> \in Seq(S) /\ Len(<<a>> \o <<b>>) = 2
      /\ \A i \in 1..2 : (<<a>> \o <<b>>)[i] =
                           IF i <= 1 THEN <<a>>[i] ELSE <<b>>[i - 1]
  BY <1>1, ConcatProperties
<1>3. \A i \in 1..2 : (<<a>> \o <<b>>)[i] = <<a, b>>[i]
  BY <1>2
<1> QED
  BY <1>1, <1>2, <1>3, SeqEqual

\* a stage before two others
LEMMA ThreeStages ==
  ASSUME NEW a, NEW b, NEW c PROVE <<a>> \o <<b, c>> = <<a, b, c>>
<1> DEFINE S == {a, b, c}
<1>1. <<a>> \in Seq(S) /\ <<b, c>> \in Seq(S) /\ <<a, b, c>> \in Seq(S)
  OBVIOUS
<1>2. /\ <<a>> \o <<b, c>> \in Seq(S) /\ Len(<<a>> \o <<b, c>>) = 3
      /\ \A i \in 1..3 : (<<a>> \o <<b, c>>)[i] =
                           IF i <= 1 THEN <<a>>[i] ELSE <<b, c>>[i - 1]
  BY <1>1, ConcatProperties
<1>3. \A i \in 1..3 : (<<a>> \o <<b, c>>)[i] = <<a, b, c>>[i]
  BY <1>2
<1> QED
  BY <1>1, <1>2, <1>3, SeqEqual

\* what is left of a plan is a plan, and a stage that sends a request puts the
\* handling of its answer in its place
LEMMA PlanRest ==
  ASSUME NEW p \in Plans
  PROVE  /\ p # <<>> /\ Tail(p) \in Plans \cup {<<>>} /\ Tail(p) # <<"opened">>
         /\ Head(p) = "free_dynamic" =>
              <<"unprepared">> \o Tail(p) \in Plans \ {<<"opened">>, <<"prepexec">>}
         /\ Head(p) = "free_cursor" =>
              <<"closed">> \o Tail(p) \in Plans \ {<<"opened">>, <<"prepexec">>}
         /\ Tail(p) = <<"prepexec">> => Head(p) \in {"free_dynamic", "unprepared"}
         /\ Head(p) = "drop" => Tail(p) = <<>>
         /\ Head(p) = "opened" => p = <<"opened">>
<1>1. CASE \E a \in {"set_query", "prepexec", "free_cursor", "closed", "drop",
                     "execute", "opened", "prepared", "fetched", "results",
                     "unlock", "stay"} : p = <<a>>
  <2>1. PICK a \in {"set_query", "prepexec", "free_cursor", "closed", "drop",
                    "execute", "opened", "prepared", "fetched", "results",
                    "unlock", "stay"} : p = <<a>>
    BY <1>1
  <2>2. Tail(p) = <<>> /\ Head(p) = a /\ p # <<>> /\ <<>> # <<"opened">>
    BY <2>1
  <2>3. /\ <<"closed">> \o <<>> = <<"closed">> /\ <<"closed">> # <<"opened">>
        /\ <<"closed">> # <<"prepexec">> /\ <<>> # <<"prepexec">>
    OBVIOUS
  <2>4. <<"closed">> \in Plans
    BY DEF Plans
  <2> QED
    BY <2>1, <2>2, <2>3, <2>4
<1>2. CASE \E a \in {"free_dynamic", "unprepared"},
              b \in {"set_query", "prepexec", "drop"} : p = <<a, b>>
  <2>1. PICK a \in {"free_dynamic", "unprepared"},
             b \in {"set_query", "prepexec", "drop"} : p = <<a, b>>
    BY <1>2
  <2>2. Tail(p) = <<b>> /\ Head(p) = a /\ p # <<>> /\ <<b>> # <<"opened">>
    BY <2>1
  <2>3. <<"unprepared">> \o <<b>> = <<"unprepared", b>>
    BY TwoStages
  <2>4. <<b>> \in Plans /\ <<"unprepared", b>> \in Plans
    BY DEF Plans
  <2>5. <<"unprepared", b>> # <<"opened">> /\ <<"unprepared", b>> # <<"prepexec">>
    OBVIOUS
  <2> QED
    BY <2>1, <2>2, <2>3, <2>4, <2>5
<1>3. CASE \E a \in {"free_cursor", "closed"} : p = <<a, "free_dynamic", "drop">>
  <2>1. PICK a \in {"free_cursor", "closed"} : p = <<a, "free_dynamic", "drop">>
    BY <1>3
  <2>2. /\ Tail(p) = <<"free_dynamic", "drop">> /\ Head(p) = a /\ p # <<>>
        /\ <<"free_dynamic", "drop">> # <<"opened">>
        /\ <<"free_dynamic", "drop">> # <<"prepexec">>
    BY <2>1
  <2>3. <<"closed">> \o <<"free_dynamic", "drop">>
          = <<"closed", "free_dynamic", "drop">>
    BY ThreeStages
  <2>4. /\ <<"free_dynamic", "drop">> \in Plans
        /\ <<"closed", "free_dynamic", "drop">> \in Plans
    BY DEF Plans
  <2>5. /\ <<"closed", "free_dynamic", "drop">> # <<"opened">>
        /\ <<"closed", "free_dynamic", "drop">> # <<"prepexec">>
    OBVIOUS
  <2> QED
    BY <2>1, <2>2, <2>3, <2>4, <2>5
<1> QED
  BY <1>1, <1>2, <1>3 DEF Plans

\* The connection's own calls have one stage.
LEMMA EndPlanRest ==
  ASSUME NEW p \in EndPlans
  PROVE  Tail(p) = <<>> /\ p \notin {<<"opened">>, <<"prepexec">>, <<>>}
<1>1. /\ Tail(<<"commit">>) = <<>> /\ Tail(<<"stay">>) = <<>>
      /\ <<"commit">> \notin {<<"opened">>, <<"prepexec">>, <<>>}
      /\ <<"stay">> \notin {<<"opened">>, <<"prepexec">>, <<>>}
  OBVIOUS
<1> QED
  BY <1>1 DEF EndPlans

\* what the record of no call is
LEMMA NoCallTyped ==
  /\ NoCall \in Call /\ NoCall.stmt = "none" /\ NoCall.todo = <<>>
  /\ NoCall.read = "no" /\ NoCall.last = "none" /\ NoCall.rc = "over"
  /\ NoCall.error = FALSE
BY DEF NoCall, Call

Starts(s, how, stages) ==
  /\ od_call' \in Call /\ od_call'.stmt = s /\ od_call'.todo = stages
  /\ od_call'.read = how /\ od_call'.last = "none" /\ od_call'.rc = "over"

\* what Reads and Enter make of the call
LEMMA CallStarted ==
  ASSUME NEW s \in Stmts \cup {"dbc"}, NEW how \in {"some", "all", "cancel"},
         NEW stages \in Plans \cup EndPlans
  PROVE  /\ Reads(s, how, stages) => Starts(s, how, stages)
         /\ Enter(s, stages) => Starts(s, "no", stages)
BY DEF Reads, Enter, Starts, NoCall, Call


---------------------------------------------------------------------------
(* The statement whose call it is.                                         *)

\* s is allocated, and nothing is being read
Ready(s) ==
  /\ od_stmt[s].live /\ od_scan = NoScan
  /\ od_call.last = "none" /\ od_call.read = "no"
  /\ od_conn.state = "pending" => od_conn.by \in Stmts /\ od_conn.by = od_conn.current

\* A stage of s finds s allocated and nothing being read.
LEMMA ReadyAt ==
  ASSUME TalkInv, NEW s \in Stmts, NEW stage, At(s, stage)
  PROVE  /\ Ready(s) /\ od_call.stmt = s /\ od_call.todo \in Plans
         /\ Head(od_call.todo) = stage
<1>1. od_call.stmt = s /\ od_call.read = "no" /\ Head(od_call.todo) = stage
  BY DEF At
<1>2. s # "none" /\ s # "dbc"
  BY OdAssumption
<1>3. od_stmt[s].live /\ od_call.todo \in Plans
  BY <1>1, <1>2, NoCallTyped DEF TalkInv, Planned
<1>4. od_call.last = "none" /\ od_scan = NoScan
  BY <1>1 DEF TalkInv, Phases
<1>5. ~od_scan.wait
  BY <1>4 DEF NoScan
<1> QED
  BY <1>1, <1>2, <1>3, <1>4, <1>5 DEF TalkInv, Senders, Ready

\* A call of s finds s allocated and nothing being read.
LEMMA ReadyCalling ==
  ASSUME TalkInv, NEW s \in Stmts, Calling(s)
  PROVE  Ready(s) /\ od_call = NoCall
<1>1. od_call = NoCall /\ od_stmt[s].live
  BY DEF Calling
<1>2. od_scan = NoScan /\ od_call.stmt # "dbc"
  BY <1>1, NoCallTyped DEF TalkInv, Phases
<1>3. ~od_scan.wait
  BY <1>2 DEF NoScan
<1> QED
  BY <1>1, <1>2, <1>3, NoCallTyped DEF TalkInv, Senders, Ready

\* what a step of a call of s does to the connection's state and its owner
Holding(s) ==
  \/ od_conn'.current = od_conn.current /\ od_conn'.tds = od_conn.tds
  \/ /\ CanLock(s) /\ od_conn'.current = s
     /\ od_conn'.tds = (od_conn.tds \ {od_conn.current}) \cup {s}
  \/ /\ od_conn.current = s /\ od_conn.state = "idle"
     /\ od_conn'.current = "none" /\ od_conn'.tds = od_conn.tds \ {s}

Going(s) ==
  \/ od_call' = NoCall
  \/ /\ od_call' \in Call /\ od_call'.stmt = s /\ od_call'.todo \in Plans
     /\ od_call'.last = "none" /\ od_call'.rc = "over"

Talks(s) ==
  /\ od_conn' \in Connection /\ UNCHANGED <<od_scan, od_srv>>
  /\ od_stmt' \in [Stmts -> Statement]
  /\ \A t \in Stmts : od_stmt'[t].live = od_stmt[t].live
  /\ Going(s) /\ Owning' /\ Replaced' /\ Holding(s)
  /\ \/ /\ od_conn'.state = od_conn.state
        /\ od_conn'.by = od_conn.by \/ od_conn.state # "pending"
     \/ /\ od_conn.state = "idle" /\ od_conn'.state = "pending"
        /\ od_conn'.by = s /\ od_conn'.current = s

\* A step of a call of s keeps the conversation in order.
LEMMA TalkGoesOn ==
  ASSUME TalkInv, NEW s \in Stmts, Ready(s), Talks(s) PROVE TalkInv'
<1>1. od_scan' = NoScan /\ ~NoScan.wait /\ NoScan.list = "off"
  BY DEF Ready, Talks, NoScan
<1>2. s # "none" /\ s # "dbc" /\ "none" \notin Stmts
  BY OdAssumption
<1>3. Typed'
  BY NoCallTyped DEF Talks, TalkInv, Typed, Going
<1>4. Planned'
  BY DEF Talks, Going, Planned, Ready
<1>5. Phases'
  BY <1>1, NoCallTyped DEF Talks, Going, Phases
<1>6. Senders'
  BY <1>2 DEF Talks, Holding, Senders, Ready, CanLock
<1>7. OneOwner'
  BY <1>2 DEF Talks, Holding, TalkInv, OneOwner, Ready
<1> QED
  BY <1>3, <1>4, <1>5, <1>6, <1>7 DEF TalkInv, Talks

\* a call that returns
LEMMA Returned ==
  ASSUME NEW s, Return PROVE Going(s) /\ Owning' /\ Replaced'
<1>1. <<>> # <<"opened">> /\ <<>> # <<"prepexec">>
  OBVIOUS
<1> QED
  BY <1>1, NoCallTyped DEF Return, Going, Owning, Replaced

\* how a call goes on, and that it then has no answer of its own to read
LEMMA NextStage ==
  ASSUME NEW s \in Stmts, od_call.todo \in Plans, Goes(s),
         Head(od_call.todo) \in {"free_dynamic", "unprepared"} =>
           od_stmt'[s].has["dyn"] = NoObj
  PROVE  Going(s) /\ Owning' /\ Replaced'
<1>1. /\ Tail(od_call.todo) \in Plans \cup {<<>>} /\ Tail(od_call.todo) # <<"opened">>
      /\ Tail(od_call.todo) = <<"prepexec">> =>
           Head(od_call.todo) \in {"free_dynamic", "unprepared"}
  BY PlanRest
<1>2. CASE Rest = <<>>
  BY <1>2, Returned DEF Goes
<1>3. CASE Rest # <<>>
  <2>1. Starts(s, "no", Rest)
    BY <1>1, <1>3, CallStarted DEF Goes, Rest
  <2> QED
    BY <1>1, <1>3, <2>1 DEF Starts, Going, Owning, Replaced, Rest
<1> QED
  BY <1>2, <1>3

\* a call that goes on with other stages
LEMMA Entered ==
  ASSUME NEW s \in Stmts, NEW stages \in Plans \ {<<"opened">>, <<"prepexec">>},
         Enter(s, stages)
  PROVE  Going(s) /\ Owning' /\ Replaced'
<1>1. Starts(s, "no", stages)
  BY CallStarted
<1> QED
  BY <1>1 DEF Starts, Going, Owning, Replaced

\* reading to the end needs no ownership; what stops before it does
LEMMA ReadsAll ==
  ASSUME NEW s \in Stmts, NEW stages \in Plans \ {<<"opened">>, <<"prepexec">>},
         Reads(s, "all", stages)
  PROVE  Going(s) /\ Owning' /\ Replaced'
<1>1. Starts(s, "all", stages)
  BY CallStarted
<1> QED
  BY <1>1 DEF Starts, Going, Owning, Replaced

\* a call that reads its own answer, owning the connection
LEMMA ReadsOwned ==
  ASSUME NEW s \in Stmts, NEW how \in {"some", "cancel"},
         NEW stages \in Plans \ {<<"prepexec">>},
         Reads(s, how, stages), od_conn'.current = s
  PROVE  Going(s) /\ Owning' /\ Replaced'
<1>1. Starts(s, how, stages)
  BY CallStarted
<1> QED
  BY <1>1 DEF Starts, Going, Owning, Replaced

\* the statements are allocated as before
SameStatements ==
  /\ od_stmt' \in [Stmts -> Statement]
  /\ \A t \in Stmts : od_stmt'[t].live = od_stmt[t].live

\* the statements as they were are allocated as before
LEMMA StatementsKept ==
  ASSUME TalkInv PROVE UNCHANGED od_stmt => SameStatements
BY DEF TalkInv, Typed, SameStatements

\* a statement that holds another object is allocated as before
LEMMA HasKept ==
  ASSUME TalkInv, NEW s \in Stmts, NEW k \in Kinds, NEW i \in Names,
         od_stmt' = [od_stmt EXCEPT ![s].has[k] = i]
  PROVE  SameStatements
<1>1. od_stmt \in [Stmts -> Statement]
  BY DEF TalkInv, Typed
<1>2. ASSUME NEW o \in Statement
      PROVE  [o EXCEPT !.has = [o.has EXCEPT ![k] = i]] \in Statement
             /\ [o EXCEPT !.has = [o.has EXCEPT ![k] = i]].live = o.live
  BY DEF Statement
<1>3. od_stmt' = [od_stmt EXCEPT ![s] = [od_stmt[s] EXCEPT !.has =
                                           [od_stmt[s].has EXCEPT ![k] = i]]]
  OBVIOUS
<1> QED
  BY <1>1, <1>2, <1>3 DEF SameStatements

\* a statement that lets go of an object is allocated as before
LEMMA FreeKept ==
  ASSUME TalkInv, NEW s \in Stmts, NEW k \in Kinds, Free(s, k)
  PROVE  SameStatements
BY HasKept, ObjsNamed DEF Free

\* what a statement holds is an object or none
LEMMA HasName ==
  ASSUME TalkInv, NEW s \in Stmts, NEW k \in Kinds
  PROVE  od_stmt[s].has[k] \in Names /\ od_conn \in Connection
BY DEF TalkInv, Typed, Statement


---------------------------------------------------------------------------
(* The objects a statement holds.                                          *)

\* what is referred to is not free
LEMMA CountedRefs ==
  ASSUME NEW c \in Connection, NEW j \in Objs,
         NEW p \in {0, 1}, NEW q \in {0, 1}, NEW r \in {0, 1},
         Excess(c, j) = p + q + r
  PROVE  /\ c.obj[j].refs = p + q + r + Bit(c.cur["dyn"] = j)
              + Bit(c.cur["cursor"] = j) + Bit(j \in Listed(c))
         /\ c.obj[j].refs >= 0
         /\ p = 1 \/ q = 1 \/ r = 1 \/ j \in Listed(c) \/ (\E k \in Kinds : c.cur[k] = j)
              => c.obj[j].refs >= 1
<1>1. c.obj[j].refs \in Int
  BY ObjectFields
<1>2. Excess(c, j) = c.obj[j].refs - Bit(c.cur["dyn"] = j)
        - Bit(c.cur["cursor"] = j) - Bit(j \in Listed(c))
  BY DEF Excess
<1>3. c.obj[j].refs = p + q + r + Bit(c.cur["dyn"] = j)
        + Bit(c.cur["cursor"] = j) + Bit(j \in Listed(c))
  BY <1>1, <1>2 DEF Bit
<1>4. (\E k \in Kinds : c.cur[k] = j) =>
        c.cur["dyn"] = j \/ c.cur["cursor"] = j
  BY DEF Kinds
<1>5. c.obj[j].refs >= 0
  BY <1>3 DEF Bit
<1>6. p = 1 \/ q = 1 \/ r = 1 \/ j \in Listed(c)
        \/ c.cur["dyn"] = j \/ c.cur["cursor"] = j => c.obj[j].refs >= 1
  BY <1>3 DEF Bit
<1> QED
  BY <1>3, <1>4, <1>5, <1>6

\* Who is held has a count of one at least.
LEMMA HeldRefs ==
  ASSUME Typed, Counted, NEW j \in Objs
  PROVE  /\ od_conn.obj[j].refs >= 0
         /\ \/ \E s \in Stmts, k \in Kinds : od_stmt[s].has[k] = j
            \/ \E k \in Kinds : od_conn.cur[k] = j
            \/ j \in Listed(od_conn) \/ od_scan.at = j \/ od_scan.next = j
            => od_conn.obj[j].refs >= 1
<1> DEFINE p == Bit(Owned(j))
           q == Bit(od_scan.at = j)
           r == Bit(od_scan.next = j)
<1>1. od_conn \in Connection
  BY DEF Typed
<1>2. p \in {0, 1} /\ q \in {0, 1} /\ r \in {0, 1}
  BY DEF Bit
<1>3. Excess(od_conn, j) = p + q + r
  BY DEF Counted
<1>4. /\ (\E s \in Stmts, k \in Kinds : od_stmt[s].has[k] = j) => p = 1
      /\ od_scan.at = j => q = 1
      /\ od_scan.next = j => r = 1
  BY DEF Owned, Bit
<1> HIDE DEF p, q, r
<1> QED
  BY <1>1, <1>2, <1>3, <1>4, CountedRefs

\* The lists share no object.
LEMMA ListsApart ==
  ASSUME Typed, Sorted
  PROVE  Apart(od_conn) /\ \A k \in Kinds : ToSet(od_conn.list[k]) \subseteq Objs
<1>1. \A k \in Kinds : od_conn.list[k] \in Seq(Objs)
  BY DEF Typed, Connection
<1>2. \A k \in Kinds : ToSet(od_conn.list[k]) \subseteq Objs
  BY <1>1 DEF ToSet
<1>3. \A k \in Kinds : \A i \in ToSet(od_conn.list[k]) : od_conn.obj[i].kind = k
  BY <1>2, ObjsNamed DEF Sorted, OfKind
<1>4. "dyn" # "cursor"
  OBVIOUS
<1> QED
  BY <1>2, <1>3, <1>4, KindNames DEF Apart, Sorted

\* s now has i for its object of kind k
Swaps(s, k, i) ==
  /\ \A t \in Stmts, l \in Kinds :
       od_stmt'[t].has[l] = IF t = s /\ l = k THEN i ELSE od_stmt[t].has[l]
  /\ \A j \in Objs : Excess(od_conn', j)
       = (Excess(od_conn, j) - Bit(j = od_stmt[s].has[k])) + Bit(j = i)
  /\ \/ i = NoObj \/ i = od_stmt[s].has[k]
     \/ i \in Objs /\ od_conn.obj[i].refs = 0
  /\ \A j \in Objs : od_conn'.obj[j].refs >= 1 =>
       \/ od_conn.obj[j].refs >= 1 /\ od_conn'.obj[j].kind = od_conn.obj[j].kind
       \/ j = i /\ od_conn'.obj[j].kind = k
  /\ Apart(od_conn')
  /\ \A l \in Kinds :
       /\ ToSet(od_conn'.list[l]) \subseteq
            ToSet(od_conn.list[l]) \cup (IF l = k THEN {i} ELSE {})
       /\ od_conn'.cur[l] \in {NoObj, od_conn.cur[l], od_stmt[s].has[l],
                               od_stmt'[s].has[l]}

\* A step that swaps one object of a statement keeps the counts.
LEMMA HoldGoesOn ==
  ASSUME Typed, HoldInv, Typed', od_scan = NoScan, UNCHANGED od_scan,
         NEW s \in Stmts, NEW k \in Kinds, NEW i \in Names, Swaps(s, k, i)
  PROVE  HoldInv'
<1> DEFINE old == od_stmt[s].has[k]
<1>0. /\ od_scan.at = NoObj /\ od_scan.next = NoObj /\ ~od_scan.wait
      /\ od_conn \in Connection /\ od_conn' \in Connection
  BY DEF NoScan, Typed
<1>1. ASSUME NEW j \in Objs PROVE Bit(Owned(j)') = (Bit(Owned(j)) - Bit(j = old)) + Bit(j = i)
  <2>1. Owned(j) <=> \E t \in Stmts, l \in Kinds : od_stmt[t].has[l] = j
    BY DEF Owned
  <2>2. Owned(j)' <=> \E t \in Stmts, l \in Kinds :
                        j = IF t = s /\ l = k THEN i ELSE od_stmt[t].has[l]
    BY DEF Owned, Swaps
  <2>3. j # NoObj
    BY ObjsNamed
  <2>4. \A t \in Stmts, l \in Kinds : od_stmt[t].has[l] = j /\ j = old => t = s /\ l = k
    BY <2>3 DEF HoldInv, OneHolder
  <2>5. j = old => Owned(j)
    BY <2>1
  <2>6. j = i => Owned(j)'
    BY <2>2
  <2>7. CASE i = old
    <3>1. Owned(j)' <=> Owned(j)
      BY <2>1, <2>2, <2>7
    <3> QED
      BY <2>7, <3>1 DEF Bit
  <2>8. CASE i # old /\ j = old
    <3>1. ~Owned(j)'
      BY <2>2, <2>4, <2>8
    <3> QED
      BY <2>5, <2>8, <3>1 DEF Bit
  <2>9. CASE i # old /\ j = i
    <3>1. od_conn.obj[j].refs = 0
      BY <2>3, <2>9 DEF Swaps
    <3>2. ~Owned(j)
      BY <3>1, HeldRefs DEF HoldInv, Owned
    <3> QED
      BY <2>6, <2>9, <3>2 DEF Bit
  <2>10. CASE i # old /\ j # i /\ j # old
    <3>1. Owned(j)' <=> Owned(j)
      BY <2>1, <2>2, <2>10
    <3> QED
      BY <2>10, <3>1 DEF Bit
  <2> QED
    BY <2>7, <2>8, <2>9, <2>10
<1>2. Counted'
  <2>1. ASSUME NEW j \in Objs
        PROVE  Excess(od_conn', j) = Bit(Owned(j)') + Bit(od_scan'.at = j)
                                       + Bit(od_scan'.next = j)
    <3>1. Excess(od_conn, j) = Bit(Owned(j)) + Bit(od_scan.at = j)
                                 + Bit(od_scan.next = j)
      BY DEF HoldInv, Counted
    <3>2. od_scan'.at # j /\ od_scan'.next # j /\ od_scan.at # j /\ od_scan.next # j
      BY <1>0, ObjsNamed
    <3>3. Excess(od_conn', j) = (Excess(od_conn, j) - Bit(j = old)) + Bit(j = i)
      BY DEF Swaps
    <3>4. Excess(od_conn, j) = Bit(Owned(j))
      BY <3>1, <3>2 DEF Bit
    <3>5. Excess(od_conn', j) = Bit(Owned(j)')
      BY <1>1, <3>3, <3>4
    <3> QED
      BY <3>2, <3>5 DEF Bit
  <2> QED
    BY <2>1 DEF Counted
<1>3. OneHolder'
  <2>1. ASSUME NEW t \in Stmts, NEW l \in Kinds, i # NoObj, i # old
        PROVE  od_stmt[t].has[l] # i
    <3>1. i \in Objs /\ od_conn.obj[i].refs = 0
      BY <2>1 DEF Swaps
    <3> QED
      BY <3>1, HeldRefs DEF HoldInv
  <2>2. ASSUME NEW t \in Stmts, NEW u \in Stmts, NEW l \in Kinds, NEW m \in Kinds,
               od_stmt'[t].has[l] = od_stmt'[u].has[m], od_stmt'[t].has[l] # NoObj
        PROVE  t = u /\ l = m
    <3>1. /\ od_stmt'[t].has[l] = IF t = s /\ l = k THEN i ELSE od_stmt[t].has[l]
          /\ od_stmt'[u].has[m] = IF u = s /\ m = k THEN i ELSE od_stmt[u].has[m]
      BY DEF Swaps
    <3>3. CASE i = old
      <4>1. od_stmt'[t].has[l] = od_stmt[t].has[l] /\ od_stmt'[u].has[m] = od_stmt[u].has[m]
        BY <3>1, <3>3
      <4>2. od_stmt[t].has[l] = od_stmt[u].has[m] /\ od_stmt[t].has[l] # NoObj
        BY <2>2, <4>1
      <4> QED
        BY <4>2 DEF HoldInv, OneHolder
    <3>4. CASE i # old /\ t = s /\ l = k
      BY <2>1, <2>2, <3>1, <3>4
    <3>5. CASE i # old /\ u = s /\ m = k
      BY <2>1, <2>2, <3>1, <3>5
    <3>6. CASE ~(t = s /\ l = k) /\ ~(u = s /\ m = k)
      <4>1. od_stmt'[t].has[l] = od_stmt[t].has[l] /\ od_stmt'[u].has[m] = od_stmt[u].has[m]
        BY <3>1, <3>6
      <4>2. od_stmt[t].has[l] = od_stmt[u].has[m] /\ od_stmt[t].has[l] # NoObj
        BY <2>2, <4>1
      <4> QED
        BY <4>2 DEF HoldInv, OneHolder
    <3> QED
      BY <3>3, <3>4, <3>5, <3>6
  <2> QED
    BY <2>2 DEF OneHolder
<1>4. ASSUME NEW l \in Kinds, NEW j \in Objs,
             j \in ToSet(od_conn'.list[l]) \/ j = od_conn'.cur[l]
               \/ \E t \in Stmts : j = od_stmt'[t].has[l]
      PROVE  od_conn'.obj[j].kind = l
  <2>1. od_conn'.obj[j].refs >= 1
    <3>1. Owned(j)' \/ (\E m \in Kinds : od_conn'.cur[m] = j) \/ j \in Listed(od_conn')
      BY <1>4 DEF Listed, Kinds, Owned
    <3> DEFINE p == Bit(Owned(j)')
               q == Bit(od_scan'.at = j)
               r == Bit(od_scan'.next = j)
    <3>2. Excess(od_conn', j) = p + q + r
      BY <1>2 DEF Counted
    <3>3. p \in {0, 1} /\ q \in {0, 1} /\ r \in {0, 1} /\ (Owned(j)' => p = 1)
      BY DEF Bit
    <3> HIDE DEF p, q, r
    <3> QED
      BY <1>0, <3>1, <3>2, <3>3, CountedRefs
  <2>2. (l = k /\ j = i) \/ j \in ToSet(od_conn.list[l]) \/ j = od_conn.cur[l]
          \/ \E t \in Stmts : j = od_stmt[t].has[l]
    <3>1. j # NoObj
      BY ObjsNamed
    <3>2. \A t \in Stmts : od_stmt'[t].has[l] = IF t = s /\ l = k THEN i
                                                ELSE od_stmt[t].has[l]
      BY DEF Swaps
    <3>3. /\ ToSet(od_conn'.list[l]) \subseteq
               ToSet(od_conn.list[l]) \cup (IF l = k THEN {i} ELSE {})
          /\ od_conn'.cur[l] \in {NoObj, od_conn.cur[l], od_stmt[s].has[l],
                                  od_stmt'[s].has[l]}
      BY DEF Swaps
    <3> QED
      BY <1>4, <3>1, <3>2, <3>3
  <2>3. j # NoObj
    BY ObjsNamed
  <2>4. ASSUME j \in ToSet(od_conn.list[l]) \/ j = od_conn.cur[l]
                 \/ \E t \in Stmts : j = od_stmt[t].has[l]
        PROVE  od_conn.obj[j].kind = l /\ od_conn.obj[j].refs >= 1
    <3>1. j \in Listed(od_conn) \/ (\E m \in Kinds : od_conn.cur[m] = j)
            \/ \E t \in Stmts, m \in Kinds : od_stmt[t].has[m] = j
      BY <2>4 DEF Listed, Kinds
    <3>2. od_conn.obj[j].refs >= 1
      BY <3>1, HeldRefs DEF HoldInv
    <3>3. od_conn.obj[j].kind = l
      BY <2>3, <2>4 DEF HoldInv, Sorted, OfKind
    <3> QED
      BY <3>2, <3>3
  <2>5. \/ od_conn.obj[j].refs >= 1 /\ od_conn'.obj[j].kind = od_conn.obj[j].kind
        \/ j = i /\ od_conn'.obj[j].kind = k
    BY <2>1 DEF Swaps
  <2>6. i = j => i = old \/ od_conn.obj[j].refs = 0
    BY <2>3 DEF Swaps
  <2>7. i = j /\ i = old => od_conn.obj[j].kind = k
    BY <2>3 DEF HoldInv, Sorted, OfKind
  <2>8. CASE l = k /\ j = i
    BY <2>5, <2>6, <2>7, <2>8
  <2>9. CASE j \in ToSet(od_conn.list[l]) \/ j = od_conn.cur[l]
               \/ \E t \in Stmts : j = od_stmt[t].has[l]
    BY <2>4, <2>5, <2>6, <2>7, <2>9
  <2> QED
    BY <2>2, <2>8, <2>9
<1>5. Sorted'
  <2>1. ASSUME NEW l \in Kinds
        PROVE  /\ \A j \in ToSet(od_conn'.list[l]) : j \in Objs
               /\ od_conn'.cur[l] \in Names
               /\ \A t \in Stmts : od_stmt'[t].has[l] \in Names
    <3>1. od_conn'.list[l] \in Seq(Objs)
      BY <1>0 DEF Connection
    <3>2. ToSet(od_conn'.list[l]) \subseteq Objs
      BY <3>1 DEF ToSet
    <3>3. od_conn'.cur[l] \in Names
      BY <1>0 DEF Connection
    <3>4. od_stmt' \in [Stmts -> Statement]
      BY DEF Typed
    <3> QED
      BY <3>2, <3>3, <3>4 DEF Statement
  <2>2. ASSUME NEW l \in Kinds
        PROVE  /\ IsInjective(od_conn'.list[l])
               /\ \A j \in ToSet(od_conn'.list[l]) : OfKind(od_conn', l, j)
               /\ OfKind(od_conn', l, od_conn'.cur[l])
               /\ \A t \in Stmts : OfKind(od_conn', l, od_stmt'[t].has[l])
    <3>1. IsInjective(od_conn'.list[l])
      BY DEF Swaps, Apart
    <3>2. \A j \in ToSet(od_conn'.list[l]) : OfKind(od_conn', l, j)
      BY <1>4, <2>1 DEF OfKind
    <3>3. OfKind(od_conn', l, od_conn'.cur[l])
      BY <1>4, <2>1 DEF OfKind, Names
    <3>4. \A t \in Stmts : OfKind(od_conn', l, od_stmt'[t].has[l])
      BY <1>4, <2>1 DEF OfKind, Names
    <3> QED
      BY <3>1, <3>2, <3>3, <3>4
  <2> QED
    BY <2>2 DEF Sorted
<1>6. Visiting'
  BY <1>0 DEF Visiting
<1> QED
  BY <1>2, <1>3, <1>5, <1>6 DEF HoldInv

\* no handle of the server is lost sight of, and no close without a notice
Closes ==
  /\ ToSet(od_conn.list["dyn"]) \subseteq ToSet(od_conn'.list["dyn"])
       \/ od_conn.state = "dead"
  /\ \A j \in Listed(od_conn') : j \in Listed(od_conn) \/ ~od_conn.obj[j].defer
  /\ \/ Defers(od_conn, od_conn') /\ (od_conn.pending_close => od_conn'.pending_close)
     \/ od_conn'.pending_close /\ od_conn.state # "idle"
  /\ \/ /\ od_conn'.state = od_conn.state /\ od_conn'.op = od_conn.op
        /\ od_conn'.cur = od_conn.cur
     \/ /\ od_conn'.state = "pending"
        /\ od_conn'.op \in {"prepare", "prepexec"} =>
             od_conn'.cur["dyn"] \in ToSet(od_conn'.list["dyn"])
     \/ od_conn'.state # "pending" /\ od_conn'.op = "none"

\* the lists are lists of objects
LEMMA ListedObjs ==
  ASSUME NEW c \in Connection PROVE Listed(c) \subseteq Objs
<1>1. c.list["dyn"] \in Seq(Objs) /\ c.list["cursor"] \in Seq(Objs)
  BY DEF Connection, Kinds
<1> QED
  BY <1>1 DEF Listed, ToSet

\* A step of a call of s leaves no deferred close behind.
LEMMA CloseGoesOn ==
  ASSUME TalkInv, CloseInv, NEW s \in Stmts, Ready(s), Talks(s), Closes
  PROVE  CloseInv'
<1>1. od_scan.list = "off" /\ od_scan'.list = "off"
  BY DEF Ready, NoScan, Talks
<1>2. /\ od_srv' = od_srv
      /\ \/ od_conn'.state = od_conn.state
         \/ od_conn.state = "idle" /\ od_conn'.state = "pending"
  BY DEF Talks
<1>3. od_conn'.state = "dead" => \A k \in Kinds : od_srv'[k] = {}
  BY <1>2 DEF CloseInv
<1>4. od_srv'["dyn"] \subseteq ToSet(od_conn'.list["dyn"])
  BY <1>2, KindNames DEF CloseInv, Closes
<1>5. od_conn'.state = "pending" /\ od_conn'.op \in {"prepare", "prepexec"} =>
        od_conn'.cur["dyn"] \in ToSet(od_conn'.list["dyn"])
  BY DEF CloseInv, Closes
<1>6. od_conn'.state # "pending" /\ od_conn'.op = "unprepare" =>
        od_conn'.cur["dyn"] \notin od_srv'["dyn"]
  BY <1>2 DEF CloseInv, Closes
<1>7. \A i \in Listed(od_conn') : od_conn'.obj[i].defer =>
        od_conn'.pending_close /\ od_conn'.state # "idle"
  <2>1. Listed(od_conn') \subseteq Objs
    BY ListedObjs DEF Talks
  <2>2. CASE od_conn'.pending_close /\ od_conn.state # "idle"
    BY <1>2, <2>2
  <2>3. CASE Defers(od_conn, od_conn') /\ (od_conn.pending_close => od_conn'.pending_close)
    <3>1. ASSUME NEW i \in Listed(od_conn'), od_conn'.obj[i].defer
          PROVE  i \in Listed(od_conn) /\ od_conn.obj[i].defer
      BY <2>1, <2>3, <3>1 DEF Defers, Closes
    <3>2. \A i \in Listed(od_conn) : od_conn.obj[i].defer =>
            od_conn.pending_close /\ od_conn.state # "idle"
      BY <1>1 DEF CloseInv
    <3> QED
      BY <1>2, <2>3, <3>1, <3>2
  <2> QED
    BY <2>2, <2>3 DEF Closes
<1> QED
  BY <1>1, <1>3, <1>4, <1>5, <1>6, <1>7 DEF CloseInv

\* a step of a call of s keeps what is claimed
Holds(s) == \E k \in Kinds, i \in Names : Swaps(s, k, i)

\* A step of a call of s keeps the invariant if it keeps its three parts.
LEMMA CallGoesOn ==
  ASSUME OdInv, NEW s \in Stmts, Ready(s), Talks(s), Holds(s), Closes
  PROVE  OdInv'
<1>1. TalkInv'
  BY TalkGoesOn DEF OdInv
<1>2. CloseInv'
  BY CloseGoesOn DEF OdInv
<1>3. Typed /\ Typed' /\ od_scan = NoScan /\ UNCHANGED od_scan
  BY <1>1 DEF OdInv, TalkInv, Ready, Talks
<1>4. HoldInv'
  BY <1>3, HoldGoesOn DEF OdInv, Holds
<1> QED
  BY <1>1, <1>2, <1>4 DEF OdInv

\* the statements hold what they held
SameHas == \A t \in Stmts, l \in Kinds : od_stmt'[t].has[l] = od_stmt[t].has[l]

\* the connection is the same but for its owner
LEMMA OwnerSteps ==
  ASSUME OdInv, NEW s \in Stmts, OwnerOnly(od_conn, od_conn'), SameHas
  PROVE  Holds(s) /\ Closes
<1> DEFINE i == od_stmt[s].has["dyn"]
<1>1. /\ od_conn \in Connection /\ i \in Names /\ Typed /\ Sorted
      /\ "dyn" \in Kinds
  BY HasName, KindNames DEF OdInv, TalkInv, HoldInv, Typed
<1>2. /\ Moves(od_conn, od_conn') /\ Defers(od_conn, od_conn')
      /\ SameExcess(od_conn, od_conn') /\ Listed(od_conn') = Listed(od_conn)
  BY <1>1, OwnerCounts
<1>3. Apart(od_conn')
  BY <1>1, ListsApart DEF Apart, OwnerOnly
<1>4. \A j \in Objs : Excess(od_conn', j)
        = (Excess(od_conn, j) - Bit(j = i)) + Bit(j = i)
  <2>1. ASSUME NEW j \in Objs PROVE Excess(od_conn, j) \in Int /\ Bit(j = i) \in Int
    BY <1>1, ExcessTyped DEF Bit
  <2> QED
    BY <1>2, <2>1 DEF SameExcess
<1>5. Swaps(s, "dyn", i)
  BY <1>1, <1>2, <1>3, <1>4 DEF Swaps, SameHas, Moves, OwnerOnly
<1> QED
  BY <1>1, <1>2, <1>5 DEF Holds, Closes, OwnerOnly

\* the connection as it was
LEMMA OwnerKept == ASSUME OdInv PROVE OwnerOnly(od_conn, od_conn)
BY DEF OdInv, TalkInv, Typed, OwnerOnly

\* a step that at most locks or unlocks the statement
LEMMA OwnerGoesOn ==
  ASSUME OdInv, NEW s \in Stmts, Ready(s), SameStatements, SameHas,
         od_conn' \in {od_conn, Locked(od_conn, s), Unlocked(od_conn, s)},
         Going(s), Owning', Replaced', UNCHANGED <<od_scan, od_srv>>
  PROVE  OdInv'
<1>1. od_conn \in Connection
  BY DEF OdInv, TalkInv, Typed
<1>2. OwnerOnly(od_conn, od_conn') /\ Holding(s)
  <2>1. CASE od_conn' = od_conn
    BY <2>1, OwnerKept DEF Holding
  <2>2. CASE od_conn' = Locked(od_conn, s)
    BY <1>1, <2>2, LockedConn DEF Holding
  <2>3. CASE od_conn' = Unlocked(od_conn, s)
    BY <1>1, <2>3, UnlockedConn DEF Holding
  <2> QED
    BY <2>1, <2>2, <2>3
<1>3. Talks(s)
  BY <1>2 DEF Talks, SameStatements, OwnerOnly
<1> QED
  BY <1>2, <1>3, OwnerSteps, CallGoesOn

\* the statements as they were
LEMMA SameStmts ==
  ASSUME OdInv, UNCHANGED od_stmt PROVE SameStatements /\ SameHas
BY StatementsKept DEF OdInv, SameHas

---------------------------------------------------------------------------
(* The calls and stages that change neither the objects nor the lists.      *)

\* SQLBindParameter
LEMMA BindSteps ==
  ASSUME OdInv, NEW s \in Stmts, SQLBindParameter(s) PROVE OdInv'
<1>1. TalkInv /\ od_stmt \in [Stmts -> Statement]
  BY DEF OdInv, TalkInv, Typed
<1>2. Ready(s) /\ od_call = NoCall
  BY <1>1, ReadyCalling DEF SQLBindParameter
<1>3. SameStatements /\ SameHas
  BY <1>1 DEF SQLBindParameter, SameStatements, SameHas, Statement
<1>4. Return
  BY <1>2 DEF SQLBindParameter, Return
<1> QED
  BY <1>2, <1>3, <1>4, Returned, OwnerGoesOn DEF SQLBindParameter

\* the plans calls start with
LEMMA CallPlans ==
  /\ \A a \in {"set_query", "prepexec", "free_cursor", "closed", "drop",
               "execute", "opened", "prepared", "fetched", "results",
               "unlock", "stay"} : <<a>> \in Plans
  /\ <<"free_dynamic", "set_query">> \in Plans \ {<<"opened">>, <<"prepexec">>}
  /\ <<"free_dynamic", "prepexec">> \in Plans \ {<<"opened">>, <<"prepexec">>}
  /\ <<"free_cursor", "free_dynamic", "drop">> \in Plans \ {<<"opened">>, <<"prepexec">>}
  /\ <<"execute">> \notin {<<"opened">>, <<"prepexec">>}
  /\ <<"prepared">> \notin {<<"opened">>, <<"prepexec">>}
  /\ <<"unlock">> \notin {<<"opened">>, <<"prepexec">>}
  /\ <<"free_cursor">> \notin {<<"opened">>, <<"prepexec">>}
  /\ <<"results">> # <<"prepexec">> /\ <<"fetched">> # <<"prepexec">>
  /\ <<"opened">> # <<"prepexec">> /\ <<"stay">> # <<"prepexec">>
<1>1. /\ \A a \in {"set_query", "prepexec", "free_cursor", "closed", "drop",
                   "execute", "opened", "prepared", "fetched", "results",
                   "unlock", "stay"} : <<a>> \in Plans
      /\ <<"free_dynamic", "set_query">> \in Plans
      /\ <<"free_dynamic", "prepexec">> \in Plans
      /\ <<"free_cursor", "free_dynamic", "drop">> \in Plans
  BY DEF Plans
<1>2. /\ <<"free_dynamic", "set_query">> \notin {<<"opened">>, <<"prepexec">>}
      /\ <<"free_dynamic", "prepexec">> \notin {<<"opened">>, <<"prepexec">>}
      /\ <<"free_cursor", "free_dynamic", "drop">> \notin {<<"opened">>, <<"prepexec">>}
  OBVIOUS
<1>3. /\ <<"execute">> \notin {<<"opened">>, <<"prepexec">>}
      /\ <<"prepared">> \notin {<<"opened">>, <<"prepexec">>}
      /\ <<"unlock">> \notin {<<"opened">>, <<"prepexec">>}
      /\ <<"free_cursor">> \notin {<<"opened">>, <<"prepexec">>}
  OBVIOUS
<1>4. /\ <<"results">> # <<"prepexec">> /\ <<"fetched">> # <<"prepexec">>
      /\ <<"opened">> # <<"prepexec">> /\ <<"stay">> # <<"prepexec">>
  OBVIOUS
<1> QED
  BY <1>1, <1>2, <1>3, <1>4

\* SQLPrepare, SQLExecute and SQLExecDirect
LEMMA StartSteps ==
  ASSUME OdInv, NEW s \in Stmts,
         SQLPrepare(s) \/ SQLExecute(s) \/ SQLExecDirect(s)
  PROVE  OdInv'
<1>1. TalkInv /\ od_stmt \in [Stmts -> Statement] /\ Calling(s)
  BY DEF OdInv, TalkInv, Typed, SQLPrepare, SQLExecute, SQLExecDirect
<1>2. Ready(s)
  BY <1>1, ReadyCalling
<1>3. SameStatements /\ SameHas
  <2>1. CASE UNCHANGED od_stmt
    BY <2>1, SameStmts
  <2>2. CASE od_stmt' = [od_stmt EXCEPT ![s].prepared = FALSE, ![s].reprepare = FALSE]
    BY <1>1, <2>2 DEF SameStatements, SameHas, Statement
  <2> QED
    BY <2>1, <2>2 DEF SQLPrepare, SQLExecute, SQLExecDirect
<1>4. /\ UNCHANGED <<od_conn, od_scan, od_srv>>
      /\ Enter(s, <<"free_dynamic", "set_query">>) \/ Enter(s, <<"execute">>)
  BY DEF SQLPrepare, SQLExecute, SQLExecDirect
<1>5. Going(s) /\ Owning' /\ Replaced'
  BY <1>4, Entered, CallPlans
<1> QED
  BY <1>2, <1>3, <1>4, <1>5, OwnerGoesOn

\* odbc_set_stmt_query
LEMMA SetQuerySteps ==
  ASSUME OdInv, NEW s \in Stmts, SetQuery(s) PROVE OdInv'
<1>1. TalkInv /\ od_stmt \in [Stmts -> Statement]
  BY DEF OdInv, TalkInv, Typed
<1>2. Ready(s) /\ od_call.todo \in Plans /\ Head(od_call.todo) = "set_query"
  BY <1>1, ReadyAt DEF SetQuery
<1>3. SameStatements /\ SameHas
  BY <1>1 DEF SetQuery, SameStatements, SameHas, Statement
<1>4. Going(s) /\ Owning' /\ Replaced'
  BY <1>2, NextStage DEF SetQuery
<1> QED
  BY <1>2, <1>3, <1>4, OwnerGoesOn DEF SetQuery

\* an execution that is refused, or has to prepare first
LEMMA RefusedSteps ==
  ASSUME OdInv, NEW s \in Stmts, ExecuteRefused(s) \/ ExecuteFirst(s) PROVE OdInv'
<1>1. TalkInv
  BY DEF OdInv
<1>2. Ready(s)
  BY <1>1, ReadyAt DEF ExecuteRefused, ExecuteFirst, Executing
<1>3. /\ od_conn' = Locked(od_conn, s) /\ UNCHANGED <<od_stmt, od_scan, od_srv>>
      /\ Return \/ Enter(s, <<"free_dynamic", "prepexec">>)
  BY DEF ExecuteRefused, ExecuteFirst
<1>4. Going(s) /\ Owning' /\ Replaced'
  BY <1>3, Returned, Entered, CallPlans
<1> QED
  BY <1>2, <1>3, <1>4, SameStmts, OwnerGoesOn

\* the end of a call
LEMMA FinishSteps ==
  ASSUME OdInv, NEW s \in Stmts, Finish(s) PROVE OdInv'
<1>1. TalkInv
  BY DEF OdInv
<1>2. PICK stage \in {"results", "unlock", "stay"} : At(s, stage)
  BY DEF Finish
<1>3. Ready(s) /\ od_call.todo \in Plans /\ Head(od_call.todo) = stage
  BY <1>1, <1>2, ReadyAt
<1>4. Going(s) /\ Owning' /\ Replaced'
  BY <1>3, NextStage DEF Finish
<1>5. od_conn' \in {od_conn, Unlocked(od_conn, s)}
  BY DEF Finish
<1> QED
  BY <1>3, <1>4, <1>5, SameStmts, OwnerGoesOn DEF Finish

\* the end of a fetch from a cursor
LEMMA FetchedSteps ==
  ASSUME OdInv, NEW s \in Stmts, Fetched(s) PROVE OdInv'
<1>1. TalkInv
  BY DEF OdInv
<1>2. Ready(s)
  BY <1>1, ReadyAt DEF Fetched
<1>3. Going(s) /\ Owning' /\ Replaced'
  BY Returned, ReadsAll, CallPlans DEF Fetched
<1> QED
  BY <1>2, <1>3, SameStmts, OwnerGoesOn DEF Fetched

\* the statement whose socket is set reads its own answer
LEMMA ReadSteps ==
  ASSUME OdInv, NEW s \in Stmts,
         FetchResult(s) \/ SQLMoreResults(s) \/ SQLCancel(s)
  PROVE  OdInv'
<1>1. TalkInv /\ Calling(s) /\ s \in od_conn.tds
  BY DEF OdInv, FetchResult, SQLMoreResults, SQLCancel
<1>2. Ready(s) /\ s = od_conn.current
  BY <1>1, ReadyCalling DEF TalkInv, OneOwner
<1>3. /\ UNCHANGED <<od_stmt, od_conn, od_scan, od_srv>>
      /\ \/ Reads(s, "some", <<"stay">>) \/ Reads(s, "some", <<"results">>)
         \/ Reads(s, "cancel", <<"unlock">>)
  BY DEF FetchResult, SQLMoreResults, SQLCancel
<1>4. Going(s) /\ Owning' /\ Replaced'
  BY <1>2, <1>3, ReadsOwned, CallPlans
<1> QED
  BY <1>2, <1>3, <1>4, SameStmts, OwnerGoesOn

\* SQLFreeStmt
LEMMA FreeStmtSteps ==
  ASSUME OdInv, NEW s \in Stmts, SQLFreeStmtClose(s) \/ SQLFreeStmtDrop(s)
  PROVE  OdInv'
<1>1. TalkInv /\ Calling(s)
  BY DEF OdInv, SQLFreeStmtClose, SQLFreeStmtDrop
<1>2. Ready(s) /\ (s \in od_conn.tds => s = od_conn.current)
  BY <1>1, ReadyCalling DEF TalkInv, OneOwner
<1>3. PICK stages \in {<<"free_cursor">>, <<"free_cursor", "free_dynamic", "drop">>} :
        FreeStages(s, stages)
  BY DEF SQLFreeStmtClose, SQLFreeStmtDrop
<1>4. UNCHANGED <<od_stmt, od_conn, od_scan, od_srv>>
  BY DEF SQLFreeStmtClose, SQLFreeStmtDrop
<1>5. stages \in Plans \ {<<"opened">>, <<"prepexec">>}
  BY <1>3, CallPlans
<1>6. CASE s \in od_conn.tds /\ Reads(s, "cancel", stages)
  <2>1. Going(s) /\ Owning' /\ Replaced'
    BY <1>2, <1>4, <1>5, <1>6, ReadsOwned
  <2> QED
    BY <1>2, <1>4, <2>1, SameStmts, OwnerGoesOn
<1>7. CASE Enter(s, stages)
  <2>1. Going(s) /\ Owning' /\ Replaced'
    BY <1>5, <1>7, Entered
  <2> QED
    BY <1>2, <1>4, <2>1, SameStmts, OwnerGoesOn
<1> QED
  BY <1>3, <1>6, <1>7 DEF FreeStages

---------------------------------------------------------------------------
(* A statement lets go of its object, asks about it, or opens a new one.    *)

HasNow(s, k, i) ==
  \A t \in Stmts, l \in Kinds :
    od_stmt'[t].has[l] = IF t = s /\ l = k THEN i ELSE od_stmt[t].has[l]

\* what a statement holds when it is given an object
LEMMA HasSet ==
  ASSUME OdInv, NEW s \in Stmts, NEW k \in Kinds, NEW i \in Names,
         od_stmt' = [od_stmt EXCEPT ![s].has[k] = i]
  PROVE  SameStatements /\ HasNow(s, k, i)
<1>1. TalkInv /\ od_stmt \in [Stmts -> Statement]
  BY DEF OdInv, TalkInv, Typed
<1>2. SameStatements
  BY <1>1, HasKept
<1>3. HasNow(s, k, i)
  BY <1>1 DEF HasNow, Statement
<1> QED
  BY <1>2, <1>3

\* d is c with the same references
Alike(c, d) ==
  /\ SameExcess(c, d) /\ Moves(c, d) /\ Defers(c, d)
  /\ d.list = c.list /\ d.cur = c.cur /\ d.pending_close = c.pending_close

\* another owner, the same objects
LEMMA OwnerAlike ==
  ASSUME NEW c \in Connection, NEW d, OwnerOnly(c, d) PROVE Alike(c, d)
BY OwnerCounts DEF OwnerOnly, Alike

\* A statement's reference is let go of, and nothing else is referred to.
LEMMA LetGo ==
  ASSUME OdInv, NEW s \in Stmts, NEW k \in Kinds, NEW c \in Connection,
         SameExcess(od_conn, c), Moves(od_conn, c), NoneListed(od_conn, c),
         c.cur = od_conn.cur, od_conn' \in Connection,
         Alike(Released(c, od_stmt[s].has[k]), od_conn'), HasNow(s, k, NoObj)
  PROVE  /\ Holds(s) /\ Defers(c, od_conn') /\ od_conn'.list = c.list
         /\ od_conn'.cur = c.cur /\ od_conn'.pending_close = c.pending_close
<1> DEFINE i == od_stmt[s].has[k]
           r == Released(c, i)
<1>1. i \in Names /\ od_conn \in Connection
  BY HasName DEF OdInv
<1>2. r \in Connection /\ ObjectsOnly(c, r)
  BY <1>1, ReleasedConn
<1>3. Moves(c, r) /\ Defers(c, r) /\ LessExcess(c, r, i)
  BY <1>1, ReleasedCounts
<1>4. Alike(r, od_conn')
  OBVIOUS
<1> HIDE DEF r
<1>5. /\ od_conn'.list = c.list /\ od_conn'.cur = c.cur
      /\ od_conn'.pending_close = c.pending_close
  BY <1>2, <1>4 DEF ObjectsOnly, Alike
<1>6. Moves(od_conn, od_conn') /\ Defers(c, od_conn')
  BY <1>3, <1>4, MovesOn, DefersOn DEF Alike
<1>7. ASSUME NEW j \in Objs
      PROVE  Excess(od_conn', j) = (Excess(od_conn, j) - Bit(j = i)) + Bit(j = NoObj)
  <2>1. Excess(od_conn', j) = Excess(od_conn, j) - Bit(j = i)
    BY <1>3, <1>4 DEF Alike, SameExcess, LessExcess
  <2>2. Excess(od_conn, j) \in Int
    BY <1>1, ExcessTyped
  <2>3. j # NoObj
    BY ObjsNamed
  <2> QED
    BY <2>1, <2>2, <2>3 DEF Bit
<1>8. /\ Apart(od_conn')
      /\ \A l \in Kinds : ToSet(od_conn'.list[l]) \subseteq ToSet(od_conn.list[l])
  BY <1>5 DEF NoneListed, Apart
<1>9. Swaps(s, k, NoObj)
  BY <1>5, <1>6, <1>7, <1>8 DEF Swaps, HasNow, Moves
<1> QED
  BY <1>5, <1>6, <1>9, ObjsNamed DEF Holds

\* connections that are alike count alike
LEMMA SameRefs ==
  ASSUME NEW c \in Connection, NEW d \in Connection, NEW j \in Objs, Alike(c, d)
  PROVE  d.obj[j].refs = c.obj[j].refs
<1>1. Excess(d, j) = Excess(c, j) + d.obj[j].refs - c.obj[j].refs
  BY ExcessOfRefs DEF Alike
<1>2. Excess(d, j) = Excess(c, j) /\ Excess(c, j) \in Int
  BY ExcessTyped DEF Alike, SameExcess
<1>3. d.obj[j].refs \in Int /\ c.obj[j].refs \in Int
  BY ObjectFields
<1> QED
  BY <1>1, <1>2, <1>3

\* A request about what the statement holds already.
LEMMA Asks ==
  ASSUME OdInv, NEW s \in Stmts, NEW k \in Kinds, NEW c \in Connection,
         Alike(od_conn, c), NEW op \in Ops, NEW i \in {NoObj, od_stmt[s].has[k]},
         SameHas, od_conn' \in Connection,
         Alike(Requested(c, op, k, i, s), od_conn')
  PROVE  /\ Holds(s) /\ Defers(od_conn, od_conn') /\ od_conn'.list = od_conn.list
         /\ od_conn'.pending_close = od_conn.pending_close
<1> DEFINE h == od_stmt[s].has[k]
           r == Requested(c, op, k, i, s)
<1>1. h \in Names /\ i \in Names /\ od_conn \in Connection
      /\ Typed /\ Counted /\ Sorted
  BY HasName, ObjsNamed DEF OdInv, TalkInv, HoldInv
<1>2. i # NoObj => i \in Objs /\ c.obj[i].refs >= 1
  <2>1. ASSUME i # NoObj PROVE i \in Objs /\ od_conn.obj[i].refs >= 1
    <3>1. i \in Objs /\ od_stmt[s].has[k] = i
      BY <1>1, <2>1 DEF Names
    <3> QED
      BY <1>1, <3>1, HeldRefs
  <2> QED
    BY <1>1, <2>1, SameRefs
<1>3. r \in Connection /\ r.list = c.list /\ r.cur = [NoObjs EXCEPT ![k] = i]
      /\ r.pending_close = c.pending_close
  BY <1>1, RequestedConn DEF Sent
<1>4. Moves(c, r) /\ Defers(c, r) /\ SameExcess(c, r)
  BY <1>1, <1>2, RequestedCounts
<1>5. Alike(r, od_conn')
  OBVIOUS
<1> HIDE DEF r
<1>6. /\ od_conn'.list = od_conn.list /\ od_conn'.cur = [NoObjs EXCEPT ![k] = i]
      /\ od_conn'.pending_close = od_conn.pending_close
  BY <1>3, <1>5 DEF Alike
<1>7. Moves(od_conn, od_conn') /\ Defers(od_conn, od_conn')
  BY <1>4, <1>5, MovesOn, DefersOn DEF Alike
<1>8. ASSUME NEW j \in Objs
      PROVE  Excess(od_conn', j) = (Excess(od_conn, j) - Bit(j = h)) + Bit(j = h)
  <2>1. Excess(od_conn', j) = Excess(od_conn, j)
    BY <1>4, <1>5 DEF Alike, SameExcess
  <2>2. Excess(od_conn, j) \in Int
    BY <1>1, ExcessTyped
  <2> QED
    BY <2>1, <2>2 DEF Bit
<1>9. Apart(od_conn')
  BY <1>1, <1>6, ListsApart DEF Apart
<1>10. \A l \in Kinds : od_conn'.cur[l] \in {NoObj, od_stmt[s].has[l]}
  BY <1>6 DEF NoObjs
<1>11. Swaps(s, k, h)
  BY <1>1, <1>6, <1>7, <1>8, <1>9, <1>10 DEF Swaps, SameHas, Moves
<1> QED
  BY <1>1, <1>6, <1>7, <1>11 DEF Holds

\* A request about a new object, which the statement holds then.
LEMMA Opens ==
  ASSUME OdInv, SomeFree, NEW s \in Stmts, NEW k \in Kinds, NEW c \in Connection,
         LessExcess(od_conn, c, od_stmt[s].has[k]), Moves(od_conn, c),
         Defers(od_conn, c), c.list = od_conn.list, c.cur = od_conn.cur,
         c.pending_close = od_conn.pending_close,
         NEW op \in Ops, od_conn' \in Connection,
         Alike(Requested(WithNew(c, k, NewObj), op, k, NewObj, s), od_conn'),
         HasNow(s, k, NewObj)
  PROVE  /\ Holds(s) /\ Defers(od_conn, od_conn')
         /\ od_conn'.pending_close = od_conn.pending_close
         /\ NewObj \in ToSet(od_conn'.list[k]) /\ od_conn'.cur[k] = NewObj
         /\ \A l \in Kinds : /\ ToSet(od_conn.list[l]) \subseteq ToSet(od_conn'.list[l])
                             /\ ToSet(od_conn'.list[l])
                                  \subseteq ToSet(od_conn.list[l]) \cup {NewObj}
         /\ ~od_conn.obj[NewObj].defer
<1> DEFINE i == NewObj
           h == od_stmt[s].has[k]
           w == WithNew(c, k, i)
           r == Requested(w, op, k, i, s)
<1>1. h \in Names /\ od_conn \in Connection /\ Typed /\ Counted /\ Sorted
  BY HasName DEF OdInv, TalkInv, HoldInv
<1>2. i \in Objs /\ od_conn.obj[i].refs = 0 /\ ~od_conn.obj[i].defer
  BY NewObjIsFree DEF FreeObj
<1> HIDE DEF i
<1>3. i \notin Listed(od_conn) /\ h # i /\ i \in Names /\ i # NoObj
  <2>1. i \notin Listed(od_conn) /\ h # i
    BY <1>1, <1>2, HeldRefs
  <2> QED
    BY <1>2, <2>1, ObjsNamed
<1>4. c.obj[i].refs = 0
  <2>1. Excess(c, i) = Excess(od_conn, i) + c.obj[i].refs - od_conn.obj[i].refs
    BY <1>1, <1>2, ExcessOfRefs
  <2>2. Excess(c, i) = Excess(od_conn, i) - Bit(i = h)
    BY <1>2 DEF LessExcess
  <2>3. /\ Excess(od_conn, i) \in Int /\ c.obj[i].refs \in Int
        /\ od_conn.obj[i].refs \in Int
    BY <1>1, <1>2, ExcessTyped, ObjectFields
  <2> QED
    BY <1>2, <1>3, <2>1, <2>2, <2>3 DEF Bit
<1>5. i \notin Listed(c) /\ Apart(c)
  BY <1>1, <1>3, ListsApart DEF Listed, Apart
<1>6. /\ MoreExcess(c, w, i) /\ Defers(c, w) /\ Apart(w)
      /\ w.obj[i].refs = 2 /\ w.obj[i].kind = k
      /\ w.pending_close = c.pending_close
      /\ \A j \in Objs \ {i} : w.obj[j] = c.obj[j]
      /\ ToSet(w.list[k]) = ToSet(c.list[k]) \cup {i}
      /\ \A l \in Kinds \ {k} : w.list[l] = c.list[l]
  BY <1>2, <1>4, <1>5, WithNewCounts
<1>7. w \in Connection
  BY <1>2, WithNewConn
<1> HIDE DEF w
<1>8. r.list = w.list /\ r.cur = [NoObjs EXCEPT ![k] = i]
      /\ r.pending_close = w.pending_close
  BY <1>3, <1>7, RequestedConn DEF Sent
<1>9. Moves(w, r) /\ Defers(w, r) /\ SameExcess(w, r)
  <2>1. i # NoObj => w.obj[i].refs >= 1
    BY <1>6
  <2> QED
    BY <1>3, <1>7, <2>1, RequestedCounts
<1>10. Alike(r, od_conn')
  BY DEF r, w, i
<1> HIDE DEF r
<1>11. /\ od_conn'.list = w.list /\ od_conn'.cur = [NoObjs EXCEPT ![k] = i]
       /\ od_conn'.pending_close = od_conn.pending_close
  BY <1>6, <1>8, <1>10 DEF Alike
<1>12. Moves(w, od_conn') /\ Defers(od_conn, od_conn')
  BY <1>6, <1>9, <1>10, MovesOn, DefersOn DEF Alike
<1>13. ASSUME NEW j \in Objs, od_conn'.obj[j].refs >= 1
       PROVE  \/ od_conn.obj[j].refs >= 1 /\ od_conn'.obj[j].kind = od_conn.obj[j].kind
              \/ j = i /\ od_conn'.obj[j].kind = k
  <2>1. w.obj[j].refs >= 1 /\ od_conn'.obj[j].kind = w.obj[j].kind
    BY <1>12, <1>13 DEF Moves
  <2>2. j # i => w.obj[j] = c.obj[j]
    BY <1>6
  <2>3. c.obj[j].refs >= 1 => od_conn.obj[j].refs >= 1 /\ c.obj[j].kind = od_conn.obj[j].kind
    BY DEF Moves
  <2> QED
    BY <1>6, <2>1, <2>2, <2>3
<1>14. ASSUME NEW j \in Objs
       PROVE  Excess(od_conn', j) = (Excess(od_conn, j) - Bit(j = h)) + Bit(j = i)
  <2>1. Excess(od_conn', j) = Excess(c, j) + Bit(j = i)
    BY <1>6, <1>9, <1>10 DEF Alike, SameExcess, MoreExcess
  <2>2. Excess(c, j) = Excess(od_conn, j) - Bit(j = h)
    BY DEF LessExcess
  <2> QED
    BY <2>1, <2>2
<1>15. \A l \in Kinds : od_conn'.cur[l] = IF l = k THEN i ELSE NoObj
  BY <1>11 DEF NoObjs
<1>16. \A l \in Kinds : ToSet(od_conn'.list[l])
         = ToSet(od_conn.list[l]) \cup (IF l = k THEN {i} ELSE {})
  BY <1>6, <1>11
<1>17. Apart(od_conn')
  BY <1>6, <1>11 DEF Apart
<1>18. od_stmt'[s].has[k] = i /\ HasNow(s, k, i)
  BY DEF HasNow, i
<1>19. Swaps(s, k, i)
  <2>1. \A l \in Kinds : od_conn'.cur[l] \in {NoObj, od_stmt'[s].has[l]}
    BY <1>15, <1>18
  <2> QED
    BY <1>2, <1>13, <1>14, <1>16, <1>17, <1>18, <2>1 DEF Swaps, HasNow
<1>20. Holds(s)
  BY <1>3, <1>19 DEF Holds
<1> QED
  BY <1>2, <1>11, <1>12, <1>15, <1>16, <1>20 DEF i

\* the connection compared with itself
LEMMA Itself ==
  ASSUME OdInv
  PROVE  /\ od_conn \in Connection /\ Alike(od_conn, od_conn)
         /\ NoneListed(od_conn, od_conn) /\ Apart(od_conn)
<1>1. od_conn \in Connection /\ Apart(od_conn)
  BY ListsApart DEF OdInv, TalkInv, HoldInv, Typed
<1> QED
  BY <1>1 DEF NoneListed, Alike, SameExcess, Moves, Defers

\* a connection is like itself
LEMMA AlikeItself == ASSUME NEW c PROVE Alike(c, c)
BY DEF Alike, SameExcess, Moves, Defers

\* s lets go of its object, after c was made of the connection
LEMMA LetGoSteps ==
  ASSUME OdInv, NEW s \in Stmts, NEW k \in Kinds, NEW c \in Connection,
         SameExcess(od_conn, c), Moves(od_conn, c), NoneListed(od_conn, c),
         c.state = od_conn.state, c.op = od_conn.op, c.cur = od_conn.cur,
         od_conn' = Released(c, od_stmt[s].has[k]), HasNow(s, k, NoObj),
         \/ ToSet(od_conn.list["dyn"]) \subseteq ToSet(c.list["dyn"])
         \/ od_conn.state = "dead",
         \/ Defers(od_conn, c) /\ (od_conn.pending_close => c.pending_close)
         \/ c.pending_close /\ od_conn.state # "idle"
  PROVE  /\ Holds(s) /\ Closes /\ od_conn' \in Connection
         /\ ObjectsOnly(c, od_conn')
<1> DEFINE i == od_stmt[s].has[k]
<1>1. i \in Names /\ od_conn \in Connection
  BY HasName DEF OdInv
<1>2. od_conn' \in Connection /\ ObjectsOnly(c, od_conn')
  BY <1>1, ReleasedConn
<1>3. Alike(Released(c, i), od_conn')
  BY AlikeItself
<1>4. /\ Holds(s) /\ Defers(c, od_conn') /\ od_conn'.list = c.list
      /\ od_conn'.cur = c.cur /\ od_conn'.pending_close = c.pending_close
  BY <1>2, <1>3, LetGo
<1>5. \A j \in Listed(od_conn') : j \in Listed(od_conn)
  BY <1>4, KindNames DEF Listed, NoneListed
<1>6. \/ Defers(od_conn, od_conn') /\ (od_conn.pending_close => od_conn'.pending_close)
      \/ od_conn'.pending_close /\ od_conn.state # "idle"
  BY <1>4, DefersOn
<1>7. od_conn'.state = od_conn.state /\ od_conn'.op = od_conn.op
      /\ od_conn'.cur = od_conn.cur
  BY <1>2 DEF ObjectsOnly
<1> QED
  BY <1>2, <1>4, <1>5, <1>6, <1>7 DEF Closes

\* An object is let go of, its close deferred.
LEMMA DeferSteps ==
  ASSUME OdInv, NEW s \in Stmts, NEW k \in Kinds, NEW got \in Connection,
         OwnerOnly(od_conn, got), HasNow(s, k, NoObj),
         od_conn' = Released(Deferred(got, k, od_stmt[s].has[k]), od_stmt[s].has[k]),
         od_conn.state # "idle",
         \/ k = "cursor" \/ od_conn.obj[od_stmt[s].has[k]].known
         \/ od_conn.state = "dead"
  PROVE  /\ Holds(s) /\ Closes /\ od_conn' \in Connection
         /\ Undisturbed(got, od_conn')
<1> DEFINE i == od_stmt[s].has[k]
           d == Deferred(got, k, i)
<1>1. i \in Names
  BY HasName DEF OdInv
<1>2. Apart(got) /\ Alike(od_conn, got)
  BY Itself, OwnerAlike DEF OwnerOnly, Apart
<1>3. d \in Connection /\ Undisturbed(got, d)
  BY <1>1, DeferredConn
<1>4. /\ SameExcess(got, d) /\ Moves(got, d) /\ NoneListed(got, d)
      /\ Defers(got, d) \/ d.pending_close
      /\ got.pending_close => d.pending_close
      /\ \A l \in Kinds : l # k \/ got.obj[i].known => d.list[l] = got.list[l]
  BY <1>1, <1>2, DeferredCounts
<1>5. od_conn' = Released(d, i)
  OBVIOUS
<1> HIDE DEF d
<1>6. SameExcess(od_conn, d) /\ Moves(od_conn, d) /\ NoneListed(od_conn, d)
  BY <1>2, <1>4, MovesOn DEF Alike, SameExcess, NoneListed
<1>7. \/ ToSet(od_conn.list["dyn"]) \subseteq ToSet(d.list["dyn"])
      \/ od_conn.state = "dead"
  <2>1. k = "cursor" \/ od_conn.obj[i].known => d.list["dyn"] = od_conn.list["dyn"]
    BY <1>2, <1>4, KindNames DEF OwnerOnly
  <2> QED
    BY <2>1
<1>8. \/ Defers(od_conn, d) /\ (od_conn.pending_close => d.pending_close)
      \/ d.pending_close /\ od_conn.state # "idle"
  BY <1>2, <1>4, DefersOn DEF Alike
<1>9. d.state = od_conn.state /\ d.op = od_conn.op /\ d.cur = od_conn.cur
  BY <1>3 DEF Undisturbed, OwnerOnly
<1>10. /\ Holds(s) /\ Closes /\ od_conn' \in Connection
       /\ ObjectsOnly(d, od_conn')
  BY <1>3, <1>5, <1>6, <1>7, <1>8, <1>9, LetGoSteps
<1> QED
  BY <1>3, <1>10 DEF ObjectsOnly, Undisturbed

\* A cursor is let go of, and dropped if it was closed.
LEMMA CheckSteps ==
  ASSUME OdInv, NEW s \in Stmts, HasNow(s, "cursor", NoObj),
         od_conn' = Released(tds_cursor_check_allocated(od_conn,
                               od_stmt[s].has["cursor"]), od_stmt[s].has["cursor"])
  PROVE  /\ Holds(s) /\ Closes /\ od_conn' \in Connection
         /\ Undisturbed(od_conn, od_conn')
<1> DEFINE i == od_stmt[s].has["cursor"]
           d == tds_cursor_check_allocated(od_conn, i)
<1>1. i \in Names /\ "cursor" \in Kinds
  BY HasName, KindNames DEF OdInv
<1>2. Apart(od_conn) /\ od_conn \in Connection
  BY Itself
<1>3. d \in Connection /\ Undisturbed(od_conn, d)
  BY <1>1, <1>2, CheckedConn
<1>4. /\ SameExcess(od_conn, d) /\ Moves(od_conn, d) /\ NoneListed(od_conn, d)
      /\ Defers(od_conn, d) /\ d.pending_close = od_conn.pending_close
      /\ d.list["dyn"] = od_conn.list["dyn"]
  BY <1>1, <1>2, CheckedCounts
<1>5. od_conn' = Released(d, i)
  OBVIOUS
<1> HIDE DEF d
<1>6. /\ Holds(s) /\ Closes /\ od_conn' \in Connection
      /\ ObjectsOnly(d, od_conn')
  <2>1. d.state = od_conn.state /\ d.op = od_conn.op /\ d.cur = od_conn.cur
    BY <1>3 DEF Undisturbed
  <2>2. ToSet(od_conn.list["dyn"]) \subseteq ToSet(d.list["dyn"])
    BY <1>4
  <2>3. Defers(od_conn, d) /\ (od_conn.pending_close => d.pending_close)
    BY <1>4
  <2> QED
    BY <1>1, <1>3, <1>4, <1>5, <2>1, <2>2, <2>3, LetGoSteps
<1> QED
  BY <1>3, <1>6 DEF ObjectsOnly, Undisturbed

---------------------------------------------------------------------------
(* The stages that free an object.                                         *)

\* a request of s about what it holds
LEMMA AskSteps ==
  ASSUME OdInv, NEW s \in Stmts, NEW k \in Kinds, NEW c \in Connection,
         Alike(od_conn, c), NEW op \in Ops, op \notin {"prepare", "prepexec"},
         NEW i \in {NoObj, od_stmt[s].has[k]}, SameHas,
         od_conn' = Requested(c, op, k, i, s)
  PROVE  Holds(s) /\ Closes /\ Sent(c, od_conn', op, k, i, s)
<1>1. i \in Names
  BY HasName, ObjsNamed DEF OdInv
<1>2. Sent(c, od_conn', op, k, i, s)
  BY <1>1, RequestedConn
<1>3. Alike(Requested(c, op, k, i, s), od_conn') /\ od_conn' \in Connection
  BY <1>2, AlikeItself DEF Sent
<1>4. /\ Holds(s) /\ Defers(od_conn, od_conn') /\ od_conn'.list = od_conn.list
      /\ od_conn'.pending_close = od_conn.pending_close
  BY <1>3, Asks
<1>5. od_conn'.state = "pending" /\ od_conn'.op = op
  BY <1>2 DEF Sent
<1> QED
  BY <1>2, <1>4, <1>5 DEF Closes, Listed

\* the step is s's, and the connection's state is as before
LEMMA StillTalks ==
  ASSUME NEW s \in Stmts, NEW c, od_conn' \in Connection, SameStatements,
         UNCHANGED <<od_scan, od_srv>>, Going(s), Owning', Replaced',
         c \in {od_conn, Locked(od_conn, s), Unlocked(od_conn, s)},
         od_conn \in Connection, Undisturbed(c, od_conn')
  PROVE  Talks(s)
<1>1. OwnerOnly(od_conn, c) \/ c = od_conn
  BY LockedConn, UnlockedConn
<1>2. \/ c.current = od_conn.current /\ c.tds = od_conn.tds
      \/ /\ CanLock(s) /\ c.current = s
         /\ c.tds = (od_conn.tds \ {od_conn.current}) \cup {s}
      \/ /\ od_conn.current = s /\ od_conn.state = "idle"
         /\ c.current = "none" /\ c.tds = od_conn.tds \ {s}
  BY LockedConn, UnlockedConn
<1> QED
  BY <1>1, <1>2 DEF Talks, Holding, SameStatements, Undisturbed, OwnerOnly

\* A request of s that owns the connection.
LEMMA NowTalks ==
  ASSUME NEW s \in Stmts, NEW c, od_conn' \in Connection, SameStatements,
         UNCHANGED <<od_scan, od_srv>>, Going(s), Owning', Replaced',
         c = Locked(od_conn, s) \/ (c = od_conn /\ od_conn.current = s),
         od_conn \in Connection, od_conn.state = "idle",
         od_conn'.current = c.current, od_conn'.tds = c.tds,
         od_conn'.state = "pending", od_conn'.by = s
  PROVE  Talks(s)
<1>1. CanLock(s)
  BY DEF CanLock
<1>2. c.current = s
  BY <1>1, LockedConn
<1>3. \/ c.current = od_conn.current /\ c.tds = od_conn.tds
      \/ /\ CanLock(s) /\ c.current = s
         /\ c.tds = (od_conn.tds \ {od_conn.current}) \cup {s}
  BY <1>1, LockedConn
<1> QED
  BY <1>2, <1>3 DEF Talks, Holding, SameStatements

\* what a statement that lets go of an object holds
LEMMA FreeHas ==
  ASSUME OdInv, NEW s \in Stmts, NEW k \in Kinds, Free(s, k)
  PROVE  SameStatements /\ HasNow(s, k, NoObj) /\ od_stmt'[s].has[k] = NoObj
<1>1. NoObj \in Names /\ od_stmt' = [od_stmt EXCEPT ![s].has[k] = NoObj]
  BY ObjsNamed DEF Free
<1>2. SameStatements /\ HasNow(s, k, NoObj)
  BY <1>1, HasSet
<1> QED
  BY <1>2 DEF HasNow

\* odbc_free_dynamic
LEMMA FreeDynamicSteps ==
  ASSUME OdInv, NEW s \in Stmts, FreeDynamic(s) PROVE OdInv'
<1> DEFINE i == od_stmt[s].has["dyn"]
           got == Locked(od_conn, s)
<1>1. /\ TalkInv /\ Ready(s) /\ od_call.todo \in Plans
      /\ Head(od_call.todo) = "free_dynamic"
  BY ReadyAt DEF OdInv, FreeDynamic
<1>2. i \in Names /\ od_conn \in Connection /\ "dyn" \in Kinds
  BY <1>1, HasName, KindNames
<1>3. OwnerOnly(od_conn, got) /\ got \in Connection
  BY <1>2, LockedConn DEF OwnerOnly
<1>4. UNCHANGED <<od_scan, od_srv>>
  BY DEF FreeDynamic
<1>5. CASE /\ i # NoObj /\ od_conn.obj[i].known /\ CanLock(s)
           /\ od_conn.state = "idle"
  <2>1. /\ od_conn' = Requested(got, "unprepare", "dyn", i, s)
        /\ Reads(s, "all", <<"unprepared">> \o Rest) /\ UNCHANGED od_stmt
    BY <1>5 DEF FreeDynamic
  <2>2. SameStatements /\ SameHas
    BY <2>1, SameStmts
  <2>3. Going(s) /\ Owning' /\ Replaced'
    BY <1>1, <2>1, PlanRest, ReadsAll DEF Rest
  <2> HIDE DEF got
  <2>4. Alike(od_conn, got)
    BY <1>2, <1>3, OwnerAlike
  <2>5. Holds(s) /\ Closes /\ Sent(got, od_conn', "unprepare", "dyn", i, s)
    BY <1>2, <1>3, <2>1, <2>2, <2>4, AskSteps, OpNames
  <2>6. Talks(s)
    BY <1>2, <1>4, <1>5, <2>2, <2>3, <2>5, NowTalks DEF Sent, got
  <2> QED
    BY <1>1, <2>5, <2>6, CallGoesOn
<1>6. CASE i = NoObj \/ ~od_conn.obj[i].known
  <2>1. od_conn' = Released(od_conn, i) /\ Goes(s) /\ Free(s, "dyn")
    BY <1>6 DEF FreeDynamic
  <2>2. SameStatements /\ HasNow(s, "dyn", NoObj) /\ od_stmt'[s].has["dyn"] = NoObj
    BY <1>2, <2>1, FreeHas
  <2>3. Going(s) /\ Owning' /\ Replaced'
    BY <1>1, <2>1, <2>2, NextStage
  <2>4. Holds(s) /\ Closes /\ od_conn' \in Connection /\ ObjectsOnly(od_conn, od_conn')
    BY <1>2, <2>1, <2>2, Itself, LetGoSteps DEF Alike
  <2>5. Talks(s)
    BY <1>2, <1>4, <2>2, <2>3, <2>4, ObjectsOnlyUndisturbed, StillTalks
  <2> QED
    BY <1>1, <2>4, <2>5, CallGoesOn
<1>7. CASE i # NoObj /\ od_conn.obj[i].known /\ ~(CanLock(s) /\ od_conn.state = "idle")
  <2>1. /\ od_conn' = Released(Deferred(got, "dyn", i), i)
        /\ Goes(s) /\ Free(s, "dyn") /\ od_conn.state # "idle"
    BY <1>7 DEF FreeDynamic, CanLock
  <2>2. SameStatements /\ HasNow(s, "dyn", NoObj) /\ od_stmt'[s].has["dyn"] = NoObj
    BY <1>2, <2>1, FreeHas
  <2>3. Going(s) /\ Owning' /\ Replaced'
    BY <1>1, <2>1, <2>2, NextStage
  <2>4. Holds(s) /\ Closes /\ od_conn' \in Connection /\ Undisturbed(got, od_conn')
    BY <1>2, <1>3, <1>7, <2>1, <2>2, DeferSteps
  <2>5. Talks(s)
    BY <1>2, <1>4, <2>2, <2>3, <2>4, StillTalks
  <2> QED
    BY <1>1, <2>4, <2>5, CallGoesOn
<1> QED
  BY <1>5, <1>6, <1>7

\* odbc_free_cursor
LEMMA FreeCursorSteps ==
  ASSUME OdInv, NEW s \in Stmts, FreeCursor(s) PROVE OdInv'
<1> DEFINE i == od_stmt[s].has["cursor"]
           got == Locked(od_conn, s)
<1>1. /\ TalkInv /\ Ready(s) /\ od_call.todo \in Plans
      /\ Head(od_call.todo) = "free_cursor"
  BY ReadyAt DEF OdInv, FreeCursor
<1>2. i \in Names /\ od_conn \in Connection /\ "cursor" \in Kinds
  BY <1>1, HasName, KindNames
<1>3. OwnerOnly(od_conn, got) /\ got \in Connection
  BY <1>2, LockedConn DEF OwnerOnly
<1>4. UNCHANGED <<od_scan, od_srv>>
  BY DEF FreeCursor
<1>5. CASE i # NoObj /\ CanLock(s) /\ od_conn.state = "idle"
  <2>1. /\ od_conn' = Requested(got, "cursorclose", "cursor", i, s)
        /\ Reads(s, "all", <<"closed">> \o Rest) /\ UNCHANGED od_stmt
    BY <1>5 DEF FreeCursor
  <2>2. SameStatements /\ SameHas
    BY <2>1, SameStmts
  <2>3. Going(s) /\ Owning' /\ Replaced'
    BY <1>1, <2>1, PlanRest, ReadsAll DEF Rest
  <2> HIDE DEF got
  <2>4. Alike(od_conn, got)
    BY <1>2, <1>3, OwnerAlike
  <2>5. Holds(s) /\ Closes /\ Sent(got, od_conn', "cursorclose", "cursor", i, s)
    BY <1>2, <1>3, <2>1, <2>2, <2>4, AskSteps, OpNames
  <2>6. Talks(s)
    BY <1>2, <1>4, <1>5, <2>2, <2>3, <2>5, NowTalks DEF Sent, got
  <2> QED
    BY <1>1, <2>5, <2>6, CallGoesOn
<1>6. CASE i = NoObj
  <2>1. od_conn' = od_conn /\ Goes(s) /\ Free(s, "cursor")
    BY <1>6 DEF FreeCursor
  <2>2. SameStatements /\ HasNow(s, "cursor", NoObj)
    BY <1>2, <2>1, FreeHas
  <2>3. SameHas
    BY <1>6, <2>2 DEF HasNow, SameHas
  <2>4. Going(s) /\ Owning' /\ Replaced'
    BY <1>1, <2>1, NextStage
  <2> QED
    BY <1>1, <1>4, <2>1, <2>2, <2>3, <2>4, OwnerGoesOn
<1>7. CASE i # NoObj /\ ~(CanLock(s) /\ od_conn.state = "idle")
  <2>1. /\ od_conn' = Released(Deferred(got, "cursor", i), i)
        /\ Goes(s) /\ Free(s, "cursor") /\ od_conn.state # "idle"
    BY <1>7 DEF FreeCursor, CanLock
  <2>2. SameStatements /\ HasNow(s, "cursor", NoObj)
    BY <1>2, <2>1, FreeHas
  <2>3. Going(s) /\ Owning' /\ Replaced'
    BY <1>1, <2>1, NextStage
  <2>4. Holds(s) /\ Closes /\ od_conn' \in Connection /\ Undisturbed(got, od_conn')
    BY <1>2, <1>3, <2>1, <2>2, DeferSteps
  <2>5. Talks(s)
    BY <1>2, <1>4, <2>2, <2>3, <2>4, StillTalks
  <2> QED
    BY <1>1, <2>4, <2>5, CallGoesOn
<1> QED
  BY <1>5, <1>6, <1>7

\* odbc_free_dynamic, the answer read
LEMMA UnpreparedSteps ==
  ASSUME OdInv, NEW s \in Stmts, Unprepared(s) PROVE OdInv'
<1> DEFINE i == od_stmt[s].has["dyn"]
           got == Unlocked(od_conn, s)
<1>1. /\ TalkInv /\ Ready(s) /\ od_call.todo \in Plans
      /\ Head(od_call.todo) = "unprepared"
  BY ReadyAt DEF OdInv, Unprepared
<1>2. i \in Names /\ od_conn \in Connection /\ "dyn" \in Kinds
  BY <1>1, HasName, KindNames
<1>3. UNCHANGED <<od_scan, od_srv>> /\ Goes(s) /\ Free(s, "dyn")
  BY DEF Unprepared
<1>4. SameStatements /\ HasNow(s, "dyn", NoObj) /\ od_stmt'[s].has["dyn"] = NoObj
  BY <1>2, <1>3, FreeHas
<1>5. Going(s) /\ Owning' /\ Replaced'
  BY <1>1, <1>3, <1>4, NextStage
<1>6. CASE od_call.rc = "fail"
  <2>1. od_conn' = Released(Deferred(od_conn, "dyn", i), i)
    BY <1>6 DEF Unprepared
  <2>2. od_conn.state = "dead"
    BY <1>1, <1>6 DEF TalkInv, Phases
  <2>3. OwnerOnly(od_conn, od_conn)
    BY OwnerKept
  <2>4. Holds(s) /\ Closes /\ od_conn' \in Connection /\ Undisturbed(od_conn, od_conn')
    BY <1>2, <1>4, <2>1, <2>2, <2>3, DeferSteps
  <2>5. Talks(s)
    BY <1>2, <1>3, <1>4, <1>5, <2>4, StillTalks
  <2> QED
    BY <1>1, <2>4, <2>5, CallGoesOn
<1>7. CASE od_call.rc # "fail"
  <2>1. od_conn' = Released(got, i)
    BY <1>7 DEF Unprepared
  <2>2. OwnerOnly(od_conn, got) /\ got \in Connection /\ Alike(od_conn, got)
    BY <1>2, UnlockedConn, OwnerAlike DEF OwnerOnly
  <2>3. NoneListed(od_conn, got)
    BY <2>2, Itself DEF NoneListed, OwnerOnly, Apart
  <2>4. /\ Holds(s) /\ Closes /\ od_conn' \in Connection
        /\ ObjectsOnly(got, od_conn')
    <3> HIDE DEF got
    <3> QED
      BY <1>2, <1>4, <2>1, <2>2, <2>3, LetGoSteps DEF Alike, OwnerOnly
  <2>5. Talks(s)
    BY <1>2, <1>3, <1>4, <1>5, <2>4, ObjectsOnlyUndisturbed, StillTalks
  <2> QED
    BY <1>1, <2>4, <2>5, CallGoesOn
<1> QED
  BY <1>6, <1>7

\* odbc_free_cursor, the answer read
LEMMA CursorClosedSteps ==
  ASSUME OdInv, NEW s \in Stmts, CursorClosed(s) PROVE OdInv'
<1> DEFINE i == od_stmt[s].has["cursor"]
<1>1. /\ TalkInv /\ Ready(s) /\ od_call.todo \in Plans
      /\ Head(od_call.todo) = "closed"
  BY ReadyAt DEF OdInv, CursorClosed
<1>2. i \in Names /\ od_conn \in Connection /\ "cursor" \in Kinds
  BY <1>1, HasName, KindNames
<1>3. UNCHANGED <<od_scan, od_srv>> /\ Goes(s) /\ Free(s, "cursor")
  BY DEF CursorClosed
<1>4. SameStatements /\ HasNow(s, "cursor", NoObj)
  BY <1>2, <1>3, FreeHas
<1>5. Going(s) /\ Owning' /\ Replaced'
  BY <1>1, <1>3, NextStage
<1>6. Holds(s) /\ Closes /\ od_conn' \in Connection /\ Undisturbed(od_conn, od_conn')
  <2>1. CASE od_call.rc = "fail"
    <3>1. od_conn' = Released(Deferred(od_conn, "cursor", i), i)
      BY <2>1 DEF CursorClosed
    <3>2. od_conn.state # "idle"
      BY <1>1, <2>1 DEF TalkInv, Phases
    <3>3. OwnerOnly(od_conn, od_conn)
      BY OwnerKept
    <3> QED
      BY <1>2, <1>4, <3>1, <3>2, <3>3, DeferSteps
  <2>2. CASE od_call.rc # "fail"
    <3>1. od_conn' = Released(tds_cursor_check_allocated(od_conn, i), i)
      BY <2>2 DEF CursorClosed
    <3> QED
      BY <1>4, <3>1, CheckSteps
  <2> QED
    BY <2>1, <2>2
<1>7. Talks(s)
  BY <1>2, <1>3, <1>4, <1>5, <1>6, StillTalks
<1> QED
  BY <1>1, <1>6, <1>7, CallGoesOn

---------------------------------------------------------------------------
(* The stages that send a request.                                         *)

\* a plain query
LEMMA QuerySteps ==
  ASSUME OdInv, NEW s \in Stmts, ExecuteQuery(s) PROVE OdInv'
<1> DEFINE got == Locked(od_conn, s)
<1>1. /\ TalkInv /\ Ready(s) /\ od_conn.state = "idle"
      /\ UNCHANGED <<od_stmt, od_scan, od_srv>>
      /\ Reads(s, "some", <<"results">>)
      /\ od_conn' = Requested(got, "none", "dyn", NoObj, s)
  BY ReadyAt DEF OdInv, ExecuteQuery, Executing
<1>2. od_conn \in Connection /\ "dyn" \in Kinds
  BY KindNames DEF OdInv, TalkInv, Typed
<1>3. OwnerOnly(od_conn, got) /\ got \in Connection /\ Alike(od_conn, got)
  BY <1>2, LockedConn, OwnerAlike DEF OwnerOnly
<1>4. SameStatements /\ SameHas
  BY <1>1, SameStmts
<1>5. got.current = s
  BY <1>1, <1>2, LockedConn DEF CanLock
<1> HIDE DEF got
<1>6. Holds(s) /\ Closes /\ Sent(got, od_conn', "none", "dyn", NoObj, s)
  BY <1>1, <1>2, <1>3, <1>4, AskSteps, OpNames
<1>7. Going(s) /\ Owning' /\ Replaced'
  BY <1>1, <1>5, <1>6, ReadsOwned, CallPlans DEF Sent
<1>8. Talks(s)
  BY <1>1, <1>2, <1>4, <1>6, <1>7, NowTalks DEF Sent, got
<1> QED
  BY <1>1, <1>6, <1>8, CallGoesOn

\* a prepared statement executed again
LEMMA AgainSteps ==
  ASSUME OdInv, NEW s \in Stmts, ExecuteAgain(s) PROVE OdInv'
<1> DEFINE i == od_stmt[s].has["dyn"]
           known == od_conn.obj[i].known
           op == IF known THEN "execute" ELSE "none"
           got == Locked(od_conn, s)
           sent == Requested(got, op, "dyn", i, s)
<1>1. /\ TalkInv /\ Ready(s) /\ od_conn.state = "idle"
      /\ UNCHANGED <<od_stmt, od_scan, od_srv>>
  BY ReadyAt DEF OdInv, ExecuteAgain, Executing
<1>2. od_conn \in Connection /\ "dyn" \in Kinds /\ i \in Names
  BY <1>1, HasName, KindNames
<1>3. OwnerOnly(od_conn, got) /\ got \in Connection /\ Alike(od_conn, got)
  BY <1>2, LockedConn, OwnerAlike DEF OwnerOnly
<1>4. SameStatements /\ SameHas
  BY <1>1, SameStmts
<1>5. CanLock(s) /\ got.current = s
  BY <1>1, <1>2, LockedConn DEF CanLock
<1>6. IF known THEN od_conn' = sent /\ Reads(s, "some", <<"results">>)
      ELSE od_conn' = [sent EXCEPT !.state = "idle", !.by = "none"] /\ Return
  BY DEF ExecuteAgain
<1>7. op \in Ops /\ op \notin {"prepare", "prepexec"}
  BY OpNames
<1>8. CASE known
  <2>1. od_conn' = sent /\ Reads(s, "some", <<"results">>)
    BY <1>6, <1>8
  <2> HIDE DEF got, op
  <2>2. Holds(s) /\ Closes /\ Sent(got, od_conn', op, "dyn", i, s)
    BY <1>2, <1>3, <1>4, <1>7, <2>1, AskSteps
  <2>3. Going(s) /\ Owning' /\ Replaced'
    BY <1>5, <2>1, <2>2, ReadsOwned, CallPlans DEF Sent
  <2>4. Talks(s)
    BY <1>1, <1>2, <1>4, <2>2, <2>3, NowTalks DEF Sent, got
  <2> QED
    BY <1>1, <2>2, <2>4, CallGoesOn
<1>9. CASE ~known
  <2>1. od_conn' = [sent EXCEPT !.state = "idle", !.by = "none"] /\ Return
    BY <1>6, <1>9
  <2>2. op = "none"
    BY <1>9
  <2> HIDE DEF got, op
  <2>3. Sent(got, sent, op, "dyn", i, s)
    BY <1>2, <1>3, <1>7, RequestedConn
  <2> HIDE DEF sent
  <2>4. /\ od_conn' \in Connection /\ od_conn'.state = "idle" /\ od_conn'.op = "none"
        /\ od_conn'.cur = sent.cur /\ od_conn'.list = sent.list
        /\ od_conn'.obj = sent.obj /\ od_conn'.pending_close = sent.pending_close
        /\ od_conn'.current = got.current /\ od_conn'.tds = got.tds
    BY <2>1, <2>2, <2>3 DEF Sent, Connection
  <2>5. Alike(sent, od_conn')
    BY <2>4 DEF Alike, SameExcess, Excess, Moves, Defers, Listed
  <2>6. /\ Holds(s) /\ Defers(od_conn, od_conn') /\ od_conn'.list = od_conn.list
        /\ od_conn'.pending_close = od_conn.pending_close
    BY <1>2, <1>3, <1>4, <1>7, <2>4, <2>5, Asks DEF sent
  <2>7. Closes
    BY <2>4, <2>6 DEF Closes, Listed
  <2>8. Going(s) /\ Owning' /\ Replaced'
    BY <2>1, Returned
  <2>9. Holding(s)
    BY <1>2, <1>5, <2>4, LockedConn DEF Holding, got
  <2>10. Talks(s)
    BY <1>1, <1>4, <2>4, <2>8, <2>9 DEF Talks, SameStatements
  <2> QED
    BY <1>1, <2>6, <2>7, <2>10, CallGoesOn
<1> QED
  BY <1>8, <1>9

\* a statement prepared and executed at once
LEMMA PrepExecSteps ==
  ASSUME OdInv, NEW s \in Stmts, PrepExec(s) PROVE OdInv'
<1>1. /\ TalkInv /\ Ready(s) /\ od_call.todo \in Plans
      /\ Head(od_call.todo) = "prepexec" /\ od_call.stmt = s
      /\ UNCHANGED <<od_scan, od_srv>>
  BY ReadyAt DEF OdInv, PrepExec
<1>2. od_conn \in Connection /\ "dyn" \in Kinds /\ od_stmt \in [Stmts -> Statement]
  BY <1>1, KindNames DEF TalkInv, Typed
<1>3. CASE od_conn.state = "idle"
  <2> DEFINE i == NewObj
             w == WithNew(od_conn, "dyn", i)
             r == Requested(w, "prepexec", "dyn", i, s)
  <2>1. /\ SomeFree
        /\ od_stmt' = [od_stmt EXCEPT ![s].reprepare = FALSE, ![s].has["dyn"] = i]
        /\ od_conn' = Locked(r, s) /\ Reads(s, "some", <<"results">>)
    BY <1>3 DEF PrepExec
  <2>2. i \in Objs /\ i \in Names
    BY <2>1, NewObjIsFree, ObjsNamed
  <2>3. w \in Connection /\ Undisturbed(od_conn, w)
    BY <1>2, <2>2, WithNewConn
  <2>4. SameStatements /\ HasNow(s, "dyn", i)
    <3> HIDE DEF i
    <3> DEFINE n == [od_stmt[s] EXCEPT !.reprepare = FALSE,
                       !.has = [od_stmt[s].has EXCEPT !["dyn"] = i]]
    <3>1. /\ n \in Statement /\ n.live = od_stmt[s].live
          /\ \A l \in Kinds : n.has[l] = IF l = "dyn" THEN i ELSE od_stmt[s].has[l]
      BY <1>2, <2>2 DEF Statement
    <3>2. od_stmt' = [od_stmt EXCEPT ![s] = n]
      BY <1>2, <2>1 DEF Statement
    <3> HIDE DEF n
    <3> QED
      BY <1>2, <3>1, <3>2 DEF SameStatements, HasNow
  <2>5. od_stmt[s].has["dyn"] = NoObj
    <3>1. od_call.todo = <<"prepexec">>
      BY <1>1 DEF Plans
    <3> QED
      BY <1>1, <3>1 DEF TalkInv, Replaced
  <2> HIDE DEF i, w
  <2>6. Sent(w, r, "prepexec", "dyn", i, s) /\ r \in Connection
    BY <1>2, <2>2, <2>3, RequestedConn, OpNames DEF Sent
  <2>7. /\ OwnerOnly(r, od_conn') /\ Alike(r, od_conn') /\ CanLock(s)
        /\ od_conn'.current = s
        /\ od_conn'.tds = (od_conn.tds \ {od_conn.current}) \cup {s}
    <3>1. CanLock(s)
      BY <1>3 DEF CanLock
    <3>2. /\ OwnerOnly(r, Locked(r, s)) /\ Locked(r, s).current = s
          /\ Locked(r, s).tds = (r.tds \ {r.current}) \cup {s}
      BY <2>6, <3>1, LockedConn
    <3> QED
      BY <2>1, <2>3, <2>6, <3>1, <3>2, OwnerAlike DEF Sent, Undisturbed
  <2>8. LessExcess(od_conn, od_conn, od_stmt[s].has["dyn"])
    <3>1. ASSUME NEW j \in Objs PROVE Excess(od_conn, j) = Excess(od_conn, j) - Bit(j = NoObj)
      <4>1. Excess(od_conn, j) \in Int /\ j # NoObj
        BY <1>2, ExcessTyped, ObjsNamed
      <4> QED
        BY <4>1 DEF Bit
    <3> QED
      BY <2>5, <3>1 DEF LessExcess
  <2>9. /\ Holds(s) /\ Defers(od_conn, od_conn')
        /\ od_conn'.pending_close = od_conn.pending_close
        /\ i \in ToSet(od_conn'.list["dyn"]) /\ od_conn'.cur["dyn"] = i
        /\ \A l \in Kinds : /\ ToSet(od_conn.list[l]) \subseteq ToSet(od_conn'.list[l])
                            /\ ToSet(od_conn'.list[l])
                                 \subseteq ToSet(od_conn.list[l]) \cup {i}
        /\ ~od_conn.obj[i].defer
    <3>1. /\ Moves(od_conn, od_conn) /\ Defers(od_conn, od_conn)
          /\ od_conn' \in Connection
      BY <2>7, Itself DEF Alike, OwnerOnly
    <3> QED
      BY <1>2, <2>1, <2>4, <2>7, <2>8, <3>1, OpNames, Opens DEF w, i
  <2>10. od_conn'.state = "pending" /\ od_conn'.op = "prepexec" /\ od_conn'.by = s
    BY <2>6, <2>7 DEF Sent, OwnerOnly
  <2>11. Closes
    BY <1>2, <2>9, <2>10, KindNames DEF Closes, Listed
  <2>12. Going(s) /\ Owning' /\ Replaced'
    BY <2>1, <2>7, ReadsOwned, CallPlans
  <2>13. Talks(s)
    BY <1>1, <1>3, <2>4, <2>7, <2>10, <2>12 DEF Talks, Holding, SameStatements, OwnerOnly
  <2> QED
    BY <1>1, <2>9, <2>11, <2>13, CallGoesOn
<1>4. CASE od_conn.state # "idle"
  <2>1. /\ od_stmt' = [od_stmt EXCEPT ![s].reprepare = FALSE]
        /\ Return /\ UNCHANGED od_conn
    BY <1>4 DEF PrepExec
  <2>2. SameStatements /\ SameHas
    BY <1>2, <2>1 DEF SameStatements, SameHas, Statement
  <2> QED
    BY <1>1, <2>1, <2>2, Returned, OwnerGoesOn
<1> QED
  BY <1>3, <1>4

\* an older object is let go, and a new one asked for
LEMMA ReopenSteps ==
  ASSUME OdInv, SomeFree, NEW s \in Stmts, NEW k \in Kinds, NEW op \in Ops,
         op = "prepare" => k = "dyn", op # "prepexec",
         od_conn.state = "idle",
         od_stmt' = [od_stmt EXCEPT ![s].has[k] = NewObj],
         od_conn' = Requested(WithNew(Released(Locked(od_conn, s),
                                               od_stmt[s].has[k]), k, NewObj),
                              op, k, NewObj, s)
  PROVE  /\ Holds(s) /\ Closes /\ SameStatements /\ od_conn' \in Connection
         /\ od_conn'.current = Locked(od_conn, s).current
         /\ od_conn'.tds = Locked(od_conn, s).tds /\ od_conn'.current = s
         /\ od_conn'.state = "pending" /\ od_conn'.by = s
<1> DEFINE i == NewObj
           h == od_stmt[s].has[k]
           got == Locked(od_conn, s)
           c == Released(got, h)
           w == WithNew(c, k, i)
<1>1. od_conn \in Connection /\ h \in Names
  BY HasName DEF OdInv
<1>2. /\ OwnerOnly(od_conn, got) /\ got \in Connection /\ Alike(od_conn, got)
      /\ got.current = s
  BY <1>1, LockedConn, OwnerAlike DEF OwnerOnly, CanLock
<1>3. i \in Objs /\ i \in Names
  BY NewObjIsFree, ObjsNamed
<1>4. SameStatements /\ HasNow(s, k, i)
  BY <1>3, HasSet
<1>5. od_conn' = Requested(w, op, k, i, s)
  OBVIOUS
<1> HIDE DEF got
<1>6. c \in Connection /\ ObjectsOnly(got, c)
  BY <1>1, <1>2, ReleasedConn
<1>7. Moves(got, c) /\ Defers(got, c) /\ LessExcess(got, c, h)
  BY <1>1, <1>2, ReleasedCounts
<1> HIDE DEF c
<1>8. /\ Moves(od_conn, c) /\ Defers(od_conn, c) /\ LessExcess(od_conn, c, h)
      /\ c.list = od_conn.list /\ c.cur = od_conn.cur
      /\ c.pending_close = od_conn.pending_close
  BY <1>2, <1>6, <1>7, MovesOn, DefersOn
     DEF Alike, SameExcess, LessExcess, ObjectsOnly, OwnerOnly
<1> HIDE DEF i
<1>9. w \in Connection /\ Undisturbed(c, w)
  BY <1>3, <1>6, WithNewConn
<1> HIDE DEF w
<1>10. Sent(w, od_conn', op, k, i, s)
  BY <1>3, <1>5, <1>9, RequestedConn
<1>11. od_conn' \in Connection /\ Alike(Requested(w, op, k, i, s), od_conn')
  BY <1>5, <1>10, AlikeItself DEF Sent
<1>12. /\ Holds(s) /\ Defers(od_conn, od_conn')
       /\ od_conn'.pending_close = od_conn.pending_close
       /\ i \in ToSet(od_conn'.list[k]) /\ od_conn'.cur[k] = i
       /\ \A l \in Kinds : /\ ToSet(od_conn.list[l]) \subseteq ToSet(od_conn'.list[l])
                           /\ ToSet(od_conn'.list[l])
                                \subseteq ToSet(od_conn.list[l]) \cup {i}
       /\ ~od_conn.obj[i].defer
  BY <1>4, <1>6, <1>8, <1>11, Opens DEF w, i, h
<1>13. od_conn'.state = "pending" /\ od_conn'.op = op /\ od_conn'.by = s
  BY <1>10 DEF Sent
<1>14. Closes
  BY <1>12, <1>13, KindNames DEF Closes, Listed
<1>15. od_conn'.current = got.current /\ od_conn'.tds = got.tds
  BY <1>6, <1>9, <1>10 DEF Sent, Undisturbed, ObjectsOnly
<1> QED
  BY <1>2, <1>4, <1>11, <1>12, <1>13, <1>14, <1>15 DEF got

\* odbc_cursor_execute
LEMMA ExecuteCursorSteps ==
  ASSUME OdInv, NEW s \in Stmts, ExecuteCursor(s) PROVE OdInv'
<1>1. /\ TalkInv /\ Ready(s) /\ od_conn.state = "idle" /\ SomeFree
      /\ UNCHANGED <<od_scan, od_srv>> /\ Reads(s, "some", <<"opened">>)
  BY ReadyAt DEF OdInv, ExecuteCursor, Executing
<1>2. od_conn \in Connection /\ "cursor" \in Kinds
  BY <1>1, KindNames DEF TalkInv, Typed
<1>3. /\ Holds(s) /\ Closes /\ SameStatements /\ od_conn' \in Connection
      /\ od_conn'.current = Locked(od_conn, s).current
      /\ od_conn'.tds = Locked(od_conn, s).tds /\ od_conn'.current = s
      /\ od_conn'.state = "pending" /\ od_conn'.by = s
  BY <1>1, <1>2, OpNames, ReopenSteps DEF ExecuteCursor
<1>4. Going(s) /\ Owning' /\ Replaced'
  BY <1>1, <1>3, ReadsOwned, CallPlans
<1>5. Talks(s)
  BY <1>1, <1>2, <1>3, <1>4, NowTalks
<1> QED
  BY <1>1, <1>3, <1>5, CallGoesOn

\* odbc_prepare
LEMMA NumResultColsSteps ==
  ASSUME OdInv, NEW s \in Stmts, SQLNumResultCols(s) PROVE OdInv'
<1>1. /\ TalkInv /\ Ready(s) /\ od_call = NoCall /\ UNCHANGED <<od_scan, od_srv>>
  BY ReadyCalling DEF OdInv, SQLNumResultCols
<1>2. od_conn \in Connection /\ "dyn" \in Kinds
  BY <1>1, KindNames DEF TalkInv, Typed
<1>3. CASE od_conn.state # "idle"
  <2>1. od_conn' = Locked(od_conn, s) /\ UNCHANGED od_stmt /\ Return
    BY <1>1, <1>3 DEF SQLNumResultCols, Return
  <2> QED
    BY <1>1, <2>1, SameStmts, Returned, OwnerGoesOn
<1>4. CASE od_conn.state = "idle"
  <2>1. SomeFree /\ Reads(s, "all", <<"prepared">>)
    BY <1>4 DEF SQLNumResultCols
  <2>2. /\ Holds(s) /\ Closes /\ SameStatements /\ od_conn' \in Connection
        /\ od_conn'.current = Locked(od_conn, s).current
        /\ od_conn'.tds = Locked(od_conn, s).tds /\ od_conn'.current = s
        /\ od_conn'.state = "pending" /\ od_conn'.by = s
    BY <1>2, <1>4, <2>1, OpNames, ReopenSteps DEF SQLNumResultCols
  <2>3. Going(s) /\ Owning' /\ Replaced'
    BY <2>1, ReadsAll, CallPlans
  <2>4. Talks(s)
    BY <1>1, <1>2, <1>4, <2>2, <2>3, NowTalks
  <2> QED
    BY <1>1, <2>2, <2>4, CallGoesOn
<1> QED
  BY <1>3, <1>4

\* odbc_cursor_execute, the answer read
LEMMA CursorOpenedSteps ==
  ASSUME OdInv, NEW s \in Stmts, CursorOpened(s) PROVE OdInv'
<1> DEFINE i == od_stmt[s].has["cursor"]
<1>1. /\ TalkInv /\ Ready(s) /\ od_call.todo \in Plans
      /\ Head(od_call.todo) = "opened" /\ od_call.stmt = s
      /\ UNCHANGED <<od_scan, od_srv>>
  BY ReadyAt DEF OdInv, CursorOpened
<1>2. od_conn \in Connection /\ "cursor" \in Kinds /\ i \in Names
  BY <1>1, HasName, KindNames
<1>3. od_conn.current = s
  <2>1. od_call.todo = <<"opened">>
    BY <1>1, PlanRest
  <2> QED
    BY <1>1, <2>1 DEF TalkInv, Owning
<1>4. CASE UNCHANGED <<od_conn, od_stmt>>
           /\ (Return \/ Reads(s, "some", <<"results">>))
  <2>1. Going(s) /\ Owning' /\ Replaced'
    BY <1>3, <1>4, Returned, ReadsOwned, CallPlans
  <2> QED
    BY <1>1, <1>4, <2>1, SameStmts, OwnerGoesOn
<1>5. CASE /\ od_conn.state = "idle" /\ UNCHANGED od_stmt
           /\ od_conn' = Requested(od_conn, "cursoroption", "cursor", i, s)
           /\ Reads(s, "some", <<"results">>)
  <2>1. SameStatements /\ SameHas
    BY <1>5, SameStmts
  <2>2. Holds(s) /\ Closes /\ Sent(od_conn, od_conn', "cursoroption", "cursor", i, s)
    BY <1>2, <1>5, <2>1, Itself, OpNames, AskSteps
  <2>3. Going(s) /\ Owning' /\ Replaced'
    BY <1>3, <1>5, <2>2, ReadsOwned, CallPlans DEF Sent
  <2>4. Talks(s)
    BY <1>1, <1>2, <1>3, <1>5, <2>1, <2>2, <2>3, NowTalks DEF Sent
  <2> QED
    BY <1>1, <2>2, <2>4, CallGoesOn
<1>6. CASE /\ od_conn' = Released(tds_cursor_check_allocated(od_conn, i), i)
           /\ Free(s, "cursor")
           /\ Return \/ Reads(s, "some", <<"results">>)
  <2>1. SameStatements /\ HasNow(s, "cursor", NoObj)
    BY <1>2, <1>6, FreeHas
  <2>2. Holds(s) /\ Closes /\ od_conn' \in Connection /\ Undisturbed(od_conn, od_conn')
    BY <1>6, <2>1, CheckSteps
  <2>3. Going(s) /\ Owning' /\ Replaced'
    BY <1>3, <1>6, <2>2, Returned, ReadsOwned, CallPlans DEF Undisturbed
  <2>4. Talks(s)
    BY <1>1, <1>2, <2>1, <2>2, <2>3, StillTalks
  <2> QED
    BY <1>1, <2>2, <2>4, CallGoesOn
<1> QED
  BY <1>4, <1>5, <1>6 DEF CursorOpened

\* odbc_prepare, the answer read
LEMMA PreparedSteps ==
  ASSUME OdInv, NEW s \in Stmts, Prepared(s) PROVE OdInv'
<1> DEFINE i == od_stmt[s].has["dyn"]
           failed == od_call.rc \in {"fail", "error"}
<1>1. /\ TalkInv /\ Ready(s) /\ od_call.todo \in Plans
      /\ Head(od_call.todo) = "prepared"
      /\ UNCHANGED <<od_scan, od_srv>> /\ Goes(s)
  BY ReadyAt DEF OdInv, Prepared
<1>2. /\ od_conn \in Connection /\ "dyn" \in Kinds /\ i \in Names
      /\ od_stmt \in [Stmts -> Statement]
  BY <1>1, HasName, KindNames DEF TalkInv, Typed
<1>3. Going(s) /\ Owning' /\ Replaced'
  BY <1>1, NextStage
<1>4. /\ od_conn' = Unlocked(IF failed THEN Released(od_conn, i) ELSE od_conn, s)
      /\ od_stmt' = [od_stmt EXCEPT ![s].reprepare = FALSE,
                       ![s].has["dyn"] = IF failed THEN NoObj ELSE i]
  BY DEF Prepared
<1>5. SameStatements /\ HasNow(s, "dyn", IF failed THEN NoObj ELSE i)
  <2> DEFINE h == IF failed THEN NoObj ELSE i
             n == [od_stmt[s] EXCEPT !.reprepare = FALSE,
                     !.has = [od_stmt[s].has EXCEPT !["dyn"] = h]]
  <2>1. h \in Names
    BY <1>2, ObjsNamed
  <2>2. od_stmt' = [od_stmt EXCEPT ![s].reprepare = FALSE, ![s].has["dyn"] = h]
    BY <1>4
  <2> HIDE DEF h
  <2>3. /\ n \in Statement /\ n.live = od_stmt[s].live
        /\ \A l \in Kinds : n.has[l] = IF l = "dyn" THEN h ELSE od_stmt[s].has[l]
    BY <1>2, <2>1 DEF Statement
  <2>4. od_stmt' = [od_stmt EXCEPT ![s] = n]
    BY <1>2, <2>2 DEF Statement
  <2> HIDE DEF n
  <2>5. SameStatements /\ HasNow(s, "dyn", h)
    BY <1>2, <2>3, <2>4 DEF SameStatements, HasNow
  <2> QED
    BY <2>5 DEF h
<1>6. CASE ~failed
  <2>1. od_conn' = Unlocked(od_conn, s)
    BY <1>4, <1>6
  <2>2. SameHas
    BY <1>5, <1>6 DEF HasNow, SameHas
  <2> QED
    BY <1>1, <1>3, <1>5, <2>1, <2>2, OwnerGoesOn
<1>7. CASE failed
  <2> DEFINE r == Released(od_conn, i)
  <2>1. od_conn' = Unlocked(r, s) /\ HasNow(s, "dyn", NoObj)
    BY <1>4, <1>5, <1>7
  <2>2. r \in Connection /\ ObjectsOnly(od_conn, r)
    BY <1>2, ReleasedConn
  <2> HIDE DEF r
  <2>3. /\ OwnerOnly(r, od_conn') /\ Alike(r, od_conn') /\ od_conn' \in Connection
        /\ IF r.current = s /\ r.state = "idle"
           THEN od_conn'.current = "none" /\ od_conn'.tds = r.tds \ {s}
           ELSE od_conn'.current = r.current /\ od_conn'.tds = r.tds
    BY <2>1, <2>2, UnlockedConn, OwnerAlike DEF OwnerOnly
  <2>4. /\ Holds(s) /\ Defers(od_conn, od_conn') /\ od_conn'.list = od_conn.list
        /\ od_conn'.cur = od_conn.cur /\ od_conn'.pending_close = od_conn.pending_close
    BY <1>2, <2>1, <2>3, Itself, LetGo DEF r, Alike
  <2>5. od_conn'.state = od_conn.state /\ od_conn'.op = od_conn.op
        /\ od_conn'.by = od_conn.by
    BY <2>2, <2>3 DEF OwnerOnly, ObjectsOnly
  <2>6. Closes
    BY <2>4, <2>5 DEF Closes, Listed
  <2>7. Holding(s)
    BY <2>2, <2>3 DEF Holding, ObjectsOnly
  <2>8. Talks(s)
    BY <1>1, <1>3, <1>5, <2>3, <2>5, <2>7 DEF Talks, SameStatements
  <2> QED
    BY <1>1, <2>4, <2>6, <2>8, CallGoesOn
<1> QED
  BY <1>6, <1>7

\* a fetch from a cursor
LEMMA FetchCursorSteps ==
  ASSUME OdInv, NEW s \in Stmts, FetchCursor(s) PROVE OdInv'
<1> DEFINE i == od_stmt[s].has["cursor"]
           lock == Locked(od_conn, s)
           got == [lock EXCEPT !.obj[i].known = FALSE]
<1>1. /\ TalkInv /\ Ready(s) /\ od_call = NoCall /\ CanLock(s) /\ i # NoObj
      /\ UNCHANGED <<od_stmt, od_scan, od_srv>>
  BY ReadyCalling DEF OdInv, FetchCursor
<1>2. od_conn \in Connection /\ "cursor" \in Kinds /\ i \in Objs
  BY <1>1, HasName, KindNames DEF Names
<1>3. SameStatements /\ SameHas
  BY <1>1, SameStmts
<1>4. /\ OwnerOnly(od_conn, lock) /\ lock \in Connection /\ Alike(od_conn, lock)
      /\ lock.current = s /\ lock.tds = (od_conn.tds \ {od_conn.current}) \cup {s}
  BY <1>1, <1>2, LockedConn, OwnerAlike DEF OwnerOnly
<1>5. /\ IF od_conn.state # "idle" THEN od_conn' = got /\ UNCHANGED od_call
         ELSE /\ od_conn' = Requested(got, "cursorfetch", "cursor", i, s)
              /\ Reads(s, "some", <<"fetched">>)
  BY DEF FetchCursor
<1> HIDE DEF lock, i
<1>6. /\ got \in Connection /\ ObjectsOnly(lock, got)
      /\ \A j \in Objs : /\ got.obj[j].refs = lock.obj[j].refs
                         /\ got.obj[j].kind = lock.obj[j].kind
                         /\ got.obj[j].defer = lock.obj[j].defer
  <2>1. ASSUME NEW o \in Object
        PROVE  LET n == [o EXCEPT !.known = FALSE]
               IN  n \in Object /\ n.refs = o.refs /\ n.kind = o.kind
                   /\ n.defer = o.defer
    BY DEF Object
  <2> DEFINE f == [lock.obj EXCEPT ![i] = [lock.obj[i] EXCEPT !.known = FALSE]]
  <2>2. lock.obj \in [Objs -> Object]
    BY <1>4 DEF Connection
  <2>3. /\ f \in [Objs -> Object]
        /\ \A j \in Objs : /\ f[j].refs = lock.obj[j].refs
                           /\ f[j].kind = lock.obj[j].kind
                           /\ f[j].defer = lock.obj[j].defer
    BY <1>2, <2>1, <2>2
  <2>4. got = [lock EXCEPT !.obj = f]
    OBVIOUS
  <2> HIDE DEF f, got
  <2> QED
    BY <1>4, <2>3, <2>4, ConnWithObj
<1> HIDE DEF got
<1>7. Alike(lock, got)
  BY <1>4, <1>6 DEF Alike, SameExcess, Excess, Moves, Defers, ObjectsOnly, Listed
<1>8. Alike(od_conn, got)
  <2>1. Moves(od_conn, got) /\ Defers(od_conn, got)
    BY <1>4, <1>7, MovesOn, DefersOn DEF Alike
  <2> QED
    BY <1>4, <1>7, <2>1 DEF Alike, SameExcess
<1>9. CASE od_conn.state # "idle"
  <2>1. od_conn' = got /\ Return
    BY <1>1, <1>5, <1>9 DEF Return
  <2>2. Holding(s) /\ od_conn'.state = od_conn.state /\ od_conn'.by = od_conn.by
        /\ od_conn'.op = od_conn.op /\ od_conn'.cur = od_conn.cur
        /\ od_conn'.list = od_conn.list /\ od_conn'.pending_close = od_conn.pending_close
    BY <1>1, <1>4, <1>6, <2>1 DEF Holding, ObjectsOnly, OwnerOnly
  <2>3. Talks(s)
    BY <1>1, <1>3, <1>6, <2>1, <2>2, Returned DEF Talks, SameStatements
  <2>4. Closes
    BY <1>8, <2>1, <2>2 DEF Closes, Listed, Alike
  <2>5. Swaps(s, "cursor", i)
    <3>1. ASSUME NEW j \in Objs
          PROVE  Excess(od_conn', j) = (Excess(od_conn, j) - Bit(j = i)) + Bit(j = i)
      <4>1. Excess(od_conn, j) \in Int /\ Excess(od_conn', j) = Excess(od_conn, j)
        BY <1>2, <1>8, <2>1, ExcessTyped DEF Alike, SameExcess
      <4> QED
        BY <4>1 DEF Bit
    <3>2. Apart(od_conn')
      BY <2>2, Itself DEF Apart
    <3> QED
      BY <1>3, <1>8, <2>1, <2>2, <3>1, <3>2 DEF Swaps, SameHas, Moves, Alike, i
  <2>6. Holds(s)
    BY <1>2, <2>5 DEF Holds, Names
  <2> QED
    BY <1>1, <2>3, <2>4, <2>6, CallGoesOn
<1>10. CASE od_conn.state = "idle"
  <2>1. od_conn' = Requested(got, "cursorfetch", "cursor", i, s)
        /\ Reads(s, "some", <<"fetched">>)
    BY <1>5, <1>10
  <2>2. Holds(s) /\ Closes /\ Sent(got, od_conn', "cursorfetch", "cursor", i, s)
    BY <1>2, <1>3, <1>6, <1>8, <2>1, OpNames, AskSteps DEF i
  <2>3. od_conn'.current = lock.current /\ od_conn'.tds = lock.tds
    BY <1>6, <2>2 DEF Sent, ObjectsOnly
  <2>4. Going(s) /\ Owning' /\ Replaced'
    BY <1>4, <2>1, <2>3, ReadsOwned, CallPlans
  <2>5. Talks(s)
    BY <1>1, <1>2, <1>3, <1>10, <2>2, <2>3, <2>4, NowTalks DEF Sent, lock
  <2> QED
    BY <1>1, <2>2, <2>5, CallGoesOn
<1> QED
  BY <1>9, <1>10

---------------------------------------------------------------------------
(* Steps that are no statement's.                                          *)

\* neither the connection nor what is held changed
LEMMA Unmoved ==
  ASSUME HoldInv, CloseInv, UNCHANGED <<od_conn, od_scan, od_srv>>, SameHas
  PROVE  HoldInv' /\ CloseInv'
<1>1. CloseInv'
  BY DEF CloseInv, Passed
<1>2. ASSUME NEW i PROVE Owned(i)' <=> Owned(i)
  BY DEF Owned, SameHas
<1>3. Counted'
  <2>1. ASSUME NEW i \in Objs
        PROVE  Excess(od_conn', i) = Bit(Owned(i)') + Bit(od_scan'.at = i)
                                       + Bit(od_scan'.next = i)
    BY <1>2 DEF HoldInv, Counted, Bit
  <2> QED
    BY <2>1 DEF Counted
<1>4. OneHolder'
  BY DEF HoldInv, OneHolder, SameHas
<1>5. Sorted'
  BY DEF HoldInv, Sorted, OfKind, SameHas
<1>6. Visiting'
  BY DEF HoldInv, Visiting, NextOf
<1> QED
  BY <1>1, <1>3, <1>4, <1>5, <1>6 DEF HoldInv

\* what is still referred to keeps its kind
LEMMA SortedOn ==
  ASSUME Typed, Typed', HoldInv, Counted', UNCHANGED od_stmt,
         Moves(od_conn, od_conn'), Apart(od_conn'),
         \A k \in Kinds :
           /\ ToSet(od_conn'.list[k]) \subseteq ToSet(od_conn.list[k])
           /\ od_conn'.cur[k] \in {NoObj, od_conn.cur[k]} \cup ToSet(od_conn.list[k])
  PROVE  OneHolder' /\ Sorted'
<1>1. OneHolder'
  BY DEF HoldInv, OneHolder
<1>2. ASSUME NEW k \in Kinds, NEW j \in Objs,
             j \in ToSet(od_conn'.list[k]) \/ j = od_conn'.cur[k]
               \/ \E s \in Stmts : j = od_stmt[s].has[k]
      PROVE  od_conn'.obj[j].kind = k
  <2>1. od_conn'.obj[j].refs >= 1
    <3> DEFINE p == Bit(Owned(j)')
               q == Bit(od_scan'.at = j)
               r == Bit(od_scan'.next = j)
    <3>1. Owned(j)' \/ (\E m \in Kinds : od_conn'.cur[m] = j) \/ j \in Listed(od_conn')
      BY <1>2 DEF Listed, Kinds, Owned
    <3>2. Excess(od_conn', j) = p + q + r
      BY DEF Counted
    <3>3. p \in {0, 1} /\ q \in {0, 1} /\ r \in {0, 1} /\ (Owned(j)' => p = 1)
      BY DEF Bit
    <3>4. od_conn' \in Connection
      BY DEF Typed
    <3> HIDE DEF p, q, r
    <3> QED
      BY <3>1, <3>2, <3>3, <3>4, CountedRefs
  <2>2. od_conn'.obj[j].kind = od_conn.obj[j].kind
    BY <2>1 DEF Moves
  <2>3. j # NoObj
    BY ObjsNamed
  <2>4. od_conn.obj[j].kind = k
    BY <1>2, <2>3 DEF HoldInv, Sorted, OfKind
  <2> QED
    BY <2>2, <2>4
<1>3. ASSUME NEW k \in Kinds
      PROVE  /\ IsInjective(od_conn'.list[k])
             /\ \A j \in ToSet(od_conn'.list[k]) : OfKind(od_conn', k, j)
             /\ OfKind(od_conn', k, od_conn'.cur[k])
             /\ \A s \in Stmts : OfKind(od_conn', k, od_stmt'[s].has[k])
  <2>1. IsInjective(od_conn'.list[k])
    BY DEF Apart
  <2>2. od_conn'.list[k] \in Seq(Objs) /\ od_conn'.cur[k] \in Names
    BY DEF Typed, Connection
  <2>3. ToSet(od_conn'.list[k]) \subseteq Objs
    BY <2>2 DEF ToSet
  <2>4. \A j \in ToSet(od_conn'.list[k]) : OfKind(od_conn', k, j)
    BY <1>2, <2>3 DEF OfKind
  <2>5. OfKind(od_conn', k, od_conn'.cur[k])
    BY <1>2, <2>2 DEF OfKind, Names
  <2>6. \A s \in Stmts : od_stmt[s].has[k] \in Names
    BY DEF Typed, Statement
  <2>7. \A s \in Stmts : OfKind(od_conn', k, od_stmt'[s].has[k])
    BY <1>2, <2>6 DEF OfKind, Names
  <2> QED
    BY <2>1, <2>4, <2>5, <2>7
<1>4. Sorted'
  BY <1>3 DEF Sorted
<1> QED
  BY <1>1, <1>4

\* statements as they were own what they did
LEMMA OwnedSame ==
  ASSUME UNCHANGED od_stmt, NEW i PROVE Bit(Owned(i)') = Bit(Owned(i))
<1>1. Owned(i)' <=> Owned(i)
  BY DEF Owned
<1> QED
  BY <1>1 DEF Bit

\* The same references, the same counts.
LEMMA CountedOn ==
  ASSUME Counted, UNCHANGED <<od_stmt, od_scan>>, SameExcess(od_conn, od_conn')
  PROVE  Counted'
<1>1. ASSUME NEW i \in Objs
      PROVE  Excess(od_conn', i) = Bit(Owned(i)') + Bit(od_scan'.at = i)
                                     + Bit(od_scan'.next = i)
  <2>1. Excess(od_conn', i) = Excess(od_conn, i) /\ Bit(Owned(i)') = Bit(Owned(i))
    BY OwnedSame DEF SameExcess
  <2>2. Excess(od_conn, i) = Bit(Owned(i)) + Bit(od_scan.at = i) + Bit(od_scan.next = i)
    BY DEF Counted
  <2> QED
    BY <2>1, <2>2
<1> QED
  BY <1>1 DEF Counted

\* SQLAllocStmt: a statement not allocated holds nothing
LEMMA AllocSteps ==
  ASSUME OdInv, Emptied, NEW s \in Stmts, NEW scroll \in BOOLEAN,
         SQLAllocStmt(s, scroll)
  PROVE  OdInv'
<1> DEFINE n == [FreeStmt EXCEPT !.live = TRUE, !.scroll = scroll]
<1>1. /\ od_call = NoCall /\ ~od_stmt[s].live /\ od_conn.current # s
      /\ od_stmt' = [od_stmt EXCEPT ![s] = n]
      /\ UNCHANGED <<od_conn, od_call, od_scan, od_srv>>
  BY DEF SQLAllocStmt
<1>2. /\ n \in Statement /\ n.live /\ \A k \in Kinds : n.has[k] = NoObj
  BY ObjsNamed DEF FreeStmt, NoObjs, Statement
<1> HIDE DEF n
<1>3. TalkInv /\ HoldInv /\ CloseInv /\ od_stmt \in [Stmts -> Statement]
  BY DEF OdInv, TalkInv, Typed
<1>4. SameHas
  BY <1>1, <1>2, <1>3 DEF Emptied, SameHas
<1>5. Typed'
  BY <1>1, <1>2, <1>3 DEF TalkInv, Typed
<1>6. Planned' /\ Phases' /\ Senders' /\ Owning'
  BY <1>1, <1>3 DEF TalkInv, Planned, Phases, Senders, Owning
<1>7. Replaced'
  <2>1. <<>> # <<"prepexec">>
    OBVIOUS
  <2> QED
    BY <1>1, <2>1, NoCallTyped DEF Replaced
<1>8. OneOwner'
  BY <1>1, <1>2, <1>3 DEF TalkInv, OneOwner
<1> QED
  BY <1>1, <1>3, <1>4, <1>5, <1>6, <1>7, <1>8, Unmoved DEF OdInv, TalkInv

\* SQLFreeStmt(SQL_DROP): a statement freed holds nothing
LEMMA DropSteps ==
  ASSUME OdInv, Emptied, NEW s \in Stmts, Drop(s) PROVE OdInv'
<1> DEFINE free == Unlocked(od_conn, s)
<1>1. /\ TalkInv /\ Ready(s) /\ od_call.todo \in Plans
      /\ Head(od_call.todo) = "drop" /\ od_call.stmt = s
      /\ UNCHANGED <<od_scan, od_srv>> /\ Goes(s)
      /\ od_stmt' = [od_stmt EXCEPT ![s] = FreeStmt]
      /\ od_conn' = [free EXCEPT !.tds = @ \ {s}]
  BY ReadyAt DEF OdInv, Drop
<1>2. /\ HoldInv /\ CloseInv /\ Typed /\ od_stmt \in [Stmts -> Statement]
      /\ od_conn \in Connection
  BY <1>1 DEF OdInv, TalkInv, Typed
<1>3. Return
  BY <1>1, PlanRest DEF Goes, Rest
<1>4. /\ FreeStmt \in Statement /\ ~FreeStmt.live
      /\ \A k \in Kinds : FreeStmt.has[k] = NoObj
  BY ObjsNamed DEF FreeStmt, NoObjs, Statement
<1>5. SameHas
  <2>1. od_call.todo = <<"drop">>
    BY <1>1 DEF Plans
  <2>2. \A k \in Kinds : od_stmt[s].has[k] = NoObj
    BY <1>1, <2>1 DEF Emptied, Freeing, Kinds
  <2> QED
    BY <1>1, <1>2, <1>4, <2>2 DEF SameHas
<1>6. /\ OwnerOnly(od_conn, free)
      /\ IF od_conn.current = s /\ od_conn.state = "idle"
         THEN free.current = "none" /\ free.tds = od_conn.tds \ {s}
         ELSE free.current = od_conn.current /\ free.tds = od_conn.tds
  BY <1>2, UnlockedConn
<1> HIDE DEF free
<1>7. OwnerOnly(od_conn, od_conn') /\ od_conn'.tds = od_conn.tds \ {s}
      /\ od_conn'.current = free.current
  BY <1>1, <1>6 DEF OwnerOnly, Connection
<1>8. Typed'
  BY <1>1, <1>2, <1>3, <1>4, <1>7, NoCallTyped DEF Typed, Return, OwnerOnly
<1>9. Planned' /\ Phases' /\ Owning' /\ Replaced'
  <2>1. od_call' = NoCall /\ od_scan' = NoScan
    BY <1>1, <1>3 DEF Return, Ready
  <2>2. ~NoScan.wait /\ NoScan.list = "off" /\ <<>> # <<"opened">> /\ <<>> # <<"prepexec">>
    BY DEF NoScan
  <2> QED
    BY <2>1, <2>2, NoCallTyped DEF Planned, Phases, Owning, Replaced
<1>10. Senders'
  <2>1. s # "none" /\ "none" \notin Stmts
    BY OdAssumption
  <2> QED
    BY <1>1, <1>6, <1>7 DEF Senders, Ready, OwnerOnly
<1>11. OneOwner'
  <2>1. od_conn.tds = {t \in Stmts : t = od_conn.current /\ od_stmt[t].live}
    BY <1>1 DEF TalkInv, OneOwner
  <2>2. \A t \in Stmts : od_stmt'[t].live <=> (t # s /\ od_stmt[t].live)
    BY <1>1, <1>2, <1>4 DEF Statement
  <2>3. "none" \notin Stmts
    BY OdAssumption
  <2>4. ASSUME NEW t
        PROVE  t \in od_conn'.tds <=> t \in Stmts /\ t = od_conn'.current /\ od_stmt'[t].live
    BY <1>6, <1>7, <2>1, <2>2, <2>3
  <2>5. od_conn'.tds = {t \in Stmts : t = od_conn'.current /\ od_stmt'[t].live}
    BY <2>4
  <2> QED
    BY <2>5 DEF OneOwner
<1>12. Holds(s) /\ Closes
  BY <1>5, <1>7, OwnerSteps
<1>13. HoldInv'
  BY <1>1, <1>2, <1>8, <1>12, HoldGoesOn DEF Holds, Ready
<1>14. CloseInv'
  BY <1>1, <1>2, <1>7 DEF CloseInv, OwnerOnly, Listed, Ready, NoScan
<1> QED
  BY <1>8, <1>9, <1>10, <1>11, <1>13, <1>14 DEF OdInv, TalkInv

\* SQLEndTran
LEMMA EndTranSteps ==
  ASSUME OdInv, SQLEndTran PROVE OdInv'
<1>1. /\ TalkInv /\ HoldInv /\ CloseInv /\ od_call = NoCall
      /\ UNCHANGED <<od_stmt, od_conn, od_scan, od_srv>>
      /\ Reads("dbc", "all", <<"commit">>) \/ Enter("dbc", <<"commit">>)
  BY DEF OdInv, SQLEndTran
<1>2. Starts("dbc", "all", <<"commit">>) \/ Starts("dbc", "no", <<"commit">>)
  <2>1. <<"commit">> \in EndPlans
    BY DEF EndPlans
  <2> QED
    BY <1>1, <2>1, CallStarted
<1>3. od_scan = NoScan /\ ~NoScan.wait /\ NoScan.list = "off" /\ "none" \notin Stmts
  BY <1>1, OdAssumption, NoCallTyped DEF TalkInv, Phases, NoScan
<1>4. /\ <<"commit">> \in EndPlans /\ <<"commit">> # <<"opened">>
      /\ <<"commit">> # <<"prepexec">>
  BY DEF EndPlans
<1>5. Typed' /\ Planned' /\ Phases' /\ Owning' /\ Replaced' /\ OneOwner'
  BY <1>1, <1>2, <1>3, <1>4
     DEF TalkInv, Typed, Planned, Phases, Owning, Replaced, OneOwner, Starts
<1>6. Senders'
  BY <1>1, <1>2, <1>3, NoCallTyped DEF TalkInv, Senders, Starts
<1>7. SameHas
  BY <1>1 DEF SameHas
<1> QED
  BY <1>1, <1>5, <1>6, <1>7, Unmoved DEF OdInv, TalkInv

\* a call of the connection
LEMMA ConnCall ==
  ASSUME OdInv, NEW stage, At("dbc", stage)
  PROVE  /\ TalkInv /\ od_call.stmt = "dbc" /\ od_call.todo \in EndPlans
         /\ od_call.read = "no" /\ od_call.last = "none" /\ od_scan = NoScan
         /\ od_conn.state = "pending" =>
              od_conn.by \in Stmts /\ od_conn.by = od_conn.current
         /\ ~NoScan.wait /\ NoScan.list = "off"
<1>1. TalkInv /\ od_call.stmt = "dbc" /\ od_call.read = "no"
  BY DEF OdInv, At
<1>2. od_call.todo \in EndPlans
  BY <1>1, OdAssumption, NoCallTyped DEF TalkInv, Planned
<1>3. od_call.last = "none" /\ od_scan = NoScan
  BY <1>1 DEF TalkInv, Phases
<1>4. ~NoScan.wait /\ NoScan.list = "off"
  BY DEF NoScan
<1> QED
  BY <1>1, <1>2, <1>3, <1>4 DEF TalkInv, Senders

\* a call of the connection that returns
LEMMA ConnReturns ==
  ASSUME OdInv, NEW stage, At("dbc", stage), Return,
         UNCHANGED <<od_stmt, od_conn, od_scan, od_srv>>
  PROVE  OdInv'
<1>1. /\ TalkInv /\ HoldInv /\ CloseInv /\ od_scan = NoScan
      /\ od_conn.state = "pending" =>
           od_conn.by \in Stmts /\ od_conn.by = od_conn.current
      /\ ~NoScan.wait /\ NoScan.list = "off"
  BY ConnCall DEF OdInv
<1>2. od_call' = NoCall
  BY DEF Return
<1>3. <<>> # <<"opened">> /\ <<>> # <<"prepexec">>
  OBVIOUS
<1>4. Typed' /\ Planned' /\ Phases' /\ Senders' /\ Owning' /\ Replaced' /\ OneOwner'
  BY <1>1, <1>2, <1>3, NoCallTyped
     DEF TalkInv, Typed, Planned, Phases, Senders, Owning, Replaced, OneOwner
<1>5. SameHas
  BY DEF SameHas
<1> QED
  BY <1>1, <1>4, <1>5, Unmoved DEF OdInv, TalkInv

\* the end of SQLEndTran
LEMMA ConnFinishSteps ==
  ASSUME OdInv, Finish("dbc") PROVE OdInv'
<1>1. PICK stage \in {"results", "unlock", "stay"} : At("dbc", stage)
  BY DEF Finish
<1>2. od_call.todo \in EndPlans /\ Head(od_call.todo) = stage /\ TalkInv
  BY <1>1, ConnCall DEF At
<1>3. stage = "stay"
  BY <1>2 DEF EndPlans
<1>4. od_conn' = od_conn /\ UNCHANGED <<od_stmt, od_scan, od_srv>>
  BY <1>2, <1>3 DEF Finish, At
<1>5. Return
  BY <1>2, EndPlanRest DEF Finish, Goes, Rest
<1> QED
  BY <1>1, <1>4, <1>5, ConnReturns

\* change_transaction, what was pending read
LEMMA CommitSteps ==
  ASSUME OdInv, Commit PROVE OdInv'
<1>1. /\ TalkInv /\ HoldInv /\ CloseInv /\ At("dbc", "commit") /\ od_scan = NoScan
      /\ UNCHANGED <<od_stmt, od_scan, od_srv>> /\ ~NoScan.wait /\ NoScan.list = "off"
  BY ConnCall DEF OdInv, Commit
<1>2. CASE Return /\ UNCHANGED od_conn
  BY <1>1, <1>2, ConnReturns
<1>3. CASE /\ od_conn.state = "idle"
           /\ od_conn' = Requested(od_conn, "none", "dyn", NoObj, "dbc")
           /\ Reads("dbc", "all", <<"stay">>)
  <2>1. od_conn \in Connection /\ Apart(od_conn) /\ "dyn" \in Kinds /\ NoObj \in Names
    BY Itself, KindNames, ObjsNamed
  <2>2. Sent(od_conn, od_conn', "none", "dyn", NoObj, "dbc")
    BY <1>3, <2>1, OpNames, RequestedConn
  <2>3. Moves(od_conn, od_conn') /\ Defers(od_conn, od_conn')
        /\ SameExcess(od_conn, od_conn')
    BY <1>3, <2>1, OpNames, RequestedCounts
  <2>4. <<"stay">> \in EndPlans /\ <<"stay">> # <<"opened">> /\ <<"stay">> # <<"prepexec">>
    BY DEF EndPlans
  <2>5. Starts("dbc", "all", <<"stay">>)
    BY <1>3, <2>4, CallStarted
  <2>6. Typed' /\ Planned' /\ Phases' /\ Senders' /\ Owning' /\ Replaced' /\ OneOwner'
    BY <1>1, <1>3, <2>2, <2>4, <2>5
       DEF TalkInv, Typed, Planned, Phases, Senders, Owning, Replaced, OneOwner,
           Starts, Sent
  <2>7. Counted'
    BY <1>1, <2>3, CountedOn DEF HoldInv
  <2>8. \A k \in Kinds : od_conn'.list[k] = od_conn.list[k] /\ od_conn'.cur[k] = NoObj
    BY <2>2 DEF Sent, NoObjs
  <2>9. OneHolder' /\ Sorted'
    <3>1. Apart(od_conn')
      BY <2>1, <2>2 DEF Apart, Sent
    <3> QED
      BY <1>1, <2>3, <2>6, <2>7, <2>8, <3>1, SortedOn DEF TalkInv
  <2>10. Visiting'
    BY <1>1 DEF Visiting, NoScan
  <2>11. CloseInv'
    <3>1. Listed(od_conn') = Listed(od_conn)
      BY <2>2 DEF Listed, Sent
    <3>2. od_conn'.state = "pending" /\ od_conn'.op = "none"
          /\ od_conn'.list = od_conn.list
      BY <2>2 DEF Sent
    <3>3. \A i \in Listed(od_conn) : ~od_conn.obj[i].defer
      BY <1>1, <1>3 DEF CloseInv
    <3>4. \A i \in Listed(od_conn') : ~od_conn'.obj[i].defer
      BY <2>1, <2>3, <3>1, <3>3, ListedObjs DEF Defers
    <3> QED
      BY <1>1, <3>2, <3>4 DEF CloseInv
  <2> QED
    BY <2>6, <2>7, <2>9, <2>10, <2>11 DEF OdInv, TalkInv, HoldInv
<1> QED
  BY <1>2, <1>3 DEF Commit

---------------------------------------------------------------------------
(* tds_process_tokens.                                                     *)

\* what is read is that of a call, and nothing is being closed meanwhile
LEMMA Reading ==
  ASSUME OdInv, od_call.read # "no", od_scan.list = "off"
  PROVE  /\ TalkInv /\ HoldInv /\ CloseInv /\ od_scan = NoScan /\ ~od_scan.wait
         /\ od_call \in Call /\ od_conn \in Connection
         /\ \/ /\ od_call.stmt \in Stmts /\ od_stmt[od_call.stmt].live
               /\ od_call.todo \in Plans
            \/ od_call.stmt = "dbc" /\ od_call.todo \in EndPlans /\ od_call.read = "all"
<1>1. od_call # NoCall
  BY NoCallTyped
<1>2. od_scan = NoScan /\ ~NoScan.wait
  BY DEF OdInv, TalkInv, Phases, NoScan
<1> QED
  BY <1>1, <1>2 DEF OdInv, TalkInv, Planned, Typed

\* what a reading that returns makes of the call
LEMMA ReadReturned ==
  ASSUME od_call \in Call, NEW rc \in {"over", "stop", "fail", "error"},
         ReadReturns(rc)
  PROVE  /\ od_call' \in Call /\ od_call'.stmt = od_call.stmt
         /\ od_call'.todo = od_call.todo /\ od_call'.read = "no"
         /\ od_call'.last = "none" /\ od_call'.rc = rc
BY DEF ReadReturns, Call

\* a reading that stops
LEMMA ReadStopsSteps ==
  ASSUME OdInv, ReadNothing \/ ReadSome PROVE OdInv'
<1>1. /\ od_call.read # "no" /\ od_call.last = "none"
      /\ UNCHANGED <<od_stmt, od_conn, od_scan, od_srv>>
  BY DEF ReadNothing, ReadSome, Receiving
<1>2. od_scan.list = "off"
  BY <1>1 DEF OdInv, TalkInv, Phases
<1>3. /\ TalkInv /\ HoldInv /\ CloseInv /\ od_scan = NoScan /\ ~od_scan.wait
      /\ od_call \in Call /\ od_conn \in Connection
      /\ \/ /\ od_call.stmt \in Stmts /\ od_stmt[od_call.stmt].live
            /\ od_call.todo \in Plans
         \/ od_call.stmt = "dbc" /\ od_call.todo \in EndPlans /\ od_call.read = "all"
  BY <1>1, <1>2, Reading
<1>4. PICK rc \in {"over", "stop", "fail", "error"} :
        /\ ReadReturns(rc) /\ (rc = "fail" => od_conn.state = "dead")
        /\ od_conn.state = "pending" => od_call.read = "some"
  BY <1>3 DEF ReadNothing, ReadSome, Connection
<1>5. /\ od_call' \in Call /\ od_call'.stmt = od_call.stmt
      /\ od_call'.todo = od_call.todo /\ od_call'.read = "no"
      /\ od_call'.last = "none" /\ od_call'.rc = rc
  BY <1>3, <1>4, ReadReturned
<1>6. /\ Typed' /\ Planned' /\ Phases' /\ Owning' /\ Replaced' /\ OneOwner'
  BY <1>1, <1>2, <1>3, <1>4, <1>5
     DEF TalkInv, Typed, Planned, Phases, Owning, Replaced, OneOwner
<1>7. Senders'
  BY <1>1, <1>3, <1>4, <1>5 DEF TalkInv, Senders
<1>8. SameHas
  BY <1>1 DEF SameHas
<1> QED
  BY <1>1, <1>3, <1>6, <1>7, <1>8, Unmoved DEF OdInv, TalkInv

\* what a dead connection is
LEMMA DeadConn ==
  ASSUME NEW c \in Connection
  PROVE  /\ Dead(c) \in Connection /\ Dead(c).state = "dead" /\ Dead(c).op = c.op
         /\ Dead(c).cur = c.cur /\ Dead(c).current = c.current
         /\ Dead(c).tds = c.tds /\ Dead(c).list = c.list /\ Dead(c).obj = c.obj
         /\ Dead(c).pending_close = c.pending_close /\ Alike(c, Dead(c))
<1>1. /\ Dead(c) \in Connection /\ Dead(c).state = "dead" /\ Dead(c).op = c.op
      /\ Dead(c).cur = c.cur /\ Dead(c).current = c.current
      /\ Dead(c).tds = c.tds /\ Dead(c).list = c.list /\ Dead(c).obj = c.obj
      /\ Dead(c).pending_close = c.pending_close
  BY DEF Dead, Connection
<1> QED
  BY <1>1 DEF Alike, SameExcess, Excess, Moves, Defers, Listed

\* the connection is lost while an answer is read
LEMMA ReadDiesSteps ==
  ASSUME OdInv, ReadDies PROVE OdInv'
<1>1. /\ od_call.read # "no" /\ od_call.last = "none" /\ od_conn.state = "pending"
      /\ UNCHANGED <<od_stmt, od_scan>> /\ ReadReturns("fail")
      /\ od_conn' = Dead(od_conn) /\ od_srv' = [k \in Kinds |-> {}]
  BY DEF ReadDies, Receiving
<1>2. od_scan.list = "off"
  BY <1>1 DEF OdInv, TalkInv, Phases
<1>3. /\ TalkInv /\ HoldInv /\ CloseInv /\ od_scan = NoScan /\ ~od_scan.wait
      /\ od_call \in Call /\ od_conn \in Connection
      /\ \/ /\ od_call.stmt \in Stmts /\ od_stmt[od_call.stmt].live
            /\ od_call.todo \in Plans
         \/ od_call.stmt = "dbc" /\ od_call.todo \in EndPlans /\ od_call.read = "all"
  BY <1>1, <1>2, Reading
<1>4. /\ od_call' \in Call /\ od_call'.stmt = od_call.stmt
      /\ od_call'.todo = od_call.todo /\ od_call'.read = "no"
      /\ od_call'.last = "none" /\ od_call'.rc = "fail"
  BY <1>1, <1>3, ReadReturned
<1>5. /\ od_conn' \in Connection /\ od_conn'.state = "dead"
      /\ od_conn'.cur = od_conn.cur /\ od_conn'.current = od_conn.current
      /\ od_conn'.tds = od_conn.tds /\ od_conn'.list = od_conn.list
      /\ od_conn'.obj = od_conn.obj /\ od_conn'.pending_close = od_conn.pending_close
      /\ Alike(od_conn, od_conn')
  BY <1>1, <1>3, DeadConn
<1>6. Typed' /\ Planned' /\ Phases' /\ Senders' /\ Owning' /\ Replaced' /\ OneOwner'
  BY <1>1, <1>2, <1>3, <1>4, <1>5
     DEF TalkInv, Typed, Planned, Phases, Senders, Owning, Replaced, OneOwner
<1>7. Counted'
  BY <1>1, <1>3, <1>5, CountedOn DEF HoldInv, Alike
<1>8. OneHolder' /\ Sorted'
  <2>1. Apart(od_conn')
    BY <1>5, Itself DEF Apart
  <2> QED
    BY <1>1, <1>3, <1>5, <1>6, <1>7, <2>1, SortedOn DEF TalkInv, Alike
<1>9. Visiting'
  BY <1>1, <1>3 DEF Visiting, NoScan
<1>10. CloseInv'
  BY <1>1, <1>2, <1>3, <1>5, KindNames DEF CloseInv, Listed
<1> QED
  BY <1>6, <1>7, <1>8, <1>9, <1>10 DEF OdInv, TalkInv, HoldInv

---------------------------------------------------------------------------
(* SQLDisconnect: nothing is left to refer to an object.                   *)

\* the last request refers to an object once for each kind
Asking(c, i) == {k \in Kinds : c.cur[k] = i}

\* how many times the last request refers to an object
LEMMA RequestHolders ==
  ASSUME NEW c, NEW i
  PROVE  /\ IsFiniteSet(Asking(c, i))
         /\ Cardinality(Asking(c, i))
              = Bit(c.cur["dyn"] = i) + Bit(c.cur["cursor"] = i)
<1> DEFINE S == Asking(c, i)
<1>1. CASE c.cur["dyn"] = i /\ c.cur["cursor"] = i
  <2>1. S = {"dyn"} \cup {"cursor"} /\ "cursor" \notin {"dyn"}
    BY <1>1 DEF Kinds, Asking
  <2>2. IsFiniteSet({"dyn"}) /\ Cardinality({"dyn"}) = 1
    BY FS_Singleton
  <2> HIDE DEF S
  <2>3. IsFiniteSet(S) /\ Cardinality(S) = 1 + 1
    BY <2>1, <2>2, FS_AddElement
  <2> QED
    BY <1>1, <2>3 DEF Bit, S
<1>2. CASE c.cur["dyn"] = i /\ c.cur["cursor"] # i
  <2>1. S = {"dyn"}
    BY <1>2 DEF Kinds, Asking
  <2>2. IsFiniteSet(S) /\ Cardinality(S) = 1
    BY <2>1, FS_Singleton
  <2> QED
    BY <1>2, <2>2 DEF Bit
<1>3. CASE c.cur["dyn"] # i /\ c.cur["cursor"] = i
  <2>1. S = {"cursor"}
    BY <1>3 DEF Kinds, Asking
  <2>2. IsFiniteSet(S) /\ Cardinality(S) = 1
    BY <2>1, FS_Singleton
  <2> QED
    BY <1>3, <2>2 DEF Bit
<1>4. CASE c.cur["dyn"] # i /\ c.cur["cursor"] # i
  <2>1. S = {}
    BY <1>4 DEF Kinds, Asking
  <2>2. IsFiniteSet(S) /\ Cardinality(S) = 0
    BY <2>1, FS_EmptySet
  <2> QED
    BY <1>4, <2>2 DEF Bit
<1> QED
  BY <1>1, <1>2, <1>3, <1>4

\* SQLDisconnect: nothing is held but by the connection
LEMMA DisconnectSteps ==
  ASSUME OdInv, Emptied, SQLDisconnect PROVE OdInv'
<1> DEFINE holders(i) == {k \in Kinds : od_conn.cur[k] = i}
                           \cup (IF i \in Listed(od_conn) THEN {"list"} ELSE {})
           left(i) == od_conn.obj[i].refs - Cardinality(holders(i))
<1>1. /\ TalkInv /\ HoldInv /\ CloseInv /\ od_call = NoCall
      /\ \A s \in Stmts : ~od_stmt[s].live
      /\ UNCHANGED <<od_stmt, od_call, od_scan>> /\ od_srv' = [k \in Kinds |-> {}]
      /\ od_conn' = [NewConnection EXCEPT !.obj =
           [i \in Objs |-> IF left(i) = 0 THEN FreeObj
                           ELSE [od_conn.obj[i] EXCEPT !.refs = left(i)]]]
  BY DEF OdInv, SQLDisconnect
<1>2. od_scan = NoScan /\ od_conn \in Connection
  BY <1>1, NoCallTyped DEF TalkInv, Phases, Typed
<1>3. ASSUME NEW i \in Objs
      PROVE  left(i) = 0 /\ ~Owned(i)
  <2>1. ~Owned(i)
    <3>1. i # NoObj
      BY ObjsNamed
    <3> QED
      BY <1>1, <3>1 DEF Owned, Emptied
  <2>2. od_scan.at # i /\ od_scan.next # i
    BY <1>2, ObjsNamed DEF NoScan
  <2>3. od_conn.obj[i].refs = 0 + 0 + 0 + Bit(od_conn.cur["dyn"] = i)
          + Bit(od_conn.cur["cursor"] = i) + Bit(i \in Listed(od_conn))
    <3>1. Excess(od_conn, i) = 0 + 0 + 0
      BY <1>1, <2>1, <2>2 DEF HoldInv, Counted, Bit
    <3> QED
      BY <1>2, <3>1, CountedRefs
  <2> DEFINE S == Asking(od_conn, i)
  <2>4. IsFiniteSet(S) /\ Cardinality(S)
          = Bit(od_conn.cur["dyn"] = i) + Bit(od_conn.cur["cursor"] = i)
    BY RequestHolders
  <2>5. "list" \notin S
    BY DEF Kinds, Asking
  <2> HIDE DEF S
  <2>6. CASE i \in Listed(od_conn)
    <3>1. holders(i) = S \cup {"list"}
      BY <2>6 DEF S, Asking
    <3>2. Cardinality(S \cup {"list"}) = Cardinality(S) + 1
      BY <2>4, <2>5, FS_AddElement
    <3> QED
      BY <2>1, <2>3, <2>4, <2>6, <3>1, <3>2 DEF Bit
  <2>7. CASE i \notin Listed(od_conn)
    <3>1. holders(i) = S
      BY <2>7 DEF S, Asking
    <3> QED
      BY <2>1, <2>3, <2>4, <2>7, <3>1 DEF Bit
  <2> QED
    BY <2>6, <2>7
<1> HIDE DEF left
<1>4. od_conn' = NewConnection
  <2>1. [i \in Objs |-> IF left(i) = 0 THEN FreeObj
                        ELSE [od_conn.obj[i] EXCEPT !.refs = left(i)]]
          = [i \in Objs |-> FreeObj]
    BY <1>3
  <2> QED
    BY <1>1, <2>1 DEF NewConnection
<1>5. /\ NewConnection \in Connection /\ NewConnection.state = "idle"
      /\ NewConnection.op = "none" /\ NewConnection.by = "none"
      /\ NewConnection.current = "none" /\ NewConnection.tds = {}
      /\ \A k \in Kinds : NewConnection.cur[k] = NoObj /\ NewConnection.list[k] = <<>>
      /\ \A i \in Objs : NewConnection.obj[i] = FreeObj
  <2>1. NoObjs \in [Kinds -> Names] /\ [k \in Kinds |-> <<>>] \in [Kinds -> Seq(Objs)]
    BY ObjsNamed DEF NoObjs
  <2>2. [i \in Objs |-> FreeObj] \in [Objs -> Object]
    BY FreeObjTyped
  <2> QED
    BY <2>1, <2>2, OpNames DEF NewConnection, Connection, NoObjs
<1>6. Typed' /\ Planned' /\ Phases' /\ Senders' /\ Owning' /\ Replaced' /\ OneOwner'
  <2>1. <<>> # <<"opened">> /\ <<>> # <<"prepexec">> /\ ~NoScan.wait /\ NoScan.list = "off"
    BY DEF NoScan
  <2> QED
    BY <1>1, <1>2, <1>4, <1>5, <2>1, NoCallTyped, OdAssumption
       DEF TalkInv, Typed, Planned, Phases, Senders, Owning, Replaced, OneOwner
<1>7. \A k \in Kinds : ToSet(od_conn'.list[k]) = {} /\ IsInjective(od_conn'.list[k])
  BY <1>4, <1>5 DEF ToSet, IsInjective
<1>8. Listed(od_conn') = {}
  BY <1>7, KindNames DEF Listed
<1>9. Counted'
  <2>1. ASSUME NEW i \in Objs
        PROVE  Excess(od_conn', i) = Bit(Owned(i)') + Bit(od_scan'.at = i)
                                       + Bit(od_scan'.next = i)
    <3>1. i # NoObj /\ NoScan.at = NoObj /\ NoScan.next = NoObj
      BY ObjsNamed DEF NoScan
    <3>2. ~Owned(i)'
      BY <1>1, <1>3 DEF Owned
    <3>3. Excess(od_conn', i) = 0
      BY <1>4, <1>5, <1>8, <3>1, KindNames, FreeObjTyped DEF Excess, Bit
    <3> QED
      BY <1>1, <1>2, <3>1, <3>2, <3>3 DEF Bit
  <2> QED
    BY <2>1 DEF Counted
<1>10. OneHolder' /\ Sorted'
  <2>1. OneHolder'
    BY <1>1 DEF HoldInv, OneHolder
  <2>2. \A k \in Kinds, s \in Stmts : od_stmt'[s].has[k] = NoObj
    BY <1>1 DEF Emptied
  <2>3. Sorted'
    BY <1>4, <1>5, <1>7, <2>2 DEF Sorted, OfKind
  <2> QED
    BY <2>1, <2>3
<1>11. Visiting'
  BY <1>1, <1>2 DEF Visiting, NoScan
<1>12. CloseInv'
  BY <1>1, <1>2, <1>4, <1>5, <1>8, KindNames DEF CloseInv, NoScan
<1> QED
  BY <1>6, <1>9, <1>10, <1>11, <1>12 DEF OdInv, TalkInv, HoldInv

\* the first object of a list, or none
LEMMA FirstOf ==
  ASSUME NEW c \in Connection, NEW k \in Kinds
  PROVE  /\ First(c, k) \in Names
         /\ First(c, k) = NoObj => ToSet(c.list[k]) = {} /\ DOMAIN c.list[k] = {}
         /\ First(c, k) # NoObj => /\ First(c, k) \in ToSet(c.list[k])
                                   /\ 1 \in DOMAIN c.list[k]
                                   /\ c.list[k][1] = First(c, k)
<1>1. c.list[k] \in Seq(Objs)
  BY DEF Connection
<1> DEFINE l == c.list[k]
<1>2. First(c, k) = IF l = <<>> THEN NoObj ELSE Head(l)
  BY DEF First
<1> HIDE DEF l
<1>3. CASE l = <<>>
  BY <1>2, <1>3, ObjsNamed DEF ToSet, l
<1>4. CASE l # <<>>
  <2>1. l \in Seq(Objs) /\ 1 \in DOMAIN l /\ Head(l) = l[1] /\ l[1] \in Objs
    BY <1>1, <1>4 DEF l
  <2> QED
    BY <1>2, <1>4, <2>1, ObjsNamed DEF ToSet, l
<1> QED
  BY <1>3, <1>4

\* the same references: what the server told does not count
SameRefsOf(c, d) ==
  /\ d.list = c.list /\ d.cur = c.cur
  /\ \A j \in Objs : /\ d.obj[j].refs = c.obj[j].refs /\ d.obj[j].kind = c.obj[j].kind
                     /\ d.obj[j].defer = c.obj[j].defer

\* the same references are the same excess
LEMMA SameRefsAlike ==
  ASSUME NEW c, NEW d, SameRefsOf(c, d)
  PROVE  /\ SameExcess(c, d) /\ Moves(c, d) /\ Defers(c, d)
         /\ Listed(d) = Listed(c)
BY DEF SameRefsOf, SameExcess, Excess, Moves, Defers, Listed

\* the connection when the answer is over, before the closes
Quiet(c, told, i) ==
  [c EXCEPT !.state = "idle", !.by = "none", !.pending_close = FALSE,
            !.obj = IF told THEN [@ EXCEPT ![i].known = TRUE] ELSE @]

\* The end of an answer changes no reference.
LEMMA QuietConn ==
  ASSUME NEW c \in Connection, NEW told \in BOOLEAN, NEW i
  PROVE  LET d == Quiet(c, told, i)
         IN  /\ d \in Connection /\ d.state = "idle" /\ d.by = "none"
             /\ ~d.pending_close /\ d.op = c.op /\ d.current = c.current
             /\ d.tds = c.tds /\ SameRefsOf(c, d)
<1> DEFINE f == IF told THEN [c.obj EXCEPT ![i].known = TRUE] ELSE c.obj
<1>1. c.obj \in [Objs -> Object]
  BY DEF Connection
<1>2. ASSUME NEW o \in Object
      PROVE  LET n == [o EXCEPT !.known = TRUE]
             IN  n \in Object /\ n.refs = o.refs /\ n.kind = o.kind
                 /\ n.defer = o.defer
  BY DEF Object
<1>3. /\ f \in [Objs -> Object]
      /\ \A j \in Objs : /\ f[j].refs = c.obj[j].refs /\ f[j].kind = c.obj[j].kind
                         /\ f[j].defer = c.obj[j].defer
  BY <1>1, <1>2
<1>4. Quiet(c, told, i) = [c EXCEPT !.state = "idle", !.by = "none",
                                    !.pending_close = FALSE, !.obj = f]
  BY DEF Quiet
<1> HIDE DEF f
<1> QED
  BY <1>3, <1>4 DEF Connection, SameRefsOf

\* what the last token of an answer does
Ends(told, kept, error, last) ==
  LET op == od_conn.op
      kind == IF op \in {"cursoropen", "cursorclose"} THEN "cursor" ELSE "dyn"
      i == od_conn.cur[kind]
      idle == Quiet(od_conn, told, i)
  IN  /\ Receiving /\ od_conn.state = "pending"
      /\ told => kept
      /\ kept => op \in {"prepare", "prepexec", "cursoropen"}
      /\ kept # told => od_call.read = "cancel"
      /\ error => op # "unprepare" /\ (told => op = "prepexec")
      /\ IF od_call.read = "cancel" THEN last = "done" /\ ~error
         ELSE op # "none" => last = "doneproc"
      /\ od_call' = [od_call EXCEPT !.last = last, !.error = error]
      /\ od_srv' = [od_srv EXCEPT ![kind] =
           CASE kept -> @ \cup {i}
             [] op \in {"unprepare", "cursorclose"} -> @ \ {i}
             [] OTHER -> @]
      /\ IF od_conn.pending_close
         THEN Visits(idle, "cursor", First(idle, "cursor"))
         ELSE od_conn' = idle /\ UNCHANGED od_scan
      /\ UNCHANGED od_stmt

\* LastToken in terms of Ends
LEMMA LastTokenEnds ==
  ASSUME LastToken
  PROVE  \E told, kept, error \in BOOLEAN, last \in {"done", "doneproc"} :
           Ends(told, kept, error, last)
BY Zenon DEF LastToken, Ends, Quiet

\* the end of an answer, and the start of the pending closes
LEMMA LastTokenSteps ==
  ASSUME OdInv, LastToken PROVE OdInv'
<1> DEFINE op == od_conn.op
           kind == IF op \in {"cursoropen", "cursorclose"} THEN "cursor" ELSE "dyn"
           i == od_conn.cur[kind]
<1>1. PICK told \in BOOLEAN, kept \in BOOLEAN, error \in BOOLEAN,
           last \in {"done", "doneproc"} :
        /\ Receiving /\ od_conn.state = "pending"
        /\ kept => op \in {"prepare", "prepexec", "cursoropen"}
        /\ od_call' = [od_call EXCEPT !.last = last, !.error = error]
        /\ od_srv' = [od_srv EXCEPT ![kind] =
             CASE kept -> @ \cup {i}
               [] op \in {"unprepare", "cursorclose"} -> @ \ {i}
               [] OTHER -> @]
        /\ IF od_conn.pending_close
           THEN Visits(Quiet(od_conn, told, i), "cursor",
                       First(Quiet(od_conn, told, i), "cursor"))
           ELSE od_conn' = Quiet(od_conn, told, i) /\ UNCHANGED od_scan
        /\ UNCHANGED od_stmt
  <2>1. PICK told \in BOOLEAN, kept \in BOOLEAN, error \in BOOLEAN,
             last \in {"done", "doneproc"} : Ends(told, kept, error, last)
    BY LastTokenEnds
  <2> QED
    BY Zenon, <2>1 DEF Ends
<1>2. od_call.read # "no" /\ od_call.last = "none" /\ od_scan.list = "off"
  BY <1>1 DEF OdInv, TalkInv, Phases, Receiving
<1>3. /\ TalkInv /\ HoldInv /\ CloseInv /\ od_scan = NoScan /\ ~od_scan.wait
      /\ od_call \in Call /\ od_conn \in Connection
      /\ \/ /\ od_call.stmt \in Stmts /\ od_stmt[od_call.stmt].live
            /\ od_call.todo \in Plans
         \/ od_call.stmt = "dbc" /\ od_call.todo \in EndPlans /\ od_call.read = "all"
  BY <1>2, Reading
<1>4. kind \in Kinds /\ i \in Names /\ od_srv \in [Kinds -> SUBSET Names]
  BY <1>3, KindNames DEF Connection, TalkInv, Typed
<1> HIDE DEF kind, i
<1> DEFINE idle == Quiet(od_conn, told, i)
           n == IF od_conn.pending_close THEN First(idle, "cursor") ELSE NoObj
<1>5. /\ idle \in Connection /\ idle.state = "idle" /\ idle.by = "none"
      /\ ~idle.pending_close /\ idle.op = op /\ idle.current = od_conn.current
      /\ idle.tds = od_conn.tds /\ SameRefsOf(od_conn, idle)
  BY <1>3, QuietConn
<1>6. /\ od_conn' = Taken(idle, n)
      /\ od_scan' = IF od_conn.pending_close
                    THEN [NoScan EXCEPT !.list = "cursor", !.at = n]
                    ELSE NoScan
  BY <1>1, <1>3 DEF Visits, Taken, NoScan
<1> HIDE DEF idle
<1>7. /\ od_scan' \in Visit /\ od_scan'.at = n /\ od_scan'.next = NoObj
      /\ ~od_scan'.wait /\ od_scan'.all
      /\ od_scan'.list = IF od_conn.pending_close THEN "cursor" ELSE "off"
      /\ od_scan'.list = "off" => od_scan' = NoScan
      /\ n \in Names
  <2>1. n \in Names /\ NoObj \in Names
    BY <1>5, FirstOf, KindNames, ObjsNamed
  <2> HIDE DEF n
  <2>2. od_conn.pending_close \in BOOLEAN
    BY <1>3 DEF Connection
  <2>3. ~od_conn.pending_close => n = NoObj
    BY DEF n
  <2> QED
    BY <1>6, <2>1, <2>2, <2>3, KindNames DEF NoScan, Visit
<1>8. n # NoObj => n \in ToSet(od_conn.list["cursor"]) /\ n \in Objs
                   /\ idle.obj[n].refs >= 1
  <2>1. ASSUME n # NoObj
        PROVE  n \in ToSet(od_conn.list["cursor"]) /\ n \in Objs
    BY <1>5, <1>7, <2>1, FirstOf, KindNames DEF SameRefsOf, Names
  <2>2. ASSUME n # NoObj PROVE idle.obj[n].refs >= 1
    <3>1. n \in Listed(od_conn) /\ n \in Objs
      BY <2>1, <2>2 DEF Listed
    <3>2. od_conn.obj[n].refs >= 1
      BY <1>3, <3>1, HeldRefs DEF TalkInv, HoldInv
    <3> QED
      BY <1>5, <3>1, <3>2 DEF SameRefsOf
  <2> QED
    BY <2>1, <2>2
<1>9. n # NoObj => od_scan'.list = "cursor"
  BY <1>7
<1>10. n = NoObj /\ od_conn.pending_close => DOMAIN od_conn.list["cursor"] = {}
  BY <1>5, FirstOf, KindNames DEF SameRefsOf
<1>11. n # NoObj => 1 \in DOMAIN od_conn.list["cursor"] /\ od_conn.list["cursor"][1] = n
  BY <1>5, FirstOf, KindNames DEF SameRefsOf
<1> HIDE DEF n
<1>12. od_conn' \in Connection /\ ObjectsOnly(idle, od_conn')
  BY <1>5, <1>6, <1>7, TakenConn
<1>13. Moves(idle, od_conn') /\ Defers(idle, od_conn') /\ MoreExcess(idle, od_conn', n)
  BY <1>5, <1>6, <1>7, <1>8, TakenCounts
<1>14. /\ od_conn'.state = "idle" /\ od_conn'.op = op /\ ~od_conn'.pending_close
       /\ od_conn'.current = od_conn.current /\ od_conn'.tds = od_conn.tds
       /\ od_conn'.list = od_conn.list /\ od_conn'.cur = od_conn.cur
  BY <1>5, <1>12 DEF ObjectsOnly, SameRefsOf
<1>15. /\ od_call' \in Call /\ od_call'.stmt = od_call.stmt /\ od_call'.todo = od_call.todo
       /\ od_call'.read = od_call.read /\ od_call'.last = last
       /\ od_call'.rc = od_call.rc
  BY <1>1, <1>3 DEF Call
<1>16. od_srv' \in [Kinds -> SUBSET Names]
  BY <1>1, <1>4
<1>17. Typed' /\ Planned' /\ Phases' /\ Senders' /\ Owning' /\ Replaced' /\ OneOwner'
  BY <1>1, <1>2, <1>3, <1>7, <1>12, <1>14, <1>15, <1>16
     DEF TalkInv, Typed, Planned, Phases, Senders, Owning, Replaced, OneOwner
<1>18. SameExcess(od_conn, idle) /\ Moves(od_conn, idle) /\ Defers(od_conn, idle)
  BY <1>5, SameRefsAlike
<1>19. Counted'
  <2>1. ASSUME NEW j \in Objs
        PROVE  Excess(od_conn', j) = Bit(Owned(j)') + Bit(od_scan'.at = j)
                                       + Bit(od_scan'.next = j)
    <3>1. Excess(od_conn, j) = Bit(Owned(j)) + Bit(od_scan.at = j) + Bit(od_scan.next = j)
      BY <1>3 DEF HoldInv, Counted
    <3>2. Excess(od_conn', j) = Excess(od_conn, j) + Bit(j = n)
      BY <1>13, <1>18 DEF SameExcess, MoreExcess
    <3>3. Bit(Owned(j)') = Bit(Owned(j))
      BY <1>1, OwnedSame
    <3>4. j # NoObj /\ NoScan.at = NoObj /\ NoScan.next = NoObj
      BY ObjsNamed DEF NoScan
    <3> QED
      BY <1>3, <1>7, <3>1, <3>2, <3>3, <3>4 DEF Bit
  <2> QED
    BY <2>1 DEF Counted
<1>20. OneHolder' /\ Sorted'
  <2>1. Apart(od_conn')
    BY <1>14, Itself DEF Apart
  <2>2. Moves(od_conn, od_conn')
    BY <1>13, <1>18, MovesOn
  <2> QED
    BY <1>1, <1>3, <1>14, <1>17, <1>19, <2>1, <2>2, SortedOn DEF TalkInv
<1>21. Visiting'
  BY <1>7, <1>8, <1>9, <1>14 DEF Visiting
<1>22. CloseInv'
  <2>1. od_srv'["dyn"] \subseteq ToSet(od_conn'.list["dyn"])
    <3>1. od_srv["dyn"] \subseteq ToSet(od_conn.list["dyn"])
      BY <1>3 DEF CloseInv
    <3>2. CASE kind = "cursor"
      BY <1>1, <1>4, <1>14, <3>1, <3>2
    <3>3. CASE kind # "cursor"
      <4>1. kind = "dyn"
        BY <3>3 DEF kind
      <4>2. kept => op \in {"prepare", "prepexec"}
        BY <1>1, <3>3 DEF kind
      <4>3. kept => i \in ToSet(od_conn.list["dyn"])
        BY <1>1, <1>3, <4>1, <4>2 DEF CloseInv, i
      <4> QED
        BY <1>1, <1>4, <1>14, <3>1, <4>1, <4>3
    <3> QED
      BY <3>2, <3>3
  <2>2. op = "unprepare" => od_conn'.cur["dyn"] \notin od_srv'["dyn"]
    <3>1. ASSUME op = "unprepare" PROVE kind = "dyn" /\ ~kept
      BY <1>1, <3>1 DEF kind
    <3>2. op = "unprepare" => od_srv'["dyn"] = od_srv["dyn"] \ {i} /\ i = od_conn.cur["dyn"]
      BY <1>1, <1>4, <3>1 DEF i
    <3> QED
      BY <1>14, <3>2
  <2>3. Defers(od_conn, od_conn')
    BY <1>13, <1>18, DefersOn
  <2>4. ASSUME od_scan'.list = "off", NEW j \in Listed(od_conn')
        PROVE  ~od_conn'.obj[j].defer
    <3>1. ~od_conn.pending_close
      BY <1>7, <2>4
    <3>2. j \in Listed(od_conn) /\ j \in Objs
      BY <1>12, <1>14, <2>4, ListedObjs DEF Listed
    <3>3. ~od_conn.obj[j].defer
      BY <1>2, <1>3, <3>1, <3>2 DEF CloseInv
    <3> QED
      BY <2>3, <3>2, <3>3 DEF Defers
  <2>5. ASSUME od_scan'.list # "off", NEW j \in Objs, Passed(j)'
        PROVE  FALSE
    <3>1. od_scan'.list = "cursor" /\ od_conn.pending_close
      BY <1>7, <2>5
    <3>2. PICK m \in DOMAIN od_conn'.list["cursor"] :
            od_scan'.at # NoObj =>
              \E p \in DOMAIN od_conn'.list["cursor"] :
                m < p /\ od_conn'.list["cursor"][p] = od_scan'.at
      BY <2>5, <3>1 DEF Passed
    <3>3. n # NoObj
      BY <1>10, <1>14, <3>1, <3>2
    <3>4. PICK p \in DOMAIN od_conn.list["cursor"] :
            m < p /\ od_conn.list["cursor"][p] = n
      BY <1>7, <1>14, <3>2, <3>3
    <3>5. p = 1
      BY <1>3, <1>11, <3>3, <3>4, KindNames DEF HoldInv, Sorted, IsInjective
    <3>6. od_conn.list["cursor"] \in Seq(Objs)
      BY <1>3, KindNames DEF Connection
    <3>7. m >= 1
      BY <1>14, <3>2, <3>6
    <3>8. m \in Int /\ p \in Int
      BY <1>14, <3>2, <3>4, <3>6
    <3> QED
      BY <3>4, <3>5, <3>7, <3>8
  <2> QED
    BY <1>7, <1>14, <2>1, <2>2, <2>4, <2>5 DEF CloseInv
<1> QED
  BY <1>17, <1>19, <1>20, <1>21, <1>22 DEF OdInv, TalkInv, HoldInv

\* What DONEPROC drops from its list the server does not hold.
LEMMA DoneProcConn ==
  ASSUME OdInv, od_conn.state # "pending", od_scan.list = "off"
  PROVE  LET d == DoneProc(od_conn)
         IN  /\ d \in Connection /\ Undisturbed(od_conn, d)
             /\ d.pending_close = od_conn.pending_close
             /\ SameExcess(od_conn, d) /\ Moves(od_conn, d) /\ Defers(od_conn, d)
             /\ Apart(d)
             /\ \A k \in Kinds : ToSet(d.list[k]) \subseteq ToSet(od_conn.list[k])
             /\ od_srv["dyn"] \subseteq ToSet(d.list["dyn"])
<1> DEFINE d == DoneProc(od_conn)
<1>1. /\ od_conn \in Connection /\ Apart(od_conn) /\ CloseInv
      /\ od_srv["dyn"] \subseteq ToSet(od_conn.list["dyn"])
  BY Itself DEF OdInv, CloseInv
<1>2. "dyn" \in Kinds /\ "cursor" \in Kinds /\ "dyn" # "cursor"
  BY KindNames
<1>3. CASE d = od_conn
  <2>1. Alike(od_conn, od_conn)
    BY AlikeItself
  <2>2. DoneProc(od_conn) = od_conn
    BY <1>3
  <2> QED
    BY <1>1, <2>1, <2>2 DEF Undisturbed, Alike
<1>4. CASE /\ od_conn.cur["cursor"] # NoObj
           /\ d = [od_conn EXCEPT !.obj[od_conn.cur["cursor"]].known = FALSE]
  <2> DEFINE i == od_conn.cur["cursor"]
             f == [od_conn.obj EXCEPT ![i] = [od_conn.obj[i] EXCEPT !.known = FALSE]]
  <2>1. i \in Objs /\ od_conn.obj \in [Objs -> Object]
    BY <1>1, <1>2, <1>4 DEF Connection, Names
  <2>2. ASSUME NEW o \in Object
        PROVE  LET n == [o EXCEPT !.known = FALSE]
               IN  n \in Object /\ n.refs = o.refs /\ n.kind = o.kind
                   /\ n.defer = o.defer
    BY DEF Object
  <2>3. d = [od_conn EXCEPT !.obj = f]
    BY <1>4
  <2> HIDE DEF i, d
  <2>4. /\ f \in [Objs -> Object]
        /\ \A j \in Objs : /\ f[j].refs = od_conn.obj[j].refs
                           /\ f[j].kind = od_conn.obj[j].kind
                           /\ f[j].defer = od_conn.obj[j].defer
    BY <2>1, <2>2
  <2> HIDE DEF f
  <2>5. d \in Connection /\ ObjectsOnly(od_conn, d) /\ d.obj = f
    BY <1>1, <2>3, <2>4, ConnWithObj
  <2>6. SameRefsOf(od_conn, d)
    BY <2>4, <2>5 DEF SameRefsOf, ObjectsOnly
  <2>7. SameExcess(od_conn, d) /\ Moves(od_conn, d) /\ Defers(od_conn, d)
    BY <2>6, SameRefsAlike
  <2> QED
    BY <1>1, <2>5, <2>7 DEF ObjectsOnly, Undisturbed, Apart, d
<1>5. CASE od_conn.op = "unprepare" /\ d = Deallocated(od_conn, "dyn", od_conn.cur["dyn"])
  <2> DEFINE i == od_conn.cur["dyn"]
  <2>1. i \in Names /\ i \notin od_srv["dyn"]
    BY <1>1, <1>2, <1>5 DEF Connection, CloseInv
  <2>2. d = Deallocated(od_conn, "dyn", i)
    BY <1>5
  <2> HIDE DEF d, i
  <2>3. /\ d \in Connection /\ Undisturbed(od_conn, d)
        /\ d.pending_close = od_conn.pending_close
    BY <1>1, <1>2, <2>1, <2>2, DeallocatedConn
  <2>4. /\ SameExcess(od_conn, d) /\ Moves(od_conn, d) /\ Defers(od_conn, d) /\ Apart(d)
        /\ ToSet(d.list["dyn"]) = ToSet(od_conn.list["dyn"]) \ {i}
        /\ \A k \in Kinds \ {"dyn"} : d.list[k] = od_conn.list[k]
    BY <1>1, <1>2, <2>1, <2>2, DeallocatedCounts
  <2> QED
    BY <1>1, <2>1, <2>3, <2>4 DEF d
<1> QED
  BY <1>3, <1>4, <1>5 DEF DoneProc

\* what is done with the last token
LEMMA AnswerOverSteps ==
  ASSUME OdInv, AnswerOver PROVE OdInv'
<1>1. /\ od_call.last # "none" /\ od_scan.list = "off"
      /\ UNCHANGED <<od_stmt, od_scan, od_srv>>
      /\ od_conn' \in {od_conn, DoneProc(od_conn)}
  BY DEF AnswerOver
<1>2. od_call.read # "no"
  BY <1>1 DEF OdInv, TalkInv, Phases
<1>3. /\ TalkInv /\ HoldInv /\ CloseInv /\ od_scan = NoScan /\ ~od_scan.wait
      /\ od_call \in Call /\ od_conn \in Connection
      /\ \/ /\ od_call.stmt \in Stmts /\ od_stmt[od_call.stmt].live
            /\ od_call.todo \in Plans
         \/ od_call.stmt = "dbc" /\ od_call.todo \in EndPlans /\ od_call.read = "all"
  BY <1>1, <1>2, Reading
<1>4. od_conn.state # "pending"
  BY <1>1, <1>3 DEF TalkInv, Phases
<1>5. PICK rc \in {"over", "stop", "fail", "error"} :
        ReadReturns(rc) /\ (rc = "fail" => od_conn.state = "dead")
  BY Zenon DEF AnswerOver
<1>6. /\ od_call' \in Call /\ od_call'.stmt = od_call.stmt
      /\ od_call'.todo = od_call.todo /\ od_call'.read = "no"
      /\ od_call'.last = "none" /\ od_call'.rc = rc
  BY <1>3, <1>5, ReadReturned
<1>7. /\ od_conn' \in Connection /\ Undisturbed(od_conn, od_conn')
      /\ od_conn'.pending_close = od_conn.pending_close
      /\ SameExcess(od_conn, od_conn') /\ Moves(od_conn, od_conn')
      /\ Defers(od_conn, od_conn') /\ Apart(od_conn')
      /\ \A k \in Kinds : ToSet(od_conn'.list[k]) \subseteq ToSet(od_conn.list[k])
      /\ od_srv["dyn"] \subseteq ToSet(od_conn'.list["dyn"])
  <2>1. CASE od_conn' = od_conn
    BY <1>3, <2>1, Itself DEF Undisturbed, Alike, CloseInv
  <2>2. CASE od_conn' = DoneProc(od_conn)
    BY <1>1, <1>4, <2>2, DoneProcConn
  <2> QED
    BY <1>1, <2>1, <2>2
<1>8. /\ od_conn'.state = od_conn.state /\ od_conn'.op = od_conn.op
      /\ od_conn'.by = od_conn.by /\ od_conn'.cur = od_conn.cur
      /\ od_conn'.current = od_conn.current /\ od_conn'.tds = od_conn.tds
  BY <1>7 DEF Undisturbed
<1>9. Typed' /\ Planned' /\ Phases' /\ Senders' /\ Owning' /\ Replaced' /\ OneOwner'
  BY <1>1, <1>3, <1>4, <1>5, <1>6, <1>7, <1>8
     DEF TalkInv, Typed, Planned, Phases, Senders, Owning, Replaced, OneOwner
<1>10. Counted'
  BY <1>1, <1>3, <1>7, CountedOn DEF HoldInv
<1>11. OneHolder' /\ Sorted'
  BY <1>1, <1>3, <1>7, <1>8, <1>9, <1>10, SortedOn DEF TalkInv
<1>12. Visiting'
  BY <1>1, <1>3 DEF Visiting, NoScan
<1>13. CloseInv'
  <2>1. ASSUME NEW j \in Listed(od_conn'), od_conn'.obj[j].defer
        PROVE  od_conn'.pending_close /\ od_conn'.state # "idle"
    <3>1. j \in Listed(od_conn)
      BY <1>7, KindNames DEF Listed
    <3>2. j \in Objs
      BY <1>3, <3>1, ListedObjs
    <3>3. od_conn.obj[j].defer
      BY <1>7, <2>1, <3>2 DEF Defers
    <3>4. od_conn.pending_close /\ od_conn.state # "idle"
      BY <1>1, <1>3, <3>1, <3>3 DEF CloseInv
    <3> QED
      BY <1>7, <1>8, <3>4
  <2> QED
    BY <1>1, <1>3, <1>4, <1>7, <1>8, <2>1 DEF CloseInv
<1> QED
  BY <1>9, <1>10, <1>11, <1>12, <1>13 DEF OdInv, TalkInv, HoldInv

---------------------------------------------------------------------------
(* tds_process_pending_closes.                                             *)

\* next is what follows i in the list l, or nothing does
After(l, i, next) ==
  \/ next = NoObj /\ Len(l) >= 1 /\ l[Len(l)] = i
  \/ next \in Objs /\ \E n \in 2..Len(l) : l[n - 1] = i /\ l[n] = next

\* What the scan takes for the next object is the one after that it visits.
LEMMA NextFollows ==
  ASSUME NEW c \in Connection, od_scan.list \in Kinds,
         NEW i \in ToSet(c.list[od_scan.list])
  PROVE  After(c.list[od_scan.list], i, NextOf(c, i))
<1> DEFINE l == c.list[od_scan.list]
           after == {n \in DOMAIN l : n > 1 /\ l[n - 1] = i}
<1>1. l \in Seq(Objs)
  BY DEF Connection
<1>2. PICK p \in 1..Len(l) : l[p] = i
  BY <1>1 DEF ToSet
<1>3. NextOf(c, i) = IF after = {} THEN NoObj ELSE l[CHOOSE n \in after : TRUE]
  BY DEF NextOf
<1>4. i \in ToSet(l)
  OBVIOUS
<1> HIDE DEF l
<1>5. CASE after = {}
  <2>1. p + 1 \notin DOMAIN l
    <3>1. p + 1 > 1 /\ (p + 1) - 1 = p
      BY <1>1, <1>2
    <3> QED
      BY <1>2, <1>5, <3>1
  <2>2. p = Len(l)
    BY <1>1, <1>2, <2>1
  <2> QED
    BY <1>1, <1>2, <1>3, <1>5, <2>2 DEF After, l
<1>6. CASE after # {}
  <2> DEFINE n == CHOOSE n \in after : TRUE
  <2>1. n \in after
    BY <1>6
  <2>2. NextOf(c, i) = l[n]
    BY <1>3, <1>6
  <2> HIDE DEF n
  <2>3. n \in 2..Len(l) /\ l[n - 1] = i /\ l[n] \in Objs
    BY <1>1, <2>1
  <2> QED
    BY <2>2, <2>3 DEF After, l
<1> QED
  BY <1>5, <1>6

\* What precedes the next object was i, or preceded it, unlinked or not.
LEMMA PassedOver ==
  ASSUME NEW l \in Seq(Objs), IsInjective(l), NEW i \in ToSet(l), NEW next,
         After(l, i, next), NEW u \in {l, Unlinked(l, i)}, NEW n \in DOMAIN u,
         next # NoObj => \E m \in DOMAIN u : n < m /\ u[m] = next
  PROVE  u[n] = i \/ \E q, p \in DOMAIN l : l[q] = u[n] /\ q < p /\ l[p] = i
<1>1. PICK p \in 1..Len(l) :
        /\ l[p] = i /\ Unlinked(l, i) \in Seq(Objs)
        /\ Len(Unlinked(l, i)) = Len(l) - 1
        /\ \A m \in 1..(Len(l) - 1) :
             Unlinked(l, i)[m] = IF m < p THEN l[m] ELSE l[m + 1]
  BY UnlinkedList
<1>2. \A a, b \in 1..Len(l) : l[a] = l[b] => a = b
  BY DEF IsInjective
<1>3. Len(l) \in Nat /\ DOMAIN l = 1..Len(l)
  OBVIOUS
<1>4. IF next = NoObj THEN p = Len(l)
      ELSE p + 1 \in 1..Len(l) /\ l[p + 1] = next
  <2>1. CASE next = NoObj
    <3>1. l[Len(l)] = i /\ Len(l) >= 1
      BY <2>1, ObjsNamed DEF After
    <3> QED
      BY <1>1, <1>2, <1>3, <2>1, <3>1
  <2>2. CASE next # NoObj
    <3>1. PICK m \in 2..Len(l) : l[m - 1] = i /\ l[m] = next
      BY <2>2 DEF After
    <3>2. m - 1 = p
      BY <1>1, <1>2, <1>3, <3>1
    <3> QED
      BY <1>1, <1>3, <2>2, <3>1, <3>2
  <2> QED
    BY <2>1, <2>2
<1>5. CASE u = l
  <2>1. n \in 1..Len(l)
    BY <1>3, <1>5
  <2>2. n <= p
    <3>1. CASE next = NoObj
      BY <1>1, <1>4, <2>1, <3>1
    <3>2. CASE next # NoObj
      <4>1. PICK m \in 1..Len(l) : n < m /\ l[m] = next
        BY <1>3, <1>5, <3>2
      <4>2. m = p + 1
        BY <1>1, <1>2, <1>4, <3>2, <4>1
      <4> QED
        BY <1>1, <2>1, <4>1, <4>2
    <3> QED
      BY <3>1, <3>2
  <2> QED
    BY <1>1, <1>3, <1>5, <2>1, <2>2
<1>6. CASE u = Unlinked(l, i)
  <2> DEFINE v == Unlinked(l, i)
  <2>0. v \in Seq(Objs) /\ Len(v) = Len(l) - 1
        /\ \A m \in 1..(Len(l) - 1) : v[m] = IF m < p THEN l[m] ELSE l[m + 1]
    BY <1>1
  <2>1. u = v
    BY <1>6
  <2> HIDE DEF v
  <2>2. n \in 1..(Len(l) - 1) /\ DOMAIN u = 1..(Len(l) - 1)
    BY <1>3, <2>0, <2>1
  <2>3. n < p
    <3>1. CASE next = NoObj
      BY <1>1, <1>3, <1>4, <2>2, <3>1
    <3>2. CASE next # NoObj
      <4>1. PICK m \in 1..(Len(l) - 1) : n < m /\ v[m] = next
        BY <2>1, <2>2, <3>2
      <4>2. CASE m < p
        BY <2>2, <4>1, <4>2, <1>1
      <4>3. CASE ~(m < p)
        <5>1. m + 1 \in 1..Len(l) /\ l[m + 1] = next
          BY <1>3, <2>0, <4>1, <4>3
        <5>2. m + 1 = p + 1
          BY <1>1, <1>2, <1>4, <3>2, <5>1
        <5> QED
          BY <1>1, <2>2, <4>1, <5>2
      <4> QED
        BY <4>2, <4>3
    <3> QED
      BY <3>1, <3>2
  <2>4. u[n] = l[n] /\ n \in DOMAIN l /\ p \in DOMAIN l
    BY <1>1, <1>3, <2>0, <2>1, <2>2, <2>3
  <2> QED
    BY <1>1, <2>3, <2>4
<1> QED
  BY <1>5, <1>6

\* the scan says nothing to the statements
LEMMA ScanTalks ==
  ASSUME OdInv, od_scan.list # "off", UNCHANGED <<od_stmt, od_call>>,
         od_conn' \in Connection, od_scan' \in Visit,
         od_srv' \in [Kinds -> SUBSET Names],
         od_conn'.current = od_conn.current, od_conn'.tds = od_conn.tds,
         od_scan'.list = "off" => od_scan' = NoScan,
         od_conn'.state = "pending" => od_scan'.wait,
         od_scan'.wait => /\ od_conn'.state = "pending" /\ od_conn'.by = "close"
                          /\ od_scan'.list # "off",
         od_conn.state = "dead" => od_conn'.state = "dead"
  PROVE  TalkInv'
<1>1. TalkInv /\ od_call.last # "none"
  BY DEF OdInv, TalkInv, Phases
<1>2. Typed' /\ Planned' /\ Phases' /\ Senders' /\ Owning' /\ Replaced' /\ OneOwner'
  BY <1>1 DEF TalkInv, Typed, Planned, Phases, Senders, Owning, Replaced, OneOwner
<1> QED
  BY <1>2 DEF TalkInv

\* an object is visited
LEMMA VisitedAt ==
  ASSUME OdInv, od_scan.at # NoObj
  PROVE  /\ TalkInv /\ HoldInv /\ CloseInv /\ od_conn \in Connection
         /\ od_scan \in Visit /\ od_scan.list \in Kinds /\ od_scan.at \in Objs
         /\ od_scan.list # "off" /\ od_scan.next \in Names
         /\ od_srv \in [Kinds -> SUBSET Names]
         /\ od_scan.at \in ToSet(od_conn.list[od_scan.list])
         /\ od_conn.list[od_scan.list] \in Seq(Objs)
         /\ IsInjective(od_conn.list[od_scan.list])
         /\ Apart(od_conn)
<1>1. /\ TalkInv /\ HoldInv /\ CloseInv /\ od_conn \in Connection
      /\ od_scan \in Visit /\ Apart(od_conn) /\ od_srv \in [Kinds -> SUBSET Names]
  BY Itself DEF OdInv, TalkInv, Typed
<1>2. /\ od_scan.list # "off" /\ od_scan.at \in ToSet(od_conn.list[od_scan.list])
  BY <1>1 DEF HoldInv, Visiting
<1>3. od_scan.list \in Kinds /\ od_scan.at \in Objs /\ od_scan.next \in Names
  BY <1>1, <1>2 DEF Visit, Names
<1>4. od_conn.list[od_scan.list] \in Seq(Objs) /\ IsInjective(od_conn.list[od_scan.list])
  BY <1>1, <1>3 DEF Connection, HoldInv, Sorted
<1> QED
  BY <1>1, <1>2, <1>3, <1>4

\* The object visited is let go, and the next one is visited.
LEMMA StepsHold ==
  ASSUME OdInv, od_scan.at # NoObj, NEW c \in Connection, NEW next \in Names,
         NEW all \in BOOLEAN, Steps(c, next, all), UNCHANGED <<od_stmt, od_call>>,
         \A j \in Objs : Excess(c, j)
            = (Excess(od_conn, j) + Bit(j = next)) - Bit(j = od_scan.next),
         Moves(od_conn, c), Apart(c), c.cur = od_conn.cur,
         \A k \in Kinds : ToSet(c.list[k]) \subseteq ToSet(od_conn.list[k]),
         next # NoObj => next \in ToSet(c.list[od_scan.list]),
         c.current = od_conn.current, c.tds = od_conn.tds, c.state # "pending",
         od_conn.state = "dead" => c.state = "dead",
         od_srv' \in [Kinds -> SUBSET Names]
  PROVE  /\ TalkInv' /\ HoldInv' /\ ObjectsOnly(c, od_conn') /\ Defers(c, od_conn')
         /\ od_scan'.list = od_scan.list /\ od_scan'.at = next
         /\ od_scan'.all = all
<1> DEFINE i == od_scan.at
<1>1. /\ TalkInv /\ HoldInv /\ CloseInv /\ od_conn \in Connection
      /\ od_scan \in Visit /\ od_scan.list \in Kinds /\ i \in Objs
      /\ od_scan.list # "off" /\ od_scan.next \in Names
  BY VisitedAt
<1>2. od_conn' = Released(c, i)
      /\ od_scan' = [NoScan EXCEPT !.list = od_scan.list, !.at = next, !.all = all]
  BY DEF Steps
<1>3. /\ od_scan' \in Visit /\ od_scan'.list = od_scan.list /\ od_scan'.at = next
      /\ od_scan'.next = NoObj /\ ~od_scan'.wait /\ od_scan'.all = all
  BY <1>1, <1>2, ObjsNamed DEF NoScan, Visit
<1>4. i \in Names
  BY <1>1, ObjsNamed
<1> HIDE DEF i
<1>5. od_conn' \in Connection /\ ObjectsOnly(c, od_conn')
  BY <1>2, <1>4, ReleasedConn
<1>6. Moves(c, od_conn') /\ Defers(c, od_conn') /\ LessExcess(c, od_conn', i)
  BY <1>2, <1>4, ReleasedCounts
<1>7. /\ od_conn'.state = c.state /\ od_conn'.current = c.current
      /\ od_conn'.tds = c.tds /\ od_conn'.cur = c.cur /\ od_conn'.list = c.list
  BY <1>5 DEF ObjectsOnly
<1>8. TalkInv'
  BY <1>1, <1>3, <1>5, <1>7, ScanTalks
<1>9. Counted'
  <2>1. ASSUME NEW j \in Objs
        PROVE  Excess(od_conn', j) = Bit(Owned(j)') + Bit(od_scan'.at = j)
                                       + Bit(od_scan'.next = j)
    <3>1. Excess(od_conn, j) = Bit(Owned(j)) + Bit(i = j) + Bit(od_scan.next = j)
      BY <1>1 DEF HoldInv, Counted, i
    <3>2. Excess(od_conn', j) = Excess(c, j) - Bit(j = i)
      BY <1>6 DEF LessExcess
    <3>3. Bit(Owned(j)') = Bit(Owned(j))
      BY OwnedSame
    <3>4. j # NoObj
      BY ObjsNamed
    <3>5. Excess(c, j) = (Excess(od_conn, j) + Bit(j = next)) - Bit(j = od_scan.next)
      OBVIOUS
    <3> QED
      BY <1>3, <3>1, <3>2, <3>3, <3>4, <3>5 DEF Bit
  <2> QED
    BY <2>1 DEF Counted
<1>10. OneHolder' /\ Sorted'
  <2>1. Moves(od_conn, od_conn')
    BY <1>6, MovesOn
  <2>2. Apart(od_conn')
    BY <1>7 DEF Apart
  <2> QED
    BY <1>1, <1>7, <1>8, <1>9, <2>1, <2>2, SortedOn DEF TalkInv
<1>11. Visiting'
  BY <1>1, <1>3, <1>7 DEF Visiting
<1> QED
  BY <1>3, <1>5, <1>6, <1>8, <1>9, <1>10, <1>11 DEF HoldInv

\* What the scan has passed then is what it visited, or had passed.
LEMMA StepsPass ==
  ASSUME OdInv, od_scan.at # NoObj, NEW c \in Connection, NEW next \in Names,
         After(od_conn.list[od_scan.list], od_scan.at, next),
         ObjectsOnly(c, od_conn'),
         c.list[od_scan.list] \in {od_conn.list[od_scan.list],
                         Unlinked(od_conn.list[od_scan.list], od_scan.at)},
         \A k \in Kinds : ToSet(c.list[k]) \subseteq ToSet(od_conn.list[k]),
         od_scan'.list = od_scan.list, od_scan'.at = next,
         NEW j, Passed(j)'
  PROVE  j = od_scan.at \/ Passed(j)
<1>1. /\ od_scan.list \in Kinds /\ od_scan.at \in Objs
      /\ od_scan.at \in ToSet(od_conn.list[od_scan.list])
      /\ od_conn.list[od_scan.list] \in Seq(Objs)
      /\ IsInjective(od_conn.list[od_scan.list])
  BY VisitedAt
<1>2. od_conn'.list = c.list
  BY DEF ObjectsOnly
<1>3. CASE od_scan.list = "dyn" /\ j \in ToSet(od_conn'.list["cursor"])
  BY <1>2, <1>3, KindNames DEF Passed
<1>4. CASE \E n \in DOMAIN od_conn'.list[od_scan.list] :
             /\ od_conn'.list[od_scan.list][n] = j
             /\ next # NoObj =>
                  \E m \in DOMAIN od_conn'.list[od_scan.list] :
                     n < m /\ od_conn'.list[od_scan.list][m] = next
  <2> DEFINE l == od_conn.list[od_scan.list]
             u == c.list[od_scan.list]
             i == od_scan.at
  <2>1. /\ l \in Seq(Objs) /\ IsInjective(l) /\ i \in ToSet(l)
        /\ After(l, i, next) /\ u \in {l, Unlinked(l, i)}
    BY <1>1
  <2>2. PICK n \in DOMAIN u :
          /\ u[n] = j
          /\ next # NoObj => \E m \in DOMAIN u : n < m /\ u[m] = next
    BY <1>2, <1>4
  <2> HIDE DEF l, u, i
  <2>3. u[n] = i \/ \E q, p \in DOMAIN l : l[q] = u[n] /\ q < p /\ l[p] = i
    BY <2>1, <2>2, PassedOver
  <2>4. j = i \/ \E q \in DOMAIN l : l[q] = j /\ \E p \in DOMAIN l : q < p /\ l[p] = i
    BY <2>2, <2>3
  <2> QED
    BY <2>4 DEF Passed, l, i
<1> QED
  BY <1>3, <1>4 DEF Passed

\* The rest of the invariant, when the scan goes to the next object.
LEMMA StepsClose ==
  ASSUME OdInv, od_scan.at # NoObj, NEW c \in Connection, NEW next \in Names,
         NEW all \in BOOLEAN, ObjectsOnly(c, od_conn'), Defers(c, od_conn'),
         Defers(od_conn, c), od_scan'.list = od_scan.list, od_scan'.at = next,
         od_scan'.all = all, c.state # "pending",
         After(od_conn.list[od_scan.list], od_scan.at, next),
         c.list[od_scan.list] \in {od_conn.list[od_scan.list],
                         Unlinked(od_conn.list[od_scan.list], od_scan.at)},
         \A k \in Kinds : ToSet(c.list[k]) \subseteq ToSet(od_conn.list[k]),
         c.state = "dead" => \A k \in Kinds : od_srv'[k] = {},
         od_srv'["dyn"] \subseteq ToSet(c.list["dyn"]),
         c.op = "unprepare" => c.cur["dyn"] \notin od_srv'["dyn"],
         IF all THEN od_scan.all /\ ~c.obj[od_scan.at].defer ELSE c.state = "dead"
  PROVE  CloseInv'
<1>1. /\ TalkInv /\ HoldInv /\ CloseInv /\ od_conn \in Connection
      /\ od_scan.list \in Kinds /\ od_scan.at \in Objs /\ od_scan.list # "off"
  BY VisitedAt
<1>2. /\ od_conn'.state = c.state /\ od_conn'.op = c.op /\ od_conn'.cur = c.cur
      /\ od_conn'.list = c.list
  BY DEF ObjectsOnly
<1>3. ASSUME all, NEW j \in Objs, Passed(j)' PROVE ~od_conn'.obj[j].defer
  <2>1. j = od_scan.at \/ Passed(j)
    BY <1>3, StepsPass
  <2>2. CASE j = od_scan.at
    BY <1>3, <2>2 DEF Defers
  <2>3. CASE Passed(j)
    BY <1>1, <1>3, <2>3 DEF CloseInv, Defers
  <2> QED
    BY <2>1, <2>2, <2>3
<1>4. od_scan'.list # "off"
  BY <1>1
<1>5. IF od_scan'.all THEN \A j \in Objs : Passed(j)' => ~od_conn'.obj[j].defer
      ELSE od_conn'.state = "dead"
  BY <1>2, <1>3
<1> QED
  BY <1>2, <1>4, <1>5 DEF CloseInv

\* an object is visited by the pending closes
LEMMA PendingCloseSteps ==
  ASSUME OdInv, PendingClose PROVE OdInv'
<1> DEFINE i == od_scan.at
           kind == od_scan.list
           next == NextOf(od_conn, i)
           held == Taken(od_conn, next)
           op == IF kind = "dyn" THEN "unprepare" ELSE "cursorclose"
<1>1. /\ od_scan.list # "off" /\ i # NoObj /\ ~od_scan.wait
      /\ UNCHANGED <<od_stmt, od_call, od_srv>>
      /\ \/ /\ od_conn.obj[i].defer /\ od_conn.state = "idle"
            /\ od_conn' = Requested(held, op, kind, i, "close")
            /\ od_scan' = [od_scan EXCEPT !.next = next, !.wait = TRUE]
         \/ /\ od_conn.obj[i].defer /\ od_conn.state # "idle"
            /\ Steps(held, next, FALSE)
         \/ ~od_conn.obj[i].defer /\ Steps(held, next, od_scan.all)
  <2>1. ASSUME NEW p \in BOOLEAN, NEW q \in BOOLEAN, NEW a, NEW b, NEW d,
               CASE p /\ q -> a [] p /\ ~q -> b [] OTHER -> d,
               a \in BOOLEAN, b \in BOOLEAN, d \in BOOLEAN
        PROVE  (p /\ q /\ a) \/ (p /\ ~q /\ b) \/ (~p /\ d)
    BY <2>1
  <2> QED
    BY Zenon DEF PendingClose, Scanning
<1>2. /\ TalkInv /\ HoldInv /\ CloseInv /\ od_conn \in Connection
      /\ od_scan \in Visit /\ kind \in Kinds /\ i \in Objs
      /\ od_scan.next \in Names /\ od_srv \in [Kinds -> SUBSET Names]
      /\ i \in ToSet(od_conn.list[kind]) /\ od_conn.list[kind] \in Seq(Objs)
      /\ IsInjective(od_conn.list[kind]) /\ Apart(od_conn)
  BY <1>1, VisitedAt
<1>3. od_scan.next = NoObj /\ od_conn.state # "pending"
  BY <1>1, <1>2 DEF HoldInv, Visiting, TalkInv, Phases
<1>4. After(od_conn.list[kind], i, next)
  BY <1>2, NextFollows
<1>5. next \in Names /\ (next # NoObj => next \in ToSet(od_conn.list[kind]))
  <2>1. next = NoObj \/ next \in Objs
    BY <1>4 DEF After
  <2>2. ASSUME next # NoObj PROVE next \in ToSet(od_conn.list[kind])
    <3>1. PICK n \in 2..Len(od_conn.list[kind]) : od_conn.list[kind][n] = next
      BY <1>4, <2>2 DEF After
    <3>2. n \in DOMAIN od_conn.list[kind]
      BY <1>2, <3>1
    <3> QED
      BY <3>1, <3>2 DEF ToSet
  <2> QED
    BY <2>1, <2>2, ObjsNamed
<1> HIDE DEF next, i, kind
<1>6. next # NoObj => next \in Objs /\ od_conn.obj[next].refs >= 1
  <2>1. ASSUME next # NoObj PROVE next \in Objs /\ next \in Listed(od_conn)
    BY <1>2, <1>5, <2>1 DEF Listed, Names, Kinds
  <2> QED
    BY <1>2, <2>1, HeldRefs DEF TalkInv, HoldInv
<1>7. held \in Connection /\ ObjectsOnly(od_conn, held)
  BY <1>2, <1>5, TakenConn
<1>8. Moves(od_conn, held) /\ Defers(od_conn, held) /\ MoreExcess(od_conn, held, next)
  BY <1>2, <1>5, <1>6, TakenCounts
<1>9. /\ held.state = od_conn.state /\ held.cur = od_conn.cur
      /\ held.list = od_conn.list /\ held.op = od_conn.op
      /\ held.current = od_conn.current /\ held.tds = od_conn.tds
  BY <1>7 DEF ObjectsOnly
<1>10. held.obj[i].defer = od_conn.obj[i].defer /\ held.obj[i].refs >= 1
  <2>1. od_conn.obj[i].refs >= 1
    <3>1. i \in Listed(od_conn)
      BY <1>2 DEF Listed, Kinds
    <3> QED
      BY <1>2, <3>1, HeldRefs DEF TalkInv, HoldInv
  <2>2. held.obj = IF next = NoObj THEN od_conn.obj
                   ELSE [od_conn.obj EXCEPT ![next].refs = @ + 1]
    BY <1>2, <1>5, TakenConn
  <2>3. od_conn.obj \in [Objs -> Object]
    BY <1>2 DEF Connection
  <2> HIDE DEF held
  <2>4. ASSUME NEW o \in Object
        PROVE  LET n == [o EXCEPT !.refs = o.refs + 1]
               IN  n.defer = o.defer /\ n.refs = o.refs + 1 /\ o.refs \in Int
    BY DEF Object
  <2>5. CASE next = i
    BY <1>2, <2>1, <2>2, <2>3, <2>4, <2>5, ObjsNamed
  <2>6. CASE next # i
    BY <1>2, <2>1, <2>2, <2>3, <2>6
  <2> QED
    BY <2>5, <2>6
<1> HIDE DEF held
<1>11. ASSUME NEW all \in BOOLEAN, Steps(held, next, all),
              IF all THEN od_scan.all /\ ~od_conn.obj[i].defer
              ELSE od_conn.state = "dead"
       PROVE  OdInv'
  <2>1. \A j \in Objs : Excess(held, j)
           = (Excess(od_conn, j) + Bit(j = next)) - Bit(j = od_scan.next)
    <3>1. ASSUME NEW j \in Objs
          PROVE  Excess(held, j)
                   = (Excess(od_conn, j) + Bit(j = next)) - Bit(j = od_scan.next)
      <4>1. Excess(held, j) = Excess(od_conn, j) + Bit(j = next)
        BY <1>8 DEF MoreExcess
      <4>2. Bit(j = od_scan.next) = 0
        BY <1>3, ObjsNamed DEF Bit
      <4>3. Excess(od_conn, j) \in Int /\ Bit(j = next) \in Int
        BY <1>2, ExcessTyped DEF Bit
      <4> QED
        BY <4>1, <4>2, <4>3
    <3> QED
      BY <3>1
  <2>2. /\ Apart(held)
        /\ \A k \in Kinds : ToSet(held.list[k]) \subseteq ToSet(od_conn.list[k])
    BY <1>2, <1>9 DEF Apart
  <2>3. od_scan.at # NoObj
    BY <1>1 DEF i
  <2>4. next # NoObj => next \in ToSet(held.list[od_scan.list])
    BY <1>5, <1>9 DEF kind
  <2>5. od_srv' \in [Kinds -> SUBSET Names]
    BY <1>1, <1>2
  <2>6. /\ TalkInv' /\ HoldInv' /\ ObjectsOnly(held, od_conn') /\ Defers(held, od_conn')
        /\ od_scan'.list = od_scan.list /\ od_scan'.at = next
        /\ od_scan'.all = all
    BY <1>1, <1>2, <1>3, <1>5, <1>7, <1>8, <1>9, <1>11, <2>1, <2>2, <2>3, <2>4,
       <2>5, StepsHold
  <2>7. CloseInv'
    <3>1. After(od_conn.list[od_scan.list], od_scan.at, next)
      BY <1>4 DEF kind, i
    <3>2. held.list[od_scan.list] \in {od_conn.list[od_scan.list],
                         Unlinked(od_conn.list[od_scan.list], od_scan.at)}
      BY <1>9
    <3>3. held.state = "dead" => \A k \in Kinds : od_srv'[k] = {}
      BY <1>1, <1>2, <1>9 DEF CloseInv
    <3>4. od_srv'["dyn"] \subseteq ToSet(held.list["dyn"])
      BY <1>1, <1>2, <1>9 DEF CloseInv
    <3>5. held.op = "unprepare" => held.cur["dyn"] \notin od_srv'["dyn"]
      BY <1>1, <1>2, <1>3, <1>9 DEF CloseInv
    <3>6. IF all THEN od_scan.all /\ ~held.obj[od_scan.at].defer
          ELSE held.state = "dead"
      BY <1>9, <1>10, <1>11 DEF i
    <3>7. held.state # "pending"
      BY <1>3, <1>9
    <3> QED
      BY <1>5, <1>7, <1>8, <2>2, <2>3, <2>6, <3>1, <3>2, <3>3, <3>4, <3>5, <3>6,
         <3>7, StepsClose
  <2> QED
    BY <2>6, <2>7 DEF OdInv
<1>12. od_scan.all \in BOOLEAN /\ (~od_scan.all => od_conn.state = "dead")
       /\ od_conn.state \in {"idle", "pending", "dead"}
  BY <1>1, <1>2 DEF Visit, CloseInv, Connection
<1>13. CASE /\ od_conn.obj[i].defer /\ od_conn.state = "idle"
            /\ od_conn' = Requested(held, op, kind, i, "close")
            /\ od_scan' = [od_scan EXCEPT !.next = next, !.wait = TRUE]
  <2>1. op \in Ops /\ "close" \in Stmts \cup {"dbc", "close"} /\ i \in Names
    BY <1>2, OpNames, ObjsNamed
  <2>2. Sent(held, od_conn', op, kind, i, "close")
    BY <1>2, <1>7, <1>13, <2>1, RequestedConn
  <2>3. Moves(held, od_conn') /\ Defers(held, od_conn') /\ SameExcess(held, od_conn')
    BY <1>2, <1>7, <1>10, <1>13, <2>1, RequestedCounts
  <2>4. /\ od_conn' \in Connection /\ od_conn'.state = "pending" /\ od_conn'.op = op
        /\ od_conn'.by = "close" /\ od_conn'.list = od_conn.list
        /\ od_conn'.current = od_conn.current /\ od_conn'.tds = od_conn.tds
        /\ od_conn'.cur = [NoObjs EXCEPT ![kind] = i]
    BY <1>9, <2>2 DEF Sent
  <2>5. /\ od_scan' \in Visit /\ od_scan'.list = kind /\ od_scan'.at = i
        /\ od_scan'.next = next /\ od_scan'.wait /\ od_scan'.all = od_scan.all
    BY <1>2, <1>5, <1>13 DEF Visit, kind, i
  <2>6. TalkInv'
    BY <1>1, <1>2, <1>3, <1>13, <2>4, <2>5, ScanTalks DEF kind
  <2>7. Counted'
    <3>1. ASSUME NEW j \in Objs
          PROVE  Excess(od_conn', j) = Bit(Owned(j)') + Bit(od_scan'.at = j)
                                         + Bit(od_scan'.next = j)
      <4>1. Excess(od_conn, j) = Bit(Owned(j)) + Bit(i = j) + Bit(od_scan.next = j)
        BY <1>2 DEF HoldInv, Counted, i
      <4>2. Excess(od_conn', j) = Excess(od_conn, j) + Bit(j = next)
        BY <1>8, <2>3 DEF SameExcess, MoreExcess
      <4>3. Bit(Owned(j)') = Bit(Owned(j))
        BY <1>1, OwnedSame
      <4>4. j # NoObj
        BY ObjsNamed
      <4> QED
        BY <1>3, <2>5, <4>1, <4>2, <4>3, <4>4 DEF Bit
    <3> QED
      BY <3>1 DEF Counted
  <2>8. OneHolder' /\ Sorted'
    <3>1. Moves(od_conn, od_conn')
      BY <1>8, <2>3, MovesOn
    <3>2. Apart(od_conn')
      BY <1>2, <2>4 DEF Apart
    <3>3. \A k \in Kinds : od_conn'.cur[k] \in {NoObj} \cup ToSet(od_conn.list[k])
      BY <1>2, <2>4 DEF NoObjs
    <3> QED
      BY <1>1, <1>2, <2>4, <2>6, <2>7, <3>1, <3>2, <3>3, SortedOn DEF TalkInv
  <2>9. Visiting'
    <3>1. NextOf(od_conn, od_scan.at)' = next
      BY <2>4, <2>5 DEF NextOf, next, kind, i
    <3>2. od_conn'.cur[kind] = i
      BY <1>2, <2>4 DEF NoObjs
    <3> QED
      BY <1>1, <1>2, <2>4, <2>5, <3>1, <3>2 DEF Visiting, kind
  <2>10. CloseInv'
    <3>1. od_scan'.list # "off" /\ od_scan.all
      BY <1>1, <1>12, <1>13, <2>5 DEF kind
    <3>2. Defers(od_conn, od_conn')
      BY <1>8, <2>3, DefersOn
    <3>3. ASSUME NEW j \in Objs, Passed(j)' PROVE Passed(j)
      BY <2>4, <2>5, <3>3 DEF Passed, kind, i
    <3>4. \A j \in Objs : Passed(j)' => ~od_conn'.obj[j].defer
      BY <1>1, <1>2, <3>1, <3>2, <3>3 DEF CloseInv, Defers
    <3>5. od_srv'["dyn"] \subseteq ToSet(od_conn'.list["dyn"])
      BY <1>1, <1>2, <2>4 DEF CloseInv
    <3>6. op \notin {"prepare", "prepexec"}
      OBVIOUS
    <3> QED
      BY <2>4, <2>5, <3>1, <3>4, <3>5, <3>6 DEF CloseInv
  <2> QED
    BY <2>6, <2>7, <2>8, <2>9, <2>10 DEF OdInv, HoldInv
<1>14. CASE /\ od_conn.obj[i].defer /\ od_conn.state # "idle"
            /\ Steps(held, next, FALSE)
  BY <1>3, <1>11, <1>12, <1>14
<1>15. CASE ~od_conn.obj[i].defer /\ Steps(held, next, od_scan.all)
  BY <1>11, <1>12, <1>15
<1> QED
  BY <1>1, <1>13, <1>14, <1>15

\* a deallocated object leaves a list with the others in their order
LEMMA DeallocatedList ==
  ASSUME NEW c \in Connection, NEW kind \in Kinds, NEW i \in Names
  PROVE  Deallocated(c, kind, i).list[kind] \in {c.list[kind], Unlinked(c.list[kind], i)}
<1> DEFINE mid == [c EXCEPT !.list[kind] = Unlinked(@, i), !.obj[i].known = FALSE]
<1>1. mid.list[kind] = Unlinked(c.list[kind], i)
  BY DEF Connection
<1> HIDE DEF mid
<1>2. Released(mid, i).list = mid.list
  BY DEF Released
<1>3. Deallocated(c, kind, i)
        = IF i \notin ToSet(c.list[kind]) THEN c ELSE Released(mid, i)
  BY DEF Deallocated, mid
<1> QED
  BY <1>1, <1>2, <1>3

\* the connection when a pending close was answered
Settled(c, i) == [c EXCEPT !.state = "idle", !.by = "none", !.obj[i].defer = FALSE]

\* A pending close that was answered changes no reference.
LEMMA SettledConn ==
  ASSUME NEW c \in Connection, NEW i \in Objs
  PROVE  LET d == Settled(c, i)
         IN  /\ d \in Connection /\ d.state = "idle" /\ d.by = "none" /\ d.op = c.op
             /\ d.cur = c.cur /\ d.list = c.list /\ d.current = c.current
             /\ d.tds = c.tds /\ ~d.obj[i].defer
             /\ SameExcess(c, d) /\ Moves(c, d) /\ Defers(c, d)
<1> DEFINE f == [c.obj EXCEPT ![i].defer = FALSE]
           d == [c EXCEPT !.state = "idle", !.by = "none", !.obj = f]
<1>1. c.obj \in [Objs -> Object]
  BY DEF Connection
<1>2. ASSUME NEW o \in Object
      PROVE  LET n == [o EXCEPT !.defer = FALSE]
             IN  n \in Object /\ n.refs = o.refs /\ n.kind = o.kind /\ ~n.defer
  BY DEF Object
<1>3. /\ f \in [Objs -> Object] /\ ~f[i].defer
      /\ \A j \in Objs : /\ f[j].refs = c.obj[j].refs /\ f[j].kind = c.obj[j].kind
                         /\ f[j].defer => c.obj[j].defer
  BY <1>1, <1>2
<1>4. Settled(c, i) = d
  BY DEF Settled
<1> HIDE DEF f
<1>5. /\ d \in Connection /\ d.state = "idle" /\ d.by = "none" /\ d.op = c.op
      /\ d.cur = c.cur /\ d.list = c.list /\ d.current = c.current
      /\ d.tds = c.tds /\ d.obj = f
  BY <1>3 DEF Connection
<1> HIDE DEF d
<1>6. SameExcess(c, d) /\ Moves(c, d) /\ Defers(c, d)
  BY <1>3, <1>5 DEF SameExcess, Excess, Moves, Defers, Listed
<1> QED
  BY <1>3, <1>4, <1>5, <1>6

\* the scan waits for the answer to its request
LEMMA WaitingFor ==
  ASSUME OdInv, od_scan.wait
  PROVE  /\ od_scan.at # NoObj /\ od_conn.state = "pending" /\ od_scan.all
         /\ od_conn.cur[od_scan.list] = od_scan.at
         /\ od_conn.op = IF od_scan.list = "dyn" THEN "unprepare" ELSE "cursorclose"
         /\ After(od_conn.list[od_scan.list], od_scan.at, od_scan.next)
         /\ od_scan.next # NoObj =>
              /\ od_scan.next \in ToSet(od_conn.list[od_scan.list])
              /\ od_scan.next # od_scan.at
<1>1. /\ od_scan.at # NoObj /\ od_conn.state = "pending"
      /\ od_scan.next = NextOf(od_conn, od_scan.at)
      /\ od_conn.cur[od_scan.list] = od_scan.at
      /\ od_conn.op = IF od_scan.list = "dyn" THEN "unprepare" ELSE "cursorclose"
  BY DEF OdInv, HoldInv, Visiting, TalkInv, Phases
<1>2. /\ CloseInv /\ od_scan.list # "off" /\ od_scan.list \in Kinds
      /\ od_conn \in Connection
      /\ od_scan.at \in ToSet(od_conn.list[od_scan.list])
      /\ od_conn.list[od_scan.list] \in Seq(Objs)
      /\ IsInjective(od_conn.list[od_scan.list])
  BY <1>1, VisitedAt
<1>3. od_scan.all
  BY <1>1, <1>2 DEF CloseInv
<1>4. After(od_conn.list[od_scan.list], od_scan.at, od_scan.next)
  BY <1>1, <1>2, NextFollows
<1>5. ASSUME od_scan.next # NoObj
      PROVE  /\ od_scan.next \in ToSet(od_conn.list[od_scan.list])
             /\ od_scan.next # od_scan.at
  <2> DEFINE l == od_conn.list[od_scan.list]
  <2>1. PICK n \in 2..Len(l) : l[n - 1] = od_scan.at /\ l[n] = od_scan.next
    BY <1>4, <1>5 DEF After
  <2>2. l \in Seq(Objs) /\ \A a, b \in DOMAIN l : l[a] = l[b] => a = b
    BY <1>2 DEF IsInjective
  <2> HIDE DEF l
  <2>3. n \in DOMAIN l /\ n - 1 \in DOMAIN l /\ n # n - 1
    BY <2>1, <2>2
  <2> QED
    BY <2>1, <2>2, <2>3 DEF ToSet, l
<1> QED
  BY <1>1, <1>3, <1>4, <1>5

\* a pending close is answered
LEMMA PendingClosedSteps ==
  ASSUME OdInv, PendingClosed PROVE OdInv'
<1> DEFINE i == od_scan.at
           kind == od_scan.list
           next == od_scan.next
           idle == Settled(od_conn, i)
           c == Deallocated(idle, kind, i)
<1>1. /\ od_scan.wait /\ Steps(c, next, od_scan.all)
      /\ od_srv' = [od_srv EXCEPT ![kind] = @ \ {i}]
      /\ UNCHANGED <<od_stmt, od_call>>
  BY Zenon DEF PendingClosed, Settled
<1>2. /\ i # NoObj /\ od_conn.state = "pending" /\ od_scan.all
      /\ od_conn.cur[kind] = i
      /\ od_conn.op = IF kind = "dyn" THEN "unprepare" ELSE "cursorclose"
      /\ After(od_conn.list[kind], i, next)
      /\ next # NoObj => next \in ToSet(od_conn.list[kind]) /\ next # i
  BY <1>1, WaitingFor
<1>3. /\ TalkInv /\ HoldInv /\ CloseInv /\ od_conn \in Connection
      /\ od_scan \in Visit /\ kind \in Kinds /\ i \in Objs
      /\ next \in Names /\ od_srv \in [Kinds -> SUBSET Names]
      /\ Apart(od_conn) /\ i \in Names
  BY <1>2, VisitedAt, ObjsNamed
<1>4. /\ idle \in Connection /\ idle.state = "idle" /\ idle.op = od_conn.op
      /\ idle.cur = od_conn.cur /\ idle.list = od_conn.list
      /\ idle.current = od_conn.current /\ idle.tds = od_conn.tds
      /\ ~idle.obj[i].defer /\ SameExcess(od_conn, idle) /\ Moves(od_conn, idle)
      /\ Defers(od_conn, idle)
  BY <1>3, SettledConn
<1> HIDE DEF idle, i, kind, next
<1>5. Apart(idle)
  BY <1>3, <1>4 DEF Apart
<1>6. c \in Connection /\ Undisturbed(idle, c)
  BY <1>3, <1>4, DeallocatedConn
<1>7. /\ SameExcess(idle, c) /\ Moves(idle, c) /\ Defers(idle, c) /\ Apart(c)
      /\ ToSet(c.list[kind]) = ToSet(idle.list[kind]) \ {i}
      /\ \A k \in Kinds \ {kind} : c.list[k] = idle.list[k]
  BY <1>3, <1>4, <1>5, DeallocatedCounts
<1>8. c.list[kind] \in {od_conn.list[kind], Unlinked(od_conn.list[kind], i)}
  BY <1>3, <1>4, DeallocatedList
<1> HIDE DEF c
<1>9. /\ c.state = "idle" /\ c.op = od_conn.op /\ c.cur = od_conn.cur
      /\ c.current = od_conn.current /\ c.tds = od_conn.tds
  BY <1>4, <1>6 DEF Undisturbed
<1>10. /\ \A k \in Kinds : ToSet(c.list[k]) \subseteq ToSet(od_conn.list[k])
       /\ next # NoObj => next \in ToSet(c.list[kind])
  BY <1>2, <1>4, <1>7
<1>11. Moves(od_conn, c) /\ Defers(od_conn, c) /\ ~c.obj[i].defer
  BY <1>3, <1>4, <1>7, MovesOn, DefersOn DEF Defers
<1>12. \A j \in Objs : Excess(c, j)
          = (Excess(od_conn, j) + Bit(j = next)) - Bit(j = od_scan.next)
  <2>1. ASSUME NEW j \in Objs
        PROVE  Excess(c, j)
                 = (Excess(od_conn, j) + Bit(j = next)) - Bit(j = od_scan.next)
    <3>1. Excess(c, j) = Excess(od_conn, j)
      BY <1>4, <1>7 DEF SameExcess
    <3>2. Excess(od_conn, j) \in Int
      BY <1>3, ExcessTyped
    <3> QED
      BY <3>1, <3>2 DEF Bit, next
  <2> QED
    BY <2>1
<1>13. od_srv' \in [Kinds -> SUBSET Names]
       /\ od_srv'[kind] = od_srv[kind] \ {i}
       /\ \A k \in Kinds \ {kind} : od_srv'[k] = od_srv[k]
  BY <1>1, <1>3
<1>14. /\ od_scan.at # NoObj
       /\ next # NoObj => next \in ToSet(c.list[od_scan.list])
  BY <1>2, <1>10 DEF i, kind
<1>14a. od_scan.all = TRUE
  BY <1>2, <1>3 DEF Visit
<1>14b. Steps(c, next, TRUE)
  BY <1>1, <1>14a
<1>15. /\ TalkInv' /\ HoldInv' /\ ObjectsOnly(c, od_conn') /\ Defers(c, od_conn')
       /\ od_scan'.list = od_scan.list /\ od_scan'.at = next
       /\ od_scan'.all = TRUE
  BY <1>14b, <1>1, <1>2, <1>3, <1>6, <1>7, <1>9, <1>10, <1>11, <1>12, <1>13, <1>14, StepsHold
<1>16. CloseInv'
  <2>1. od_srv'["dyn"] \subseteq ToSet(c.list["dyn"])
    BY <1>3, <1>4, <1>7, <1>13, KindNames DEF CloseInv
  <2>2. c.op = "unprepare" => c.cur["dyn"] \notin od_srv'["dyn"]
    BY <1>2, <1>9, <1>13, KindNames
  <2>3. /\ After(od_conn.list[od_scan.list], od_scan.at, next)
        /\ c.list[od_scan.list] \in {od_conn.list[od_scan.list],
                         Unlinked(od_conn.list[od_scan.list], od_scan.at)}
        /\ ~c.obj[od_scan.at].defer
    BY <1>2, <1>8, <1>11 DEF kind, i
  <2> QED
    BY <1>2, <1>3, <1>6, <1>9, <1>10, <1>11, <1>14, <1>15, <2>1, <2>2, <2>3, StepsClose
<1> QED
  BY <1>15, <1>16 DEF OdInv

\* the connection is lost while a pending close is made
LEMMA PendingDiesSteps ==
  ASSUME OdInv, PendingDies PROVE OdInv'
<1> DEFINE c == Dead(od_conn)
           next == od_scan.next
<1>1. /\ od_scan.wait /\ Steps(c, next, FALSE) /\ od_srv' = [k \in Kinds |-> {}]
      /\ UNCHANGED <<od_stmt, od_call>>
  BY Zenon DEF PendingDies
<1>2. /\ od_scan.at # NoObj
      /\ After(od_conn.list[od_scan.list], od_scan.at, next)
      /\ next # NoObj => next \in ToSet(od_conn.list[od_scan.list])
  BY <1>1, WaitingFor
<1>3. /\ od_conn \in Connection /\ next \in Names /\ Apart(od_conn)
  BY <1>2, VisitedAt
<1>4. /\ c \in Connection /\ c.state = "dead" /\ c.cur = od_conn.cur
      /\ c.current = od_conn.current /\ c.tds = od_conn.tds /\ c.list = od_conn.list
      /\ c.obj = od_conn.obj /\ SameExcess(od_conn, c) /\ Moves(od_conn, c)
  BY <1>3, DeadConn DEF Alike
<1> HIDE DEF c
<1>5. Apart(c) /\ Defers(od_conn, c)
  BY <1>3, <1>4 DEF Apart, Defers
<1>6. \A j \in Objs : Excess(c, j)
          = (Excess(od_conn, j) + Bit(j = next)) - Bit(j = od_scan.next)
  BY <1>3, <1>4, ExcessTyped DEF SameExcess, Bit
<1> HIDE DEF next
<1>7. od_srv' \in [Kinds -> SUBSET Names] /\ \A k \in Kinds : od_srv'[k] = {}
  BY <1>1
<1>8. /\ TalkInv' /\ HoldInv' /\ ObjectsOnly(c, od_conn') /\ Defers(c, od_conn')
      /\ od_scan'.list = od_scan.list /\ od_scan'.at = next /\ od_scan'.all = FALSE
  BY <1>1, <1>2, <1>3, <1>4, <1>5, <1>6, <1>7, StepsHold
<1>9. CloseInv'
  BY <1>2, <1>3, <1>4, <1>5, <1>7, <1>8, KindNames, StepsClose
<1> QED
  BY <1>8, <1>9 DEF OdInv

\* a list was scanned to its end
LEMMA ListOverSteps ==
  ASSUME OdInv, ListOver PROVE OdInv'
<1>1. /\ od_scan.list # "off" /\ od_scan.at = NoObj
      /\ UNCHANGED <<od_stmt, od_call, od_srv>>
  BY DEF ListOver
<1>2. /\ TalkInv /\ HoldInv /\ CloseInv /\ od_conn \in Connection /\ Apart(od_conn)
      /\ od_scan \in Visit /\ od_srv \in [Kinds -> SUBSET Names]
  BY Itself DEF OdInv, TalkInv, Typed
<1>3. /\ od_scan.list \in {"cursor", "dyn"} /\ od_scan.all \in BOOLEAN
      /\ ~od_scan.wait /\ od_scan.next = NoObj /\ od_conn.state # "pending"
  BY <1>1, <1>2 DEF Visit, Kinds, HoldInv, Visiting, TalkInv, Phases
<1>4. \A j \in ToSet(od_conn.list[od_scan.list]) : Passed(j)
  BY <1>1 DEF Passed, ToSet
<1>5. \A j \in Objs : Excess(od_conn, j) = Bit(Owned(j)) /\ Excess(od_conn, j) \in Int
  <2>1. ASSUME NEW j \in Objs
        PROVE  Excess(od_conn, j) = Bit(Owned(j)) /\ Excess(od_conn, j) \in Int
    <3>1. Excess(od_conn, j)
            = Bit(Owned(j)) + Bit(od_scan.at = j) + Bit(od_scan.next = j)
      BY <1>2 DEF HoldInv, Counted
    <3>2. Bit(od_scan.at = j) = 0 /\ Bit(od_scan.next = j) = 0
      BY <1>1, <1>3, ObjsNamed DEF Bit
    <3>3. Bit(Owned(j)) \in Int
      BY DEF Bit
    <3> QED
      BY <3>1, <3>2, <3>3
  <2> QED
    BY <2>1
<1>6. CASE od_scan.list = "cursor"
  <2> DEFINE n == First(od_conn, "dyn")
  <2>1. /\ od_conn' = Taken(od_conn, n)
        /\ od_scan' = [NoScan EXCEPT !.list = "dyn", !.at = n, !.all = od_scan.all]
    BY <1>6 DEF ListOver, Visits
  <2>2. /\ n \in Names
        /\ n = NoObj => DOMAIN od_conn.list["dyn"] = {}
        /\ n # NoObj => /\ n \in ToSet(od_conn.list["dyn"])
                        /\ 1 \in DOMAIN od_conn.list["dyn"]
                        /\ od_conn.list["dyn"][1] = n
    BY <1>2, KindNames, FirstOf
  <2> HIDE DEF n
  <2>3. n # NoObj => od_conn.obj[n].refs >= 1
    <3>1. ASSUME n # NoObj PROVE n \in Objs /\ n \in Listed(od_conn)
      BY <2>2, <3>1 DEF Listed, Names
    <3> QED
      BY <1>2, <3>1, HeldRefs DEF TalkInv, HoldInv
  <2>4. od_conn' \in Connection /\ ObjectsOnly(od_conn, od_conn')
    BY <1>2, <2>1, <2>2, TakenConn
  <2>5. /\ Moves(od_conn, od_conn') /\ Defers(od_conn, od_conn')
        /\ MoreExcess(od_conn, od_conn', n)
    BY <1>2, <2>1, <2>2, <2>3, TakenCounts
  <2>6. /\ od_conn'.state = od_conn.state /\ od_conn'.op = od_conn.op
        /\ od_conn'.cur = od_conn.cur /\ od_conn'.list = od_conn.list
        /\ od_conn'.current = od_conn.current /\ od_conn'.tds = od_conn.tds
    BY <2>4 DEF ObjectsOnly
  <2>7. /\ od_scan' \in Visit /\ od_scan'.list = "dyn" /\ od_scan'.at = n
        /\ od_scan'.next = NoObj /\ ~od_scan'.wait /\ od_scan'.all = od_scan.all
    BY <1>3, <2>1, <2>2, KindNames, ObjsNamed DEF NoScan, Visit
  <2>8. TalkInv'
    BY <1>1, <1>2, <1>3, <2>4, <2>6, <2>7, ScanTalks
  <2>9. Counted'
    <3>1. ASSUME NEW j \in Objs
          PROVE  Excess(od_conn', j) = Bit(Owned(j)') + Bit(od_scan'.at = j)
                                         + Bit(od_scan'.next = j)
      <4>1. Excess(od_conn', j) = Excess(od_conn, j) + Bit(j = n)
        BY <2>5 DEF MoreExcess
      <4>2. Bit(Owned(j)') = Bit(Owned(j))
        BY <1>1, OwnedSame
      <4>3. j # NoObj
        BY ObjsNamed
      <4> QED
        BY <1>5, <2>7, <4>1, <4>2, <4>3 DEF Bit
    <3> QED
      BY <3>1 DEF Counted
  <2>10. OneHolder' /\ Sorted'
    <3>1. Apart(od_conn')
      BY <1>2, <2>6 DEF Apart
    <3> QED
      BY <1>1, <1>2, <2>5, <2>6, <2>8, <2>9, <3>1, SortedOn DEF TalkInv
  <2>11. Visiting'
    BY <2>2, <2>6, <2>7 DEF Visiting
  <2>12. CloseInv'
    <3>1. ASSUME NEW j \in Objs, Passed(j)' PROVE Passed(j)
      <4>1. CASE j \in ToSet(od_conn'.list["cursor"])
        BY <1>4, <1>6, <2>6, <4>1
      <4>2. CASE \E m \in DOMAIN od_conn'.list["dyn"] :
                   /\ od_conn'.list["dyn"][m] = j
                   /\ n # NoObj => \E p \in DOMAIN od_conn'.list["dyn"] :
                                     m < p /\ od_conn'.list["dyn"][p] = n
        <5> DEFINE l == od_conn.list["dyn"]
        <5>1. l \in Seq(Objs) /\ \A a, b \in DOMAIN l : l[a] = l[b] => a = b
          BY <1>2, KindNames DEF Connection, HoldInv, Sorted, IsInjective
        <5>2. PICK m \in DOMAIN l :
                n # NoObj => \E p \in DOMAIN l : m < p /\ l[p] = n
          BY <2>6, <4>2
        <5>3. /\ n = NoObj => DOMAIN l = {}
              /\ n # NoObj => 1 \in DOMAIN l /\ l[1] = n
          BY <2>2
        <5> HIDE DEF l
        <5>4. PICK p \in DOMAIN l : m < p /\ l[p] = n
          BY <5>2, <5>3
        <5>5. p = 1 /\ m \in 1..Len(l)
          BY <5>1, <5>2, <5>3, <5>4
        <5> QED
          BY <5>1, <5>4, <5>5
      <4> QED
        BY <2>7, <3>1, <4>1, <4>2 DEF Passed
    <3>2. IF od_scan'.all THEN \A j \in Objs : Passed(j)' => ~od_conn'.obj[j].defer
          ELSE od_conn'.state = "dead"
      BY <1>1, <1>2, <2>5, <2>6, <2>7, <3>1 DEF CloseInv, Defers
    <3> QED
      BY <1>1, <1>2, <1>3, <2>6, <2>7, <3>2 DEF CloseInv
  <2> QED
    BY <2>8, <2>9, <2>10, <2>11, <2>12 DEF OdInv, HoldInv
<1>7. CASE od_scan.list = "dyn"
  <2>1. /\ od_conn' = [od_conn EXCEPT !.pending_close = ~od_scan.all]
        /\ od_scan' = NoScan
    BY <1>7 DEF ListOver
  <2>2. /\ od_conn' \in Connection /\ od_conn'.pending_close = ~od_scan.all
        /\ od_conn'.state = od_conn.state /\ od_conn'.op = od_conn.op
        /\ od_conn'.cur = od_conn.cur /\ od_conn'.list = od_conn.list
        /\ od_conn'.current = od_conn.current /\ od_conn'.tds = od_conn.tds
        /\ od_conn'.obj = od_conn.obj
    BY <1>2, <1>3, <2>1 DEF Connection
  <2>3. /\ od_scan' \in Visit /\ od_scan'.list = "off" /\ od_scan'.at = NoObj
        /\ od_scan'.next = NoObj /\ ~od_scan'.wait
    BY <2>1, ObjsNamed DEF NoScan, Visit
  <2>4. TalkInv'
    BY <1>1, <1>2, <1>3, <2>1, <2>2, <2>3, ScanTalks
  <2>5. SameExcess(od_conn, od_conn') /\ Moves(od_conn, od_conn')
    BY <2>2 DEF SameExcess, Excess, Moves, Listed
  <2>6. Counted'
    <3>1. ASSUME NEW j \in Objs
          PROVE  Excess(od_conn', j) = Bit(Owned(j)') + Bit(od_scan'.at = j)
                                         + Bit(od_scan'.next = j)
      <4>1. Excess(od_conn', j) = Excess(od_conn, j)
        BY <2>5 DEF SameExcess
      <4>2. Bit(Owned(j)') = Bit(Owned(j))
        BY <1>1, OwnedSame
      <4>3. j # NoObj
        BY ObjsNamed
      <4> QED
        BY <1>5, <2>3, <4>1, <4>2, <4>3 DEF Bit
    <3> QED
      BY <3>1 DEF Counted
  <2>7. OneHolder' /\ Sorted'
    <3>1. Apart(od_conn')
      BY <1>2, <2>2 DEF Apart
    <3> QED
      BY <1>1, <1>2, <2>2, <2>4, <2>5, <2>6, <3>1, SortedOn DEF TalkInv
  <2>8. Visiting'
    BY <2>3 DEF Visiting
  <2>9. CloseInv'
    <3>1. ASSUME NEW j \in Listed(od_conn'), od_conn'.obj[j].defer
          PROVE  od_conn'.pending_close /\ od_conn'.state # "idle"
      <4>1. j \in Listed(od_conn) /\ j \in Objs
        BY <1>2, <2>2, <3>1, ListedObjs DEF Listed
      <4>2. Passed(j)
        BY <1>4, <1>7, <4>1 DEF Listed, Passed
      <4>3. ~od_scan.all /\ od_conn.state = "dead"
        BY <1>1, <1>2, <2>2, <3>1, <4>1, <4>2 DEF CloseInv
      <4> QED
        BY <2>2, <4>3
    <3> QED
      BY <1>1, <1>2, <1>3, <2>2, <2>3, <3>1 DEF CloseInv
  <2> QED
    BY <2>4, <2>6, <2>7, <2>8, <2>9 DEF OdInv, HoldInv
<1> QED
  BY <1>3, <1>6, <1>7

---------------------------------------------------------------------------
(* What is freed was emptied.                                              *)

\* plans that free nothing
LEMMA PlainPlans ==
  /\ <<>> \notin Freeing
  /\ \A a \in {"set_query", "prepexec", "free_cursor", "closed", "execute", "opened",
               "prepared", "fetched", "results", "unlock", "stay", "commit"} :
       <<a>> \notin Freeing
  /\ <<"free_dynamic", "set_query">> \notin Freeing
  /\ <<"free_dynamic", "prepexec">> \notin Freeing
  /\ <<"free_cursor", "free_dynamic", "drop">> \notin Freeing
<1>1. /\ <<>> # <<"drop">> /\ <<>> # <<"free_dynamic", "drop">>
      /\ <<>> # <<"unprepared", "drop">>
  OBVIOUS
<1>2. ASSUME NEW a, a # "drop"
      PROVE  /\ <<a>> # <<"drop">> /\ <<a>> # <<"free_dynamic", "drop">>
             /\ <<a>> # <<"unprepared", "drop">>
  BY <1>2
<1>3. ASSUME NEW b, b # "drop"
      PROVE  /\ <<"free_dynamic", b>> # <<"drop">>
             /\ <<"free_dynamic", b>> # <<"free_dynamic", "drop">>
             /\ <<"free_dynamic", b>> # <<"unprepared", "drop">>
  BY <1>3
<1>4. /\ <<"free_cursor", "free_dynamic", "drop">> # <<"drop">>
      /\ <<"free_cursor", "free_dynamic", "drop">> # <<"free_dynamic", "drop">>
      /\ <<"free_cursor", "free_dynamic", "drop">> # <<"unprepared", "drop">>
  OBVIOUS
<1>5. "set_query" # "drop" /\ "prepexec" # "drop"
  OBVIOUS
<1> QED
  BY <1>1, <1>2, <1>3, <1>4, <1>5 DEF Freeing

\* When a statement is to be freed, its cursor is let go first.
LEMMA FreeingRest ==
  ASSUME NEW p \in Plans
  PROVE  /\ Tail(p) \in Freeing =>
              \/ Head(p) \in {"free_dynamic", "unprepared"} /\ p \in Freeing
              \/ Head(p) \in {"free_cursor", "closed"} /\ Tail(p) # <<"drop">>
         /\ Head(p) = "free_dynamic" =>
              /\ <<"unprepared">> \o Tail(p) # <<"drop">>
              /\ <<"unprepared">> \o Tail(p) \in Freeing => p \in Freeing
         /\ Head(p) = "free_cursor" => <<"closed">> \o Tail(p) \notin Freeing
<1>1. CASE \E a \in {"set_query", "prepexec", "free_cursor", "closed", "drop",
                     "execute", "opened", "prepared", "fetched", "results",
                     "unlock", "stay"} : p = <<a>>
  <2>1. PICK a \in {"set_query", "prepexec", "free_cursor", "closed", "drop",
                    "execute", "opened", "prepared", "fetched", "results",
                    "unlock", "stay"} : p = <<a>>
    BY <1>1
  <2>2. Tail(p) = <<>> /\ Head(p) = a
    BY <2>1
  <2>3. <<"closed">> \o <<>> = <<"closed">> /\ a # "free_dynamic"
    OBVIOUS
  <2> QED
    BY <2>2, <2>3, PlainPlans
<1>2. CASE \E a \in {"free_dynamic", "unprepared"},
              b \in {"set_query", "prepexec", "drop"} : p = <<a, b>>
  <2>1. PICK a \in {"free_dynamic", "unprepared"},
             b \in {"set_query", "prepexec", "drop"} : p = <<a, b>>
    BY <1>2
  <2>2. Tail(p) = <<b>> /\ Head(p) = a
    BY <2>1
  <2>3. <<"unprepared">> \o <<b>> = <<"unprepared", b>>
    BY TwoStages
  <2>4. b = "drop" => p \in Freeing
    BY <2>1 DEF Freeing
  <2>5. <<b>> \in Freeing => b = "drop"
    BY PlainPlans
  <2>6. <<"unprepared", b>> # <<"drop">>
        /\ (<<"unprepared", b>> \in Freeing => b = "drop")
    <3>1. <<"unprepared", b>> # <<"drop">> /\ <<"unprepared", b>> # <<"free_dynamic", "drop">>
      OBVIOUS
    <3>2. <<"unprepared", b>> = <<"unprepared", "drop">> => b = "drop"
      OBVIOUS
    <3> QED
      BY <3>1, <3>2 DEF Freeing
  <2>7. a # "free_cursor"
    OBVIOUS
  <2> QED
    BY <2>2, <2>3, <2>4, <2>5, <2>6, <2>7
<1>3. CASE \E a \in {"free_cursor", "closed"} : p = <<a, "free_dynamic", "drop">>
  <2>1. PICK a \in {"free_cursor", "closed"} : p = <<a, "free_dynamic", "drop">>
    BY <1>3
  <2>2. /\ Tail(p) = <<"free_dynamic", "drop">> /\ Head(p) = a
        /\ <<"free_dynamic", "drop">> # <<"drop">>
    BY <2>1
  <2>3. <<"closed">> \o <<"free_dynamic", "drop">>
          = <<"closed", "free_dynamic", "drop">>
    BY ThreeStages
  <2>4. <<"closed", "free_dynamic", "drop">> \notin Freeing
    <3>1. /\ <<"closed", "free_dynamic", "drop">> # <<"drop">>
          /\ <<"closed", "free_dynamic", "drop">> # <<"free_dynamic", "drop">>
          /\ <<"closed", "free_dynamic", "drop">> # <<"unprepared", "drop">>
      OBVIOUS
    <3> QED
      BY <3>1 DEF Freeing
  <2>5. a # "free_dynamic"
    OBVIOUS
  <2> QED
    BY <2>2, <2>3, <2>4, <2>5
<1> QED
  BY <1>1, <1>2, <1>3 DEF Plans

\* the plan of a call that goes on
LEMMA PlanEntered ==
  ASSUME NEW s, NEW p, Enter(s, p)
  PROVE  od_call'.stmt = s /\ od_call'.todo = p
BY DEF Enter, NoCall

\* the plan of a call that reads
LEMMA PlanRead ==
  ASSUME NEW s, NEW how, NEW p, Reads(s, how, p)
  PROVE  od_call'.stmt = s /\ od_call'.todo = p
BY DEF Reads, NoCall

\* the plan of a call that returned
LEMMA PlanOver == ASSUME Return PROVE od_call'.todo = <<>>
BY DEF Return, NoCall

\* A step of a call of s.
LEMMA EmptiedOn ==
  ASSUME Emptied, NEW s \in Stmts, od_stmt[s].live,
         \A t \in Stmts : od_stmt'[t].live = od_stmt[t].live,
         \A t \in Stmts \ {s}, l \in Kinds : od_stmt'[t].has[l] = od_stmt[t].has[l],
         od_call'.todo \in Freeing =>
           /\ od_call'.stmt = s /\ od_stmt'[s].has["cursor"] = NoObj
           /\ od_call'.todo = <<"drop">> => od_stmt'[s].has["dyn"] = NoObj
  PROVE  Emptied'
<1>1. <<"drop">> \in Freeing
  BY DEF Freeing
<1> QED
  BY <1>1 DEF Emptied

\* A step of which the statements keep what they hold.
LEMMA EmptiedStill ==
  ASSUME OdInv, Emptied,
         \A t \in Stmts : od_stmt'[t].live = od_stmt[t].live, SameHas,
         \/ od_call'.todo \notin Freeing
         \/ od_call'.stmt = od_call.stmt /\ od_call'.todo = od_call.todo
  PROVE  Emptied'
<1>1. <<"drop">> \in Freeing
  BY DEF Freeing
<1>2. od_call.todo \in Freeing => od_call.stmt \in Stmts
  <2>1. <<>> \notin Freeing /\ \A p \in EndPlans : p \notin Freeing
    BY PlainPlans DEF EndPlans
  <2> QED
    BY <2>1, NoCallTyped DEF OdInv, TalkInv, Planned
<1>3. \A t \in Stmts : ~od_stmt'[t].live =>
         \A k \in Kinds : od_stmt'[t].has[k] = NoObj
  BY DEF Emptied, SameHas
<1> QED
  BY <1>1, <1>2, <1>3, KindNames DEF Emptied, SameHas

\* The statements hold what they held, and the call is none of freeing.
LEMMA EmptiedCalls ==
  ASSUME OdInv, Emptied, NEW s \in Stmts,
         \/ SQLBindParameter(s) \/ SQLPrepare(s) \/ SQLExecute(s) \/ SQLExecDirect(s)
         \/ FetchResult(s) \/ FetchCursor(s) \/ SQLMoreResults(s) \/ SQLCancel(s)
         \/ SQLFreeStmtClose(s) \/ SQLFreeStmtDrop(s)
  PROVE  Emptied'
<1>1. od_stmt \in [Stmts -> Statement] /\ Calling(s)
  BY Zenon DEF OdInv, TalkInv, Typed, SQLBindParameter, SQLPrepare, SQLExecute,
     SQLExecDirect, FetchResult, FetchCursor, SQLMoreResults, SQLCancel,
     SQLFreeStmtClose, SQLFreeStmtDrop
<1>2. od_call.todo = <<>>
  BY <1>1, NoCallTyped DEF Calling
<1>3. /\ \A t \in Stmts : od_stmt'[t].live = od_stmt[t].live
      /\ SameHas
  <2>1. CASE UNCHANGED od_stmt
    BY <2>1 DEF SameHas
  <2>2. CASE SQLBindParameter(s)
    BY <1>1, <2>2 DEF SQLBindParameter, SameHas, Statement
  <2>3. CASE SQLExecDirect(s)
    BY <1>1, <2>3 DEF SQLExecDirect, SameHas, Statement
  <2> QED
    BY Zenon, <2>1, <2>2, <2>3 DEF SQLPrepare, SQLExecute, FetchResult, FetchCursor,
       SQLMoreResults, SQLCancel, SQLFreeStmtClose, SQLFreeStmtDrop
<1>4. \/ UNCHANGED od_call
      \/ \E p \in {<<"free_dynamic", "set_query">>, <<"execute">>, <<"stay">>,
                   <<"fetched">>, <<"results">>, <<"unlock">>, <<"free_cursor">>,
                   <<"free_cursor", "free_dynamic", "drop">>} :
           Enter(s, p) \/ \E how \in {"some", "cancel"} : Reads(s, how, p)
  <2>1. CASE SQLBindParameter(s)
    BY <2>1 DEF SQLBindParameter
  <2>2. CASE SQLPrepare(s)
    BY <2>2 DEF SQLPrepare
  <2>3. CASE SQLExecute(s) \/ SQLExecDirect(s)
    BY <2>3 DEF SQLExecute, SQLExecDirect
  <2>4. CASE FetchResult(s) \/ FetchCursor(s)
    BY <2>4 DEF FetchResult, FetchCursor
  <2>5. CASE SQLMoreResults(s) \/ SQLCancel(s)
    BY <2>5 DEF SQLMoreResults, SQLCancel
  <2>6. CASE SQLFreeStmtClose(s) \/ SQLFreeStmtDrop(s)
    BY <2>6 DEF SQLFreeStmtClose, SQLFreeStmtDrop, FreeStages
  <2> QED
    BY <2>1, <2>2, <2>3, <2>4, <2>5, <2>6
<1>5. od_call'.todo \notin Freeing
  <2>1. CASE UNCHANGED od_call
    BY <1>2, <2>1, PlainPlans
  <2>2. CASE \E p \in {<<"free_dynamic", "set_query">>, <<"execute">>, <<"stay">>,
                   <<"fetched">>, <<"results">>, <<"unlock">>, <<"free_cursor">>,
                   <<"free_cursor", "free_dynamic", "drop">>} :
               Enter(s, p) \/ \E how \in {"some", "cancel"} : Reads(s, how, p)
    <3>1. PICK p \in {<<"free_dynamic", "set_query">>, <<"execute">>, <<"stay">>,
                   <<"fetched">>, <<"results">>, <<"unlock">>, <<"free_cursor">>,
                   <<"free_cursor", "free_dynamic", "drop">>} :
               Enter(s, p) \/ \E how \in {"some", "cancel"} : Reads(s, how, p)
      BY <2>2
    <3>2. od_call'.todo = p
      BY <3>1, PlanEntered, PlanRead
    <3>3. p \notin Freeing
      BY <3>1, PlainPlans
    <3> QED
      BY <3>2, <3>3
  <2> QED
    BY <1>4, <2>1, <2>2
<1> QED
  BY <1>3, <1>5, EmptiedStill

\* What is left of a call is to free the statement only if it was before.
LEMMA RestPlan ==
  ASSUME OdInv, NEW s \in Stmts, NEW stage, At(s, stage), Goes(s)
  PROVE  /\ od_stmt[s].live /\ od_call.stmt = s /\ od_call.todo \in Plans
         /\ od_call'.todo \in Freeing =>
              /\ od_call'.stmt = s
              /\ \/ stage \in {"free_dynamic", "unprepared"} /\ od_call.todo \in Freeing
                 \/ stage \in {"free_cursor", "closed"} /\ od_call'.todo # <<"drop">>
<1>1. /\ od_stmt[s].live /\ od_call.stmt = s /\ od_call.todo \in Plans
      /\ Head(od_call.todo) = stage
  BY ReadyAt DEF OdInv, Ready
<1>2. CASE Rest = <<>>
  <2>1. od_call'.todo = <<>>
    BY <1>2, PlanOver DEF Goes
  <2> QED
    BY <1>1, <2>1, PlainPlans
<1>3. CASE Rest # <<>>
  <2>1. od_call'.stmt = s /\ od_call'.todo = Tail(od_call.todo)
    BY <1>3, PlanEntered DEF Goes, Rest
  <2> QED
    BY <1>1, <2>1, FreeingRest
<1> QED
  BY <1>2, <1>3

\* the other statements and handles when one is let go
LEMMA FreeOthers ==
  ASSUME TalkInv, NEW s \in Stmts, NEW k \in Kinds, Free(s, k)
  PROVE  /\ \A t \in Stmts : od_stmt'[t].live = od_stmt[t].live
         /\ \A t \in Stmts \ {s}, l \in Kinds : od_stmt'[t].has[l] = od_stmt[t].has[l]
         /\ od_stmt'[s].has[k] = NoObj
         /\ \A l \in Kinds \ {k} : od_stmt'[s].has[l] = od_stmt[s].has[l]
BY DEF Free, TalkInv, Typed, Statement

\* The handles that are closed when a statement is freed.
LEMMA EmptiedFrees ==
  ASSUME OdInv, Emptied, NEW s \in Stmts,
         FreeDynamic(s) \/ Unprepared(s) \/ FreeCursor(s) \/ CursorClosed(s)
  PROVE  Emptied'
<1>1. TalkInv /\ "dyn" \in Kinds /\ "cursor" \in Kinds /\ "cursor" # "dyn"
  BY KindNames DEF OdInv
<1>2. CASE /\ At(s, "free_dynamic") \/ At(s, "unprepared")
           /\ Goes(s) /\ Free(s, "dyn")
  <2>1. PICK stage \in {"free_dynamic", "unprepared"} : At(s, stage)
    BY <1>2
  <2>2. /\ od_stmt[s].live /\ od_call.stmt = s
        /\ od_call'.todo \in Freeing => /\ od_call'.stmt = s /\ od_call.todo \in Freeing
    BY <1>2, <2>1, RestPlan
  <2>3. od_call'.todo \in Freeing => od_stmt[s].has["cursor"] = NoObj
    BY <2>2 DEF Emptied
  <2> QED
    BY <1>1, <1>2, <2>2, <2>3, FreeOthers, EmptiedOn
<1>3. CASE /\ At(s, "free_cursor") \/ At(s, "closed")
           /\ Goes(s) /\ Free(s, "cursor")
  <2>1. PICK stage \in {"free_cursor", "closed"} : At(s, stage)
    BY <1>3
  <2>2. /\ od_stmt[s].live
        /\ od_call'.todo \in Freeing => od_call'.stmt = s /\ od_call'.todo # <<"drop">>
    BY <1>3, <2>1, RestPlan
  <2> QED
    BY <1>1, <1>3, <2>2, FreeOthers, EmptiedOn
<1>4. CASE /\ At(s, "free_dynamic") /\ UNCHANGED od_stmt
           /\ Reads(s, "all", <<"unprepared">> \o Rest)
  <2>1. /\ od_stmt[s].live /\ od_call.stmt = s /\ od_call.todo \in Plans
        /\ Head(od_call.todo) = "free_dynamic"
    BY <1>1, <1>4, ReadyAt DEF Ready
  <2>2. od_call'.stmt = s /\ od_call'.todo = <<"unprepared">> \o Tail(od_call.todo)
    BY <1>4, PlanRead DEF Rest
  <2>3. /\ od_call'.todo # <<"drop">>
        /\ od_call'.todo \in Freeing => od_call.todo \in Freeing
    BY <2>1, <2>2, FreeingRest
  <2>4. od_call.todo \in Freeing => od_stmt[s].has["cursor"] = NoObj
    BY <2>1 DEF Emptied
  <2> QED
    BY <1>4, <2>1, <2>2, <2>3, <2>4, EmptiedOn
<1>5. CASE /\ At(s, "free_cursor") /\ UNCHANGED od_stmt
           /\ Reads(s, "all", <<"closed">> \o Rest)
  <2>1. /\ od_stmt[s].live /\ od_call.todo \in Plans
        /\ Head(od_call.todo) = "free_cursor"
    BY <1>1, <1>5, ReadyAt DEF Ready
  <2>2. od_call'.todo = <<"closed">> \o Tail(od_call.todo)
    BY <1>5, PlanRead DEF Rest
  <2>3. od_call'.todo \notin Freeing
    BY <2>1, <2>2, FreeingRest
  <2> QED
    BY <1>5, <2>1, <2>3, EmptiedOn
<1> QED
  BY Zenon, <1>2, <1>3, <1>4, <1>5 DEF FreeDynamic, Unprepared, FreeCursor, CursorClosed

\* Stages that take or prepare a handle.
LEMMA EmptiedStages ==
  ASSUME OdInv, Emptied, NEW s \in Stmts,
         \/ SetQuery(s) \/ ExecuteRefused(s) \/ ExecuteQuery(s) \/ ExecuteFirst(s)
         \/ PrepExec(s) \/ ExecuteAgain(s) \/ ExecuteCursor(s) \/ CursorOpened(s)
         \/ Finish(s) \/ Prepared(s) \/ Fetched(s) \/ SQLNumResultCols(s)
  PROVE  Emptied'
<1>1. TalkInv /\ od_stmt \in [Stmts -> Statement]
  BY DEF OdInv, TalkInv, Typed
<1>2. CASE SQLNumResultCols(s)
  <2>1. od_stmt[s].live /\ od_call.todo = <<>>
    BY <1>2, NoCallTyped DEF SQLNumResultCols, Calling
  <2>2. /\ \A t \in Stmts : od_stmt'[t].live = od_stmt[t].live
        /\ \A t \in Stmts \ {s}, l \in Kinds : od_stmt'[t].has[l] = od_stmt[t].has[l]
    BY <1>1, <1>2 DEF SQLNumResultCols, Statement
  <2>3. UNCHANGED od_call \/ Reads(s, "all", <<"prepared">>)
    BY <1>2 DEF SQLNumResultCols
  <2>4. od_call'.todo \in {<<>>, <<"prepared">>}
    BY <2>1, <2>3, PlanRead
  <2> QED
    BY <2>1, <2>2, <2>4, PlainPlans, EmptiedOn
<1>3. ASSUME NEW stage \in {"set_query", "execute", "prepexec", "opened", "results",
                            "unlock", "stay", "prepared", "fetched"},
             At(s, stage),
             \/ Goes(s) \/ Return
             \/ \E p \in {<<"free_dynamic", "prepexec">>, <<"results">>, <<"opened">>,
                          <<"unlock">>} :
                  Enter(s, p) \/ \E how \in {"some", "all"} : Reads(s, how, p)
      PROVE  od_stmt[s].live /\ od_call'.todo \notin Freeing
  <2>1. od_stmt[s].live
    BY <1>1, <1>3, ReadyAt DEF Ready
  <2>2. CASE Goes(s)
    BY <1>3, <2>2, RestPlan
  <2>3. CASE Return
    BY <2>1, <2>3, PlanOver, PlainPlans
  <2>4. CASE \E p \in {<<"free_dynamic", "prepexec">>, <<"results">>, <<"opened">>,
                       <<"unlock">>} :
                  Enter(s, p) \/ \E how \in {"some", "all"} : Reads(s, how, p)
    <3>1. PICK p \in {<<"free_dynamic", "prepexec">>, <<"results">>, <<"opened">>,
                      <<"unlock">>} :
                  Enter(s, p) \/ \E how \in {"some", "all"} : Reads(s, how, p)
      BY <2>4
    <3>2. od_call'.todo = p
      BY <3>1, PlanEntered, PlanRead
    <3> QED
      BY <2>1, <3>1, <3>2, PlainPlans
  <2> QED
    BY <1>3, <2>1, <2>2, <2>3, <2>4
<1>4. ASSUME od_stmt[s].live, od_call'.todo \notin Freeing,
             \/ UNCHANGED od_stmt
             \/ \E r : od_stmt' = [od_stmt EXCEPT ![s] = r]
                         /\ r.live = od_stmt[s].live
      PROVE  Emptied'
  <2>1. /\ \A t \in Stmts : od_stmt'[t].live = od_stmt[t].live
        /\ \A t \in Stmts \ {s}, l \in Kinds : od_stmt'[t].has[l] = od_stmt[t].has[l]
    BY <1>1, <1>4
  <2> QED
    BY <1>4, <2>1, EmptiedOn
<1>5. CASE SetQuery(s)
  <2> DEFINE r == [od_stmt[s] EXCEPT !.prepared = TRUE, !.reprepare = ~od_stmt[s].scroll]
  <2>1. At(s, "set_query") /\ Goes(s) /\ od_stmt' = [od_stmt EXCEPT ![s] = r]
    BY <1>5 DEF SetQuery
  <2>2. r.live = od_stmt[s].live
    BY <1>1 DEF Statement
  <2> HIDE DEF r
  <2> QED
    BY <1>3, <1>4, <2>1, <2>2
<1>6. CASE ExecuteRefused(s) \/ ExecuteQuery(s) \/ ExecuteFirst(s) \/ ExecuteAgain(s)
  <2>1. UNCHANGED od_stmt /\ At(s, "execute")
    BY <1>6 DEF ExecuteRefused, ExecuteQuery, ExecuteFirst, ExecuteAgain, Executing
  <2>2. Return \/ Reads(s, "some", <<"results">>) \/ Enter(s, <<"free_dynamic", "prepexec">>)
    BY Zenon, <1>6 DEF ExecuteRefused, ExecuteQuery, ExecuteFirst, ExecuteAgain
  <2>3. od_stmt[s].live /\ od_call'.todo \notin Freeing
    BY <1>3, <2>1, <2>2
  <2> QED
    BY <1>4, <2>1, <2>3
<1>7. CASE PrepExec(s)
  <2> DEFINE q == [od_stmt[s] EXCEPT !.reprepare = FALSE]
             r == [q EXCEPT !.has["dyn"] = NewObj]
  <2>1. At(s, "prepexec") /\ (Return \/ Reads(s, "some", <<"results">>))
    BY <1>7 DEF PrepExec
  <2>2. od_stmt' = [od_stmt EXCEPT ![s] = r] \/ od_stmt' = [od_stmt EXCEPT ![s] = q]
    BY <1>7 DEF PrepExec
  <2>3. q.live = od_stmt[s].live /\ r.live = od_stmt[s].live
    BY <1>1 DEF Statement
  <2> HIDE DEF q, r
  <2>4. od_stmt[s].live /\ od_call'.todo \notin Freeing
    BY <1>3, <2>1
  <2> QED
    BY <1>4, <2>2, <2>3, <2>4
<1>8. CASE ExecuteCursor(s)
  <2> DEFINE r == [od_stmt[s] EXCEPT !.has["cursor"] = NewObj]
  <2>1. At(s, "execute") /\ Reads(s, "some", <<"opened">>)
        /\ od_stmt' = [od_stmt EXCEPT ![s] = r]
    BY <1>8 DEF ExecuteCursor, Executing
  <2>2. r.live = od_stmt[s].live
    BY <1>1 DEF Statement
  <2> HIDE DEF r
  <2>3. od_stmt[s].live /\ od_call'.todo \notin Freeing
    BY <1>3, <2>1
  <2> QED
    BY <1>4, <2>1, <2>2, <2>3
<1>9. CASE CursorOpened(s)
  <2> DEFINE r == [od_stmt[s] EXCEPT !.has["cursor"] = NoObj]
  <2>1. At(s, "opened") /\ (Return \/ Reads(s, "some", <<"results">>))
    BY Zenon, <1>9 DEF CursorOpened
  <2>2. UNCHANGED od_stmt \/ od_stmt' = [od_stmt EXCEPT ![s] = r]
    BY Zenon, <1>9 DEF CursorOpened, Free
  <2>3. r.live = od_stmt[s].live
    BY <1>1 DEF Statement
  <2> HIDE DEF r
  <2>4. od_stmt[s].live /\ od_call'.todo \notin Freeing
    BY <1>3, <2>1
  <2> QED
    BY <1>4, <2>2, <2>3, <2>4
<1>10. CASE Finish(s) \/ Fetched(s)
  <2>1. PICK stage \in {"results", "unlock", "stay", "fetched"} : At(s, stage)
    BY <1>10 DEF Finish, Fetched
  <2>2. UNCHANGED od_stmt /\ (Goes(s) \/ Return \/ Reads(s, "all", <<"unlock">>))
    BY <1>10 DEF Finish, Fetched
  <2>3. od_stmt[s].live /\ od_call'.todo \notin Freeing
    BY <1>3, <2>1, <2>2
  <2> QED
    BY <1>4, <2>2, <2>3
<1>11. CASE Prepared(s)
  <2> DEFINE q == [od_stmt[s] EXCEPT !.reprepare = FALSE]
             r == [q EXCEPT !.has["dyn"] =
                     IF od_call.rc \in {"fail", "error"} THEN NoObj ELSE @]
  <2>1. At(s, "prepared") /\ Goes(s) /\ od_stmt' = [od_stmt EXCEPT ![s] = r]
    BY <1>11 DEF Prepared
  <2>2. r.live = od_stmt[s].live
    BY <1>1 DEF Statement
  <2> HIDE DEF r
  <2>3. od_stmt[s].live /\ od_call'.todo \notin Freeing
    BY <1>3, <2>1
  <2> QED
    BY <1>4, <2>1, <2>2, <2>3
<1> QED
  BY <1>2, <1>5, <1>6, <1>7, <1>8, <1>9, <1>10, <1>11

\* A statement is allocated empty, and freed empty.
LEMMA EmptiedMade ==
  ASSUME OdInv, Emptied, NEW s \in Stmts,
         SQLAllocStmt(s, TRUE) \/ SQLAllocStmt(s, FALSE) \/ Drop(s)
  PROVE  Emptied'
<1>1. od_stmt \in [Stmts -> Statement]
  BY DEF OdInv, TalkInv, Typed
<1>2. \A k \in Kinds : FreeStmt.has[k] = NoObj
  BY DEF FreeStmt, NoObjs
<1>3. \A t \in Stmts \ {s} : od_stmt'[t] = od_stmt[t]
  BY <1>1 DEF SQLAllocStmt, Drop
<1>4. \A k \in Kinds : od_stmt'[s].has[k] = NoObj
  BY <1>1, <1>2 DEF SQLAllocStmt, Drop, FreeStmt
<1>5. od_call'.todo \notin Freeing
  <2>1. CASE SQLAllocStmt(s, TRUE) \/ SQLAllocStmt(s, FALSE)
    BY <2>1, NoCallTyped, PlainPlans DEF SQLAllocStmt
  <2>2. CASE Drop(s)
    BY <2>2, RestPlan DEF Drop
  <2> QED
    BY <2>1, <2>2
<1>6. <<"drop">> \in Freeing
  BY DEF Freeing
<1> QED
  BY <1>3, <1>4, <1>5, <1>6 DEF Emptied

\* The connection's own calls, and what is read, touch no statement.
LEMMA EmptiedConn ==
  ASSUME OdInv, Emptied,
         \/ SQLEndTran \/ Commit \/ Finish("dbc") \/ SQLDisconnect
         \/ ReadNothing \/ ReadSome \/ ReadDies \/ LastToken \/ AnswerOver
         \/ PendingClose \/ PendingClosed \/ PendingDies \/ ListOver
         \/ UNCHANGED odvars
  PROVE  Emptied'
<1>1. UNCHANGED od_stmt
  BY Zenon DEF SQLEndTran, Commit, Finish, SQLDisconnect, ReadNothing, ReadSome,
     ReadDies, LastToken, AnswerOver, PendingClose, PendingClosed, PendingDies,
     ListOver, odvars
<1>2. (\A t \in Stmts : od_stmt'[t].live = od_stmt[t].live) /\ SameHas
  BY <1>1 DEF SameHas
<1>3. CASE SQLEndTran \/ Commit
  <2>1. \/ Return
        \/ \E p \in {<<"commit">>, <<"stay">>} :
             Enter("dbc", p) \/ Reads("dbc", "all", p)
    BY <1>3 DEF SQLEndTran, Commit
  <2>2. od_call'.todo \in {<<>>, <<"commit">>, <<"stay">>}
    BY <2>1, PlanOver, PlanEntered, PlanRead
  <2> QED
    BY <1>2, <2>2, PlainPlans, EmptiedStill
<1>4. CASE Finish("dbc")
  <2>1. Return
    BY <1>4, ConnCall, EndPlanRest DEF Finish, Goes, Rest
  <2> QED
    BY <1>2, <2>1, PlanOver, PlainPlans, EmptiedStill
<1>5. CASE od_call' = od_call
  BY <1>2, <1>5, EmptiedStill
<1>6. ASSUME NEW rc \in {"over", "stop", "fail", "error"}, ReadReturns(rc)
      PROVE  od_call'.stmt = od_call.stmt /\ od_call'.todo = od_call.todo
  BY <1>6, ReadReturned DEF OdInv, TalkInv, Typed
<1>7. CASE ReadNothing \/ ReadSome \/ ReadDies \/ AnswerOver
  <2>1. \E rc \in {"over", "stop", "fail", "error"} : ReadReturns(rc)
    BY Zenon, <1>7 DEF ReadNothing, ReadSome, ReadDies, AnswerOver
  <2> QED
    BY <1>2, <1>6, <2>1, EmptiedStill
<1>8. CASE LastToken
  <2>1. PICK told, kept, error \in BOOLEAN, last \in {"done", "doneproc"} :
          Ends(told, kept, error, last)
    BY <1>8, LastTokenEnds
  <2>2. od_call' = [od_call EXCEPT !.last = last, !.error = error]
    BY Zenon, <2>1 DEF Ends
  <2>3. od_call'.stmt = od_call.stmt /\ od_call'.todo = od_call.todo
    BY <2>2 DEF OdInv, TalkInv, Typed, Call
  <2> QED
    BY <1>2, <2>3, EmptiedStill
<1>9. CASE \/ SQLDisconnect \/ PendingClose \/ PendingClosed \/ PendingDies \/ ListOver
           \/ UNCHANGED odvars
  BY Zenon, <1>5, <1>9 DEF SQLDisconnect, PendingClose, PendingClosed, PendingDies,
     ListOver, odvars
<1> QED
  BY <1>3, <1>4, <1>7, <1>8, <1>9

---------------------------------------------------------------------------
(* The invariant, and what follows from it.                                *)

\* The invariant holds when the connection is opened.
LEMMA OdInit_OdInv ==
  ASSUME OdInit PROVE OdInv /\ Emptied
<1>1. /\ od_stmt = [s \in Stmts |-> FreeStmt] /\ od_conn = NewConnection
      /\ od_call = NoCall /\ od_scan = NoScan /\ od_srv = [k \in Kinds |-> {}]
  BY DEF OdInit
<1>2. NoObjs \in [Kinds -> Names] /\ \A k \in Kinds : NoObjs[k] = NoObj
  BY ObjsNamed DEF NoObjs
<1>3. FreeStmt \in Statement /\ ~FreeStmt.live /\ FreeStmt.has = NoObjs
  BY <1>2 DEF FreeStmt, Statement
<1>4. /\ NewConnection \in Connection /\ NewConnection.state = "idle"
      /\ NewConnection.op = "none" /\ NewConnection.cur = NoObjs
      /\ NewConnection.current = "none" /\ NewConnection.tds = {}
      /\ NewConnection.list = [k \in Kinds |-> <<>>]
      /\ \A i \in Objs : NewConnection.obj[i] = FreeObj
  BY <1>2, FreeObjTyped DEF NewConnection, Connection, Ops
<1>5. /\ NoScan \in Visit /\ NoScan.at = NoObj /\ NoScan.next = NoObj
      /\ ~NoScan.wait /\ NoScan.list = "off"
  BY ObjsNamed DEF NoScan, Visit
<1>6. Typed
  BY <1>1, <1>3, <1>4, <1>5, NoCallTyped DEF Typed
<1>7. TalkInv
  <2>1. <<>> # <<"opened">> /\ <<>> # <<"prepexec">>
    OBVIOUS
  <2>2. OneOwner
    BY <1>1, <1>3, <1>4 DEF OneOwner
  <2> QED
    BY <1>1, <1>4, <1>5, <1>6, <2>1, <2>2, NoCallTyped
       DEF TalkInv, Planned, Phases, Senders, Owning, Replaced
<1>8. \A k \in Kinds : ToSet(od_conn.list[k]) = {} /\ IsInjective(od_conn.list[k])
  <2>1. ToSet(<<>>) = {} /\ IsInjective(<<>>)
    BY DEF ToSet, IsInjective
  <2> QED
    BY <1>1, <1>4, <2>1
<1>9. Listed(od_conn) = {}
  BY <1>8, KindNames DEF Listed
<1>10. Counted
  <2>1. ASSUME NEW i \in Objs
        PROVE  Excess(od_conn, i) = Bit(Owned(i)) + Bit(od_scan.at = i)
                                      + Bit(od_scan.next = i)
    <3>1. i # NoObj /\ ~Owned(i)
      BY <1>1, <1>2, <1>3, ObjsNamed DEF Owned
    <3>2. od_conn.obj[i].refs = 0 /\ \A k \in Kinds : od_conn.cur[k] = NoObj
      BY <1>1, <1>2, <1>4, FreeObjTyped
    <3> QED
      BY <1>1, <1>5, <1>9, <3>1, <3>2, KindNames DEF Excess, Bit
  <2> QED
    BY <2>1 DEF Counted
<1>11. OneHolder /\ Sorted /\ Visiting
  BY <1>1, <1>2, <1>3, <1>4, <1>5, <1>8 DEF OneHolder, Sorted, Visiting, OfKind
<1>12. CloseInv
  BY <1>1, <1>4, <1>5, <1>9, KindNames DEF CloseInv
<1>13. Emptied
  BY <1>1, <1>2, <1>3, NoCallTyped, PlainPlans DEF Emptied, Freeing
<1> QED
  BY <1>7, <1>10, <1>11, <1>12, <1>13 DEF OdInv, HoldInv

\* a call of the application
LEMMA CallsOdInv ==
  ASSUME OdInv, Emptied, NEW s \in Stmts, Calls(s) PROVE OdInv' /\ Emptied'
<1>1. CASE SQLAllocStmt(s, TRUE) \/ SQLAllocStmt(s, FALSE)
  BY <1>1, AllocSteps, EmptiedMade
<1>2. CASE SQLBindParameter(s)
  BY <1>2, BindSteps, EmptiedCalls
<1>3. CASE SQLPrepare(s) \/ SQLExecute(s) \/ SQLExecDirect(s)
  BY <1>3, StartSteps, EmptiedCalls
<1>4. CASE SQLNumResultCols(s)
  BY <1>4, NumResultColsSteps, EmptiedStages
<1>5. CASE FetchResult(s) \/ SQLMoreResults(s) \/ SQLCancel(s)
  BY <1>5, ReadSteps, EmptiedCalls
<1>6. CASE FetchCursor(s)
  BY <1>6, FetchCursorSteps, EmptiedCalls
<1>7. CASE SQLFreeStmtClose(s) \/ SQLFreeStmtDrop(s)
  BY <1>7, FreeStmtSteps, EmptiedCalls
<1> QED
  BY <1>1, <1>2, <1>3, <1>4, <1>5, <1>6, <1>7 DEF Calls

\* a stage of a call
LEMMA StagesOdInv ==
  ASSUME OdInv, Emptied, NEW s \in Stmts, Stages(s) PROVE OdInv' /\ Emptied'
<1>1. CASE FreeDynamic(s)
  BY <1>1, FreeDynamicSteps, EmptiedFrees
<1>2. CASE Unprepared(s)
  BY <1>2, UnpreparedSteps, EmptiedFrees
<1>3. CASE FreeCursor(s)
  BY <1>3, FreeCursorSteps, EmptiedFrees
<1>4. CASE CursorClosed(s)
  BY <1>4, CursorClosedSteps, EmptiedFrees
<1>5. CASE SetQuery(s)
  BY <1>5, SetQuerySteps, EmptiedStages
<1>6. CASE ExecuteRefused(s) \/ ExecuteFirst(s)
  BY <1>6, RefusedSteps, EmptiedStages
<1>7. CASE ExecuteQuery(s)
  BY <1>7, QuerySteps, EmptiedStages
<1>8. CASE PrepExec(s)
  BY <1>8, PrepExecSteps, EmptiedStages
<1>9. CASE ExecuteAgain(s)
  BY <1>9, AgainSteps, EmptiedStages
<1>10. CASE ExecuteCursor(s)
  BY <1>10, ExecuteCursorSteps, EmptiedStages
<1>11. CASE CursorOpened(s)
  BY <1>11, CursorOpenedSteps, EmptiedStages
<1>12. CASE Finish(s)
  BY <1>12, FinishSteps, EmptiedStages
<1>13. CASE Prepared(s)
  BY <1>13, PreparedSteps, EmptiedStages
<1>14. CASE Fetched(s)
  BY <1>14, FetchedSteps, EmptiedStages
<1>15. CASE Drop(s)
  BY <1>15, DropSteps, EmptiedMade
<1> QED
  BY <1>1, <1>2, <1>3, <1>4, <1>5, <1>6, <1>7, <1>8, <1>9, <1>10, <1>11, <1>12,
     <1>13, <1>14, <1>15 DEF Stages

\* the connection's calls, what is read, and the pending closes
LEMMA ConnOdInv ==
  ASSUME OdInv, Emptied,
         \/ SQLEndTran \/ Commit \/ Finish("dbc") \/ SQLDisconnect
         \/ ReadNothing \/ ReadSome \/ ReadDies \/ LastToken \/ AnswerOver
         \/ PendingClose \/ PendingClosed \/ PendingDies \/ ListOver
  PROVE  OdInv' /\ Emptied'
<1>1. Emptied'
  BY EmptiedConn
<1>2. CASE SQLEndTran \/ Commit \/ Finish("dbc") \/ SQLDisconnect
  BY <1>1, <1>2, EndTranSteps, CommitSteps, ConnFinishSteps, DisconnectSteps
<1>3. CASE ReadNothing \/ ReadSome \/ ReadDies \/ LastToken \/ AnswerOver
  BY <1>1, <1>3, ReadStopsSteps, ReadDiesSteps, LastTokenSteps, AnswerOverSteps
<1>4. CASE PendingClose \/ PendingClosed \/ PendingDies \/ ListOver
  BY <1>1, <1>4, PendingCloseSteps, PendingClosedSteps, PendingDiesSteps, ListOverSteps
<1> QED
  BY <1>2, <1>3, <1>4

\* nothing happens
LEMMA Stuttering ==
  ASSUME OdInv, Emptied, UNCHANGED odvars PROVE OdInv' /\ Emptied'
<1>1. Emptied'
  BY EmptiedConn
<1>2. od_stmt' = od_stmt /\ od_conn' = od_conn /\ od_call' = od_call
      /\ od_scan' = od_scan /\ od_srv' = od_srv
  BY DEF odvars
<1>3. HoldInv' /\ CloseInv'
  BY <1>2, Unmoved DEF OdInv, SameHas
<1>4. TalkInv'
  BY <1>2 DEF OdInv, TalkInv, Typed, Planned, Phases, Senders, Owning, Replaced, OneOwner
<1> QED
  BY <1>1, <1>3, <1>4 DEF OdInv

\* The conversation, the references and the deferred closes hold together: the
\* invariant from which the properties of the driver follow.
THEOREM OdInvariant == OdSpec => [](OdInv /\ Emptied)
<1>1. OdInit => OdInv /\ Emptied
  BY OdInit_OdInv
<1>2. OdInv /\ Emptied /\ [OdNext]_odvars => (OdInv /\ Emptied)'
  <2> SUFFICES ASSUME OdInv, Emptied, [OdNext]_odvars PROVE OdInv' /\ Emptied'
    OBVIOUS
  <2>1. CASE \E s \in Stmts : Calls(s) \/ Stages(s)
    BY <2>1, CallsOdInv, StagesOdInv
  <2>2. CASE \/ SQLEndTran \/ Commit \/ Finish("dbc") \/ SQLDisconnect
             \/ ReadNothing \/ ReadSome \/ ReadDies \/ LastToken \/ AnswerOver
             \/ PendingClose \/ PendingClosed \/ PendingDies \/ ListOver
    BY <2>2, ConnOdInv
  <2>3. CASE UNCHANGED odvars
    BY <2>3, Stuttering
  <2> QED
    BY <2>1, <2>2, <2>3 DEF OdNext
<1> QED
  BY <1>1, <1>2, PTL DEF OdSpec

\* Only the statement that owns the connection has its socket, whatever calls
\* the application makes of its statements (odbc_lock_statement).
THEOREM OwnerAlone == OdSpec => []OneOwner
<1>1. OdInv => OneOwner
  BY DEF OdInv, TalkInv
<1> QED
  BY <1>1, OdInvariant, PTL

\* A statement that reads or cancels an answer sent the request it answers:
\* what another statement asked for is not taken for its own.
THEOREM AnswersAreOwn == OdSpec => []ReadsOwn
<1>1. OdInv => ReadsOwn
  <2> SUFFICES ASSUME OdInv, od_call.read \in {"some", "cancel"},
                      od_conn.state = "pending", od_scan.list = "off"
               PROVE  od_conn.by = od_call.stmt
    BY DEF ReadsOwn
  <2>1. od_conn.current = od_call.stmt
    BY DEF OdInv, TalkInv, Owning
  <2>2. ~od_scan.wait
    BY DEF OdInv, TalkInv, Phases, NoScan
  <2> QED
    BY <2>1, <2>2 DEF OdInv, TalkInv, Senders
<1> QED
  BY <1>1, OdInvariant, PTL

\* For any number of statements, the one that has the connection's socket owns
\* the connection and reads the answer to its own request.
THEOREM OwnersReadTheirOwn == OdSpec => []OwnerReadsOwn
<1>1. OneOwner /\ ReadsOwn => OwnerReadsOwn
  BY DEF OwnerReadsOwn
<1> QED
  BY <1>1, OwnerAlone, AnswersAreOwn, PTL

\* No prepared handle of the server is lost while the connection lives, and a
\* deferred close is made by the time the connection is idle again.
THEOREM ClosesAreMade == OdSpec => []NothingForgotten
<1>1. OdInv => NothingForgotten
  <2> SUFFICES ASSUME OdInv PROVE NothingForgotten
    OBVIOUS
  <2>1. od_call = NoCall => od_scan.list = "off"
    BY NoCallTyped DEF OdInv, TalkInv, Phases
  <2> QED
    BY <2>1 DEF OdInv, CloseInv, NothingForgotten
<1> QED
  BY <1>1, OdInvariant, PTL

\* the objects that statements hold
Having(i) == {h \in Stmts \X Kinds : od_stmt[h[1]].has[h[2]] = i}

\* An object is held by at most one statement.
LEMMA HavingOne ==
  ASSUME OneHolder, NEW i \in Objs
  PROVE  Cardinality(Having(i)) = Bit(Owned(i))
<1>1. i # NoObj
  BY ObjsNamed
<1>2. CASE ~Owned(i)
  <2>1. Having(i) = {}
    BY <1>2 DEF Having, Owned
  <2> QED
    BY <1>2, <2>1, FS_EmptySet DEF Bit
<1>3. CASE Owned(i)
  <2>1. PICK s \in Stmts, k \in Kinds : od_stmt[s].has[k] = i
    BY <1>3 DEF Owned
  <2>2. \A t \in Stmts, l \in Kinds : od_stmt[t].has[l] = i => t = s /\ l = k
    BY <1>1, <2>1 DEF OneHolder
  <2>3. Having(i) = {<<s, k>>}
    BY <2>1, <2>2 DEF Having
  <2> QED
    BY <1>3, <2>3, FS_Singleton DEF Bit
<1> QED
  BY <1>2, <1>3

\* what an object's count is
LEMMA RefsOfHolders ==
  ASSUME OdInv, NEW i \in Objs
  PROVE  /\ od_conn.obj[i].refs
              = Bit(Owned(i)) + Bit(od_scan.at = i) + Bit(od_scan.next = i)
                + Bit(od_conn.cur["dyn"] = i) + Bit(od_conn.cur["cursor"] = i)
                + Bit(i \in Listed(od_conn))
         /\ od_conn.obj[i].refs \in 0..6
<1>1. od_conn \in Connection
      /\ Excess(od_conn, i) = Bit(Owned(i)) + Bit(od_scan.at = i) + Bit(od_scan.next = i)
  BY DEF OdInv, TalkInv, Typed, HoldInv, Counted
<1>2. /\ Bit(Owned(i)) \in {0, 1} /\ Bit(od_scan.at = i) \in {0, 1}
      /\ Bit(od_scan.next = i) \in {0, 1} /\ Bit(od_conn.cur["dyn"] = i) \in {0, 1}
      /\ Bit(od_conn.cur["cursor"] = i) \in {0, 1}
      /\ Bit(i \in Listed(od_conn)) \in {0, 1}
  BY DEF Bit
<1>3. od_conn.obj[i].refs
        = Bit(Owned(i)) + Bit(od_scan.at = i) + Bit(od_scan.next = i)
          + Bit(od_conn.cur["dyn"] = i) + Bit(od_conn.cur["cursor"] = i)
          + Bit(i \in Listed(od_conn))
  BY <1>1, <1>2, CountedRefs
<1> QED
  BY <1>2, <1>3

\* The count of a prepared statement or cursor is the number of its holders, so
\* that it is freed by the last of them and never before.
THEOREM CountsHold == OdSpec => []CountsAgree
<1>1. OdInv => CountsAgree
  <2> SUFFICES ASSUME OdInv, NEW i \in Objs
               PROVE  od_conn.obj[i].refs =
                        Cardinality({k \in Kinds : od_conn.cur[k] = i})
                        + Cardinality({h \in Stmts \X Kinds :
                                         od_stmt[h[1]].has[h[2]] = i})
                        + (IF i \in Listed(od_conn) THEN 1 ELSE 0)
                        + (IF od_scan.at = i THEN 1 ELSE 0)
                        + (IF od_scan.next = i THEN 1 ELSE 0)
    BY DEF CountsAgree
  <2>1. Cardinality(Asking(od_conn, i))
          = Bit(od_conn.cur["dyn"] = i) + Bit(od_conn.cur["cursor"] = i)
    BY RequestHolders
  <2>2. Cardinality(Having(i)) = Bit(Owned(i))
    BY HavingOne DEF OdInv, HoldInv
  <2>3. /\ Bit(Owned(i)) \in Int /\ Bit(od_conn.cur["dyn"] = i) \in Int
        /\ Bit(od_conn.cur["cursor"] = i) \in Int
    BY DEF Bit
  <2>4. od_conn.obj[i].refs
          = Cardinality(Asking(od_conn, i)) + Cardinality(Having(i))
            + Bit(i \in Listed(od_conn)) + Bit(od_scan.at = i) + Bit(od_scan.next = i)
    <3>1. /\ Bit(i \in Listed(od_conn)) \in Int /\ Bit(od_scan.at = i) \in Int
          /\ Bit(od_scan.next = i) \in Int
      BY DEF Bit
    <3> QED
      BY <2>1, <2>2, <2>3, <3>1, RefsOfHolders
  <2> QED
    BY <2>4 DEF Asking, Having, Bit
<1> QED
  BY <1>1, OdInvariant, PTL

\* Objects and lists are well formed, and requests are about objects of their
\* kind; no count exceeds the holders there can be.
THEOREM OdTypes == OdSpec => []OdTypeOK
<1>1. OdInv => OdTypeOK
  <2> SUFFICES ASSUME OdInv PROVE OdTypeOK
    OBVIOUS
  <2>1. od_conn.obj \in [Objs -> Object] /\ \A i \in Objs : od_conn.obj[i].refs \in 0..6
    BY RefsOfHolders DEF OdInv, TalkInv, Typed, Connection
  <2>2. od_conn.obj \in [Objs -> [kind : Kinds \cup {"free"}, refs : 0..6,
                                  known : BOOLEAN, defer : BOOLEAN]]
    BY <2>1 DEF Object
  <2>3. \A k \in Kinds :
          /\ IsInjective(od_conn.list[k])
          /\ \A i \in (ToSet(od_conn.list[k]) \cup {od_conn.cur[k]}) \ {NoObj} :
               od_conn.obj[i].kind = k
    BY DEF OdInv, HoldInv, Sorted, OfKind
  <2>4. od_conn.state = "pending" => od_call # NoCall \/ od_conn.by \in Stmts
    <3>1. NoCall.last = "none" /\ NoCall.stmt # "dbc"
      BY NoCallTyped
    <3> QED
      BY <3>1 DEF OdInv, TalkInv, Senders, Phases
  <2> QED
    BY <2>2, <2>3, <2>4 DEF OdTypeOK
<1> QED
  BY <1>1, OdInvariant, PTL
=============================================================================

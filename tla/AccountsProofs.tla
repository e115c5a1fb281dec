--------------------------- MODULE AccountsProofs ---------------------------
(***************************************************************************)
(* What holds of Accounts for any accounts, usernames, passwords and pool  *)
(* of threads: the game account follows the account, and how many there    *)
(* can be.                                                                 *)
(***************************************************************************)
EXTENDS Accounts, FiniteSetTheorems, TLAPS

UserRow == [live: BOOLEAN, name: Names \cup {{}}, password: Passwords \cup {{}},
            confirmed: BOOLEAN, unconfirmed: BOOLEAN, token: BOOLEAN]
Request == [at: {"confirm", "insert", "reset", "update", "edit"}, id: Ids,
            row: UserRow, new: UserRow]
IsGameRow(row) ==
  row = [n |-> row.n, of |-> row.of, name |-> row.name, password |-> row.password]

(* The tables and the handlers' memory are well typed.                     *)
TypeInv ==
  /\ users \in [Ids -> UserRow]
  /\ \A row \in tb_user : IsGameRow(row)
  /\ handler \in [Handlers -> Request \cup {Idle}]
  /\ due \in [Ids -> Nat]

(* The username with which a handler goes to TB_User.                      *)
Carried(r) == IF r.at = "confirm" THEN r.row.name ELSE r.new.name
Carries(r) == r # Idle /\ r.at # "edit"

(* Usernames come from accounts that have or had them.                     *)
WornInv ==
  /\ \A a \in Ids : users[a].live => users[a].name \in worn
  /\ \A h \in Handlers : Carries(handler[h]) => Carried(handler[h]) \in worn
  /\ \A row \in tb_user : row.name \in worn

(* Nothing is known of a key that was not given yet.                       *)
FreshInv ==
  \A a \in Ids : due[a] = 0 =>
    /\ ~users[a].live
    /\ \A h \in Handlers : handler[h] # Idle => handler[h].id # a
    /\ \A row \in tb_user : row.of # a

On(h, a) == handler[h] # Idle /\ handler[h].id = a

(* At most one handler is on the account,                                  *)
Alone(a) == \A g, h \in Handlers : On(g, a) /\ On(h, a) => g = h

(* and what it has loaded is what the table has, but for the token.        *)
Reads(a) ==
  \A h \in Handlers : On(h, a) =>
    LET r == handler[h]
        now == users[a]
    IN  /\ r.at \in {"confirm", "reset", "edit"} =>
             /\ r.row.name = now.name /\ r.row.password = now.password
             /\ r.row.confirmed = now.confirmed
             /\ r.row.unconfirmed = now.unconfirmed
        /\ r.at = "confirm" => ~r.row.confirmed \/ r.row.unconfirmed
        /\ r.at = "reset" => r.new.name = now.name
        /\ r.at \in {"insert", "update"} =>
             /\ r.new.name = now.name /\ r.new.password = now.password
             /\ now.confirmed

OnAt(a, at) == \E h \in Handlers : On(h, a) /\ handler[h].at = at

(* The account has no game account until a confirmation has inserted it,   *)
(* one afterwards, which lags behind while a reset is at it.               *)
Mirror(a) ==
  IF ~users[a].confirmed \/ OnAt(a, "insert")
  THEN \A row \in tb_user : row.of # a /\ row.name # users[a].name
  ELSE \E p : /\ {row \in tb_user : row.name = users[a].name} =
                   {[n |-> 1, of |-> a, name |-> users[a].name, password |-> p]}
              /\ p = users[a].password \/ OnAt(a, "update")

(* Nobody else has its username, nor goes to TB_User with it.              *)
Strangers(a) ==
  /\ \A b \in Ids \ {a} : users[b].live => users[b].name # users[a].name
  /\ \A h \in Handlers :
       Carries(handler[h]) /\ handler[h].id # a => Carried(handler[h]) # users[a].name
  /\ \A row \in tb_user : row.of # a => row.name # users[a].name

Own(a) == users[a].live /\ a \notin excused
Good(a) == Alone(a) /\ Reads(a) /\ Mirror(a) /\ Strangers(a)

MirrorInv == TypeInv /\ WornInv /\ FreshInv /\ \A a \in Ids : Own(a) => Good(a)
-----------------------------------------------------------------------------
LEMMA IdleIsNot == Idle \notin Request /\ NoUser \in UserRow
BY DEF Idle, Request, NoUser, UserRow

LEMMA MirrorInit == AccountsInit => MirrorInv
<1> SUFFICES ASSUME AccountsInit PROVE MirrorInv
  OBVIOUS
<1>1. \A a \in Ids : users[a] = NoUser /\ ~users[a].live
  BY DEF AccountsInit, NoUser
<1>2. TypeInv
  BY IdleIsNot DEF AccountsInit, TypeInv
<1>3. WornInv /\ FreshInv
  BY <1>1 DEF AccountsInit, WornInv, FreshInv, Carries
<1> QED BY <1>1, <1>2, <1>3 DEF MirrorInv, Own

(* A handler's step leaves the threads but one, and what becomes of the    *)
(* memory of that one.                                                     *)
LEMMA LoadFacts ==
  ASSUME TypeInv, NEW h \in Handlers, NEW a \in Ids, NEW at \in {"confirm", "reset", "edit"},
         NEW new \in UserRow, Load(h, at, a, new)
  PROVE  /\ handler[h] = Idle /\ users[a].live
         /\ handler'[h] = [at |-> at, id |-> a, row |-> users[a], new |-> new]
         /\ handler'[h] \in Request /\ handler'[h] # Idle
         /\ \A g \in Handlers \ {h} : handler'[g] = handler[g]
         /\ handler' \in [Handlers -> Request \cup {Idle}]
         /\ UNCHANGED <<users, tb_user, due, worn>>
         /\ excused \subseteq excused'
         /\ a \notin excused' => a \notin excused /\ \A g \in Handlers : ~On(g, a)
<1>1. [at |-> at, id |-> a, row |-> users[a], new |-> new] \in Request
  BY DEF TypeInv, Request
<1> QED BY <1>1, IdleIsNot DEF Load, TypeInv, Busy, On

LEMMA GoesFacts ==
  ASSUME TypeInv, NEW h \in Handlers, handler[h] # Idle,
         NEW at \in {"insert", "update"}, NEW row \in UserRow, Goes(h, at, row)
  PROVE  /\ handler'[h].at = at /\ handler'[h].id = handler[h].id
         /\ handler'[h].new.name = row.name /\ handler'[h].new.password = row.password
         /\ handler'[h] \in Request /\ handler'[h] # Idle
         /\ \A g \in Handlers \ {h} : handler'[g] = handler[g]
         /\ handler' \in [Handlers -> Request \cup {Idle}]
<1> DEFINE new == [NoUser EXCEPT !.name = row.name, !.password = row.password]
<1>1. new \in UserRow /\ new.name = row.name /\ new.password = row.password
  BY DEF NoUser, UserRow
<1>2. handler[h] \in Request
  BY DEF TypeInv
<1> HIDE DEF new
<1>3. [at |-> at, id |-> handler[h].id, row |-> NoUser, new |-> new] \in Request
  BY <1>1, <1>2, IdleIsNot DEF Request
<1>4. handler' = [handler EXCEPT ![h] = [at |-> at, id |-> handler[h].id,
                                         row |-> NoUser, new |-> new]]
  BY DEF Goes, new
<1> QED BY <1>1, <1>3, <1>4, IdleIsNot DEF TypeInv, new

LEMMA EndsFacts ==
  ASSUME TypeInv, NEW h \in Handlers, Ends(h)
  PROVE  /\ handler'[h] = Idle
         /\ \A g \in Handlers \ {h} : handler'[g] = handler[g]
         /\ handler' \in [Handlers -> Request \cup {Idle}]
BY DEF TypeInv, Ends

(* A thread that is somewhere holds a request.                             *)
LEMMA AtFacts ==
  ASSUME TypeInv, NEW h \in Handlers,
         handler[h].at \in {"confirm", "insert", "reset", "update", "edit"}
  PROVE  handler[h] # Idle /\ handler[h] \in Request /\ handler[h].id \in Ids
         /\ handler[h].row \in UserRow /\ handler[h].new \in UserRow
<1>1. handler[h] # Idle
  BY DEF Idle
<1> QED BY <1>1 DEF TypeInv, Request
-----------------------------------------------------------------------------
(* A step that concerns account b only is of no consequence to another     *)
(* account whose username it does not touch.                               *)
Only(b) ==
  /\ \A a \in Ids \ {b} : users'[a] = users[a]
  /\ excused \subseteq excused'
  /\ \A h \in Handlers :
       \/ handler'[h] = handler[h]
       \/ /\ handler[h] # Idle => handler[h].id = b
          /\ handler'[h] # Idle => handler'[h].id = b

Untouched(b, name) ==
  /\ users'[b].live => users'[b].name # name
  /\ \A h \in Handlers : Carries(handler'[h]) /\ handler'[h].id = b
                           => Carried(handler'[h]) # name
  /\ \A row \in tb_user' :
       \/ \E old \in tb_user : old.of = row.of /\ old.name = row.name
       \/ row.of = b /\ row.name # name
  /\ {row \in tb_user' : row.name = name} = {row \in tb_user : row.name = name}

LEMMA OthersStay ==
  ASSUME NEW a \in Ids, NEW b \in Ids, a # b, Only(b), Own(a)',
         Own(a) => Good(a), Own(a) => Untouched(b, users[a].name)
  PROVE  Good(a)'
<1>1. users'[a] = users[a] /\ Own(a)
  BY DEF Only, Own
<1>2. Good(a) /\ Untouched(b, users[a].name)
  BY <1>1
<1>3. \A h \in Handlers : (On(h, a)' <=> On(h, a)) /\ (On(h, a) => handler'[h] = handler[h])
  BY DEF Only, On
<1>4. Alone(a)'
  BY <1>2, <1>3 DEF Good, Alone
<1>5. Reads(a)'
  BY <1>1, <1>2, <1>3 DEF Good, Reads, On
<1>6. \A at : OnAt(a, at)' <=> OnAt(a, at)
  BY <1>3 DEF OnAt
<1>7. Mirror(a)'
  <2>1. CASE ~users[a].confirmed \/ OnAt(a, "insert")
    BY <1>1, <1>2, <1>6, <2>1 DEF Good, Mirror, Untouched
  <2>2. CASE ~(~users[a].confirmed \/ OnAt(a, "insert"))
    BY <1>1, <1>2, <1>6, <2>2 DEF Good, Mirror, Untouched
  <2> QED BY <2>1, <2>2
<1>8. Strangers(a)'
  <2>1. \A c \in Ids \ {a} : users'[c].live => users'[c].name # users[a].name
    BY <1>2 DEF Good, Strangers, Untouched, Only
  <2>2. \A h \in Handlers : Carries(handler'[h]) /\ handler'[h].id # a
                              => Carried(handler'[h]) # users[a].name
    BY <1>2 DEF Good, Strangers, Untouched, Only, Carries
  <2>3. \A row \in tb_user' : row.of # a => row.name # users[a].name
    BY <1>2 DEF Good, Strangers, Untouched
  <2> QED BY <1>1, <2>1, <2>2, <2>3 DEF Strangers, Carries, Carried
<1> QED BY <1>4, <1>5, <1>7, <1>8 DEF Good
-----------------------------------------------------------------------------
LEMMA SignUpKeeps ==
  ASSUME MirrorInv, NEW b \in Ids, NEW n \in Names, NEW p \in Passwords, SignUp(b, n, p)
  PROVE  MirrorInv'
<1> DEFINE new == [NoUser EXCEPT !.live = TRUE, !.name = n, !.password = p]
<1>1. /\ due[b] = 0 /\ NameFree(n, b)
      /\ users' = [users EXCEPT ![b] = new] /\ due' = [due EXCEPT ![b] = 1]
      /\ worn' = worn \cup {n} /\ excused \subseteq excused'
      /\ b \notin excused' => n \notin worn
      /\ tb_user' = tb_user /\ handler' = handler
  BY DEF SignUp
<1>2. /\ new \in UserRow /\ new.live /\ new.name = n /\ new.password = p
      /\ ~new.confirmed /\ ~new.unconfirmed
  BY DEF NoUser, UserRow
<1> HIDE DEF new
<1>3. TypeInv'
  BY <1>1, <1>2 DEF MirrorInv, TypeInv
<1>4. /\ users'[b] = new /\ \A a \in Ids \ {b} : users'[a] = users[a]
      /\ \A h \in Handlers : handler[h] # Idle => handler[h].id # b
      /\ \A row \in tb_user : row.of # b
  BY <1>1 DEF MirrorInv, TypeInv, FreshInv
<1>5. WornInv'
  BY <1>1, <1>2, <1>4 DEF MirrorInv, WornInv, Carries, Carried
<1>6. FreshInv'
  BY <1>1, <1>4 DEF MirrorInv, TypeInv, FreshInv
<1>7. ASSUME NEW a \in Ids, Own(a)' PROVE Good(a)'
  <2>1. CASE a # b
    <3>1. Only(b)
      BY <1>1, <1>4 DEF Only
    <3>2. Own(a) => Untouched(b, users[a].name)
      BY <1>1, <1>2, <1>4, <2>1 DEF Untouched, NameFree, Own, Carries
    <3> QED BY <1>7, <2>1, <3>1, <3>2, OthersStay DEF MirrorInv
  <2>2. CASE a = b
    <3>1. n \notin worn
      BY <1>1, <1>7, <2>2 DEF Own
    <3>2. Alone(b)' /\ Reads(b)'
      BY <1>1, <1>4 DEF Alone, Reads, On
    <3>3. Mirror(b)'
      BY <1>1, <1>2, <1>4, <3>1 DEF Mirror, MirrorInv, WornInv
    <3>4. Strangers(b)'
      BY <1>1, <1>2, <1>4, <3>1 DEF Strangers, NameFree, MirrorInv, WornInv, Carries, Carried
    <3> QED BY <2>2, <3>2, <3>3, <3>4 DEF Good
  <2> QED BY <2>1, <2>2
<1> QED BY <1>3, <1>5, <1>6, <1>7 DEF MirrorInv

LEMMA AskResetKeeps ==
  ASSUME MirrorInv, NEW b \in Ids, AskReset(b)
  PROVE  MirrorInv'
<1>1. /\ users' = [users EXCEPT ![b].token = TRUE]
      /\ UNCHANGED <<tb_user, handler, due, worn, excused>>
  BY DEF AskReset
<1>2. /\ users' \in [Ids -> UserRow]
      /\ \A a \in Ids :
           /\ users'[a].live = users[a].live /\ users'[a].name = users[a].name
           /\ users'[a].password = users[a].password
           /\ users'[a].confirmed = users[a].confirmed
           /\ users'[a].unconfirmed = users[a].unconfirmed
  BY <1>1 DEF MirrorInv, TypeInv, UserRow
<1>3. TypeInv' /\ WornInv' /\ FreshInv'
  BY <1>1, <1>2 DEF MirrorInv, TypeInv, WornInv, FreshInv, Carries, Carried
<1>4. ASSUME NEW a \in Ids, Own(a)' PROVE Good(a)'
  <2>1. Good(a)
    BY <1>1, <1>2, <1>4 DEF MirrorInv, Own
  <2>2. Alone(a)' /\ Reads(a)'
    BY <1>1, <1>2, <2>1 DEF Good, Alone, Reads, On
  <2>3. Mirror(a)'
    <3>1. \A at : OnAt(a, at)' <=> OnAt(a, at)
      BY <1>1 DEF OnAt, On
    <3> QED BY <1>1, <1>2, <2>1, <3>1 DEF Good, Mirror
  <2>4. Strangers(a)'
    BY <1>1, <1>2, <2>1 DEF Good, Strangers, Carries, Carried
  <2> QED BY <2>2, <2>3, <2>4 DEF Good
<1> QED BY <1>3, <1>4 DEF MirrorInv

LEMMA CancelKeeps ==
  ASSUME MirrorInv, NEW b \in Ids, CancelRegistration(b)
  PROVE  MirrorInv'
<1>1. /\ users' = [users EXCEPT ![b] = NoUser] /\ ~NoUser.live
      /\ UNCHANGED <<tb_user, handler, due, worn, excused>>
  BY DEF CancelRegistration, NoUser
<1>2. /\ users' \in [Ids -> UserRow]
      /\ users'[b] = NoUser /\ \A a \in Ids \ {b} : users'[a] = users[a]
  BY <1>1, IdleIsNot DEF MirrorInv, TypeInv
<1>3. TypeInv' /\ WornInv' /\ FreshInv'
  BY <1>1, <1>2 DEF MirrorInv, TypeInv, WornInv, FreshInv, Carries, Carried
<1>4. ASSUME NEW a \in Ids, Own(a)' PROVE Good(a)'
  <2>1. a # b
    BY <1>1, <1>2, <1>4 DEF Own
  <2>2. Only(b)
    BY <1>1, <1>2 DEF Only
  <2>3. Own(a) => Untouched(b, users[a].name)
    BY <1>1, <1>2, <2>1 DEF Untouched, MirrorInv, Good, Strangers, Carries, Carried
  <2> QED BY <1>4, <2>1, <2>2, <2>3, OthersStay DEF MirrorInv
<1> QED BY <1>3, <1>4 DEF MirrorInv

(* Loading a row: another handler on the account excuses it.               *)
LEMMA LoadKeeps ==
  ASSUME MirrorInv, NEW h \in Handlers, NEW b \in Ids,
         NEW at \in {"confirm", "reset", "edit"}, NEW new \in UserRow,
         Load(h, at, b, new), at = "confirm" => Pending(b),
         at = "reset" => new.name = users[b].name
  PROVE  MirrorInv'
<1>1. /\ handler[h] = Idle /\ users[b].live
      /\ handler'[h] = [at |-> at, id |-> b, row |-> users[b], new |-> new]
      /\ handler'[h] \in Request /\ handler'[h] # Idle
      /\ \A g \in Handlers \ {h} : handler'[g] = handler[g]
      /\ handler' \in [Handlers -> Request \cup {Idle}]
      /\ UNCHANGED <<users, tb_user, due, worn>>
      /\ excused \subseteq excused'
      /\ b \notin excused' => b \notin excused /\ \A g \in Handlers : ~On(g, b)
  BY LoadFacts DEF MirrorInv
<1>2. /\ handler'[h].at = at /\ handler'[h].id = b /\ handler'[h].row = users[b]
      /\ handler'[h].new = new
      /\ at # "edit" => Carried(handler'[h]) = users[b].name
  BY <1>1 DEF Carried
<1>3. TypeInv'
  BY <1>1 DEF MirrorInv, TypeInv
<1>4. WornInv'
  BY <1>1, <1>2 DEF MirrorInv, WornInv, Carries
<1>5. FreshInv'
  BY <1>1, <1>2 DEF MirrorInv, FreshInv
<1>6. ASSUME NEW a \in Ids, Own(a)' PROVE Good(a)'
  <2>1. CASE a # b
    <3>1. Only(b)
      BY <1>1, <1>2 DEF Only
    <3>2. Own(a) => Untouched(b, users[a].name)
      BY <1>1, <1>2, <2>1 DEF Untouched, MirrorInv, Good, Strangers, Carries, Carried
    <3> QED BY <1>6, <2>1, <3>1, <3>2, OthersStay DEF MirrorInv
  <2>2. CASE a = b
    <3>1. Good(b) /\ \A g \in Handlers : ~On(g, b)
      BY <1>1, <1>6, <2>2 DEF MirrorInv, Own
    <3>2. \A g \in Handlers : On(g, b)' => g = h
      BY <1>1, <3>1 DEF On
    <3>3. Alone(b)'
      BY <3>2 DEF Alone
    <3>4. Reads(b)'
      BY <1>1, <1>2, <3>2 DEF Reads, Pending
    <3>5. Mirror(b)'
      <4>1. \A x \in {"insert", "update"} : ~OnAt(b, x) /\ ~OnAt(b, x)'
        BY <1>2, <3>1, <3>2 DEF OnAt
      <4> QED BY <1>1, <3>1, <4>1 DEF Good, Mirror
    <3>6. Strangers(b)'
      BY <1>1, <1>2, <3>1 DEF Good, Strangers, Carries
    <3> QED BY <2>2, <3>3, <3>4, <3>5, <3>6 DEF Good
  <2> QED BY <2>1, <2>2
<1> QED BY <1>3, <1>4, <1>5, <1>6 DEF MirrorInv
-----------------------------------------------------------------------------
(* What a handler's write may do to the rows of users: only that of its    *)
(* account changes, and gets no username that another has.                 *)
Keeps(b) ==
  /\ users' \in [Ids -> UserRow]
  /\ \A a \in Ids \ {b} : users'[a] = users[a]
  /\ users'[b].live = users[b].live
  /\ users'[b].live =>
       users'[b].name = users[b].name \/ NameFree(users'[b].name, b)

(* The end of a request that leaves TB_User alone, and the username,       *)
(* password and confirmation of an account that is not excused.            *)
LEMMA EndKeeps ==
  ASSUME MirrorInv, NEW h \in Handlers, NEW b \in Ids, On(h, b), Ends(h), Keeps(b),
         UNCHANGED tb_user, due' \in [Ids -> Nat],
         \A a \in Ids : due'[a] = 0 => due[a] = 0,
         worn \subseteq worn', excused \subseteq excused',
         users'[b].live => users'[b].name \in worn',
         b \notin excused' => handler[h].at \notin {"insert", "update"},
         Own(b)' => /\ users'[b].name = users[b].name
                    /\ users'[b].confirmed = users[b].confirmed
                    /\ users'[b].confirmed => users'[b].password = users[b].password
  PROVE  MirrorInv'
<1>1. /\ handler'[h] = Idle /\ handler[h] # Idle /\ handler[h].id = b
      /\ \A g \in Handlers \ {h} : handler'[g] = handler[g]
      /\ handler' \in [Handlers -> Request \cup {Idle}]
  BY EndsFacts DEF MirrorInv, On
<1>2. TypeInv'
  BY <1>1 DEF MirrorInv, TypeInv, Keeps
<1>3. WornInv'
  <2>1. \A a \in Ids : users'[a].live => users'[a].name \in worn'
    BY DEF MirrorInv, WornInv, Keeps
  <2>2. \A g \in Handlers : Carries(handler'[g]) => Carried(handler'[g]) \in worn'
    BY <1>1 DEF MirrorInv, WornInv, Carries
  <2> QED BY <2>1, <2>2 DEF MirrorInv, WornInv, Carries, Carried
<1>4. FreshInv'
  <2>1. \A a \in Ids : users'[a].live = users[a].live
    BY DEF Keeps
  <2> QED BY <1>1, <2>1 DEF MirrorInv, FreshInv
<1>5. ASSUME NEW a \in Ids, Own(a)' PROVE Good(a)'
  <2>1. CASE a # b
    <3>1. Only(b)
      BY <1>1 DEF Only, Keeps
    <3>2. Own(a) => Untouched(b, users[a].name)
      <4> SUFFICES ASSUME Own(a) PROVE Untouched(b, users[a].name)
        OBVIOUS
      <4>1. users'[b].live => users'[b].name # users[a].name
        BY <2>1 DEF MirrorInv, Good, Own, NameFree, Strangers, Keeps
      <4>2. \A g \in Handlers : Carries(handler'[g]) /\ handler'[g].id = b
                                  => Carried(handler'[g]) # users[a].name
        BY <1>1, <2>1 DEF MirrorInv, Good, Strangers, Carries
      <4> QED BY <4>1, <4>2 DEF Untouched
    <3> QED BY <1>5, <2>1, <3>1, <3>2, OthersStay DEF MirrorInv
  <2>2. CASE a = b
    <3>1. /\ Good(b) /\ handler[h].at \notin {"insert", "update"}
          /\ users'[b].name = users[b].name
          /\ users'[b].confirmed = users[b].confirmed
          /\ users'[b].confirmed => users'[b].password = users[b].password
      BY <1>5, <2>2 DEF MirrorInv, Own, Keeps
    <3>2. \A g \in Handlers : ~On(g, b)'
      BY <1>1, <3>1 DEF Good, Alone, On
    <3>3. Alone(b)' /\ Reads(b)'
      BY <3>2 DEF Alone, Reads, On
    <3>4. Mirror(b)'
      <4>1. \A x \in {"insert", "update"} : ~OnAt(b, x) /\ ~OnAt(b, x)'
        BY <3>1, <3>2 DEF OnAt, Good, Alone
      <4> QED BY <1>1, <3>1, <4>1 DEF Good, Mirror
    <3>5. Strangers(b)'
      BY <1>1, <3>1 DEF Good, Strangers, Carries, Carried, Keeps
    <3> QED BY <2>2, <3>3, <3>4, <3>5 DEF Good
  <2> QED BY <2>1, <2>2
<1> QED BY <1>2, <1>3, <1>4, <1>5 DEF MirrorInv

(* A save after which the handler goes on to TB_User with the username and *)
(* password that are in users now.                                         *)
LEMMA GoesKeeps ==
  ASSUME MirrorInv, NEW h \in Handlers, NEW b \in Ids, On(h, b),
         NEW at \in {"insert", "update"}, NEW row \in UserRow, Goes(h, at, row), Keeps(b),
         UNCHANGED <<tb_user, due, worn>>, excused \subseteq excused',
         users'[b].name = users[b].name, row.name \in worn,
         \A a \in Ids \ {b} : Own(a) => row.name # users[a].name,
         Own(b)' => /\ row.name = users[b].name /\ row.password = users'[b].password
                    /\ users'[b].confirmed /\ handler[h].at \notin {"insert", "update"}
                    /\ (at = "insert" <=> ~users[b].confirmed)
  PROVE  MirrorInv'
<1>1. /\ handler[h] # Idle /\ handler[h].id = b
      /\ handler'[h].at = at /\ handler'[h].id = b
      /\ handler'[h].new.name = row.name /\ handler'[h].new.password = row.password
      /\ handler'[h] # Idle
      /\ \A g \in Handlers \ {h} : handler'[g] = handler[g]
      /\ handler' \in [Handlers -> Request \cup {Idle}]
  <2>1. TypeInv /\ handler[h] # Idle /\ handler[h].id = b
    BY DEF MirrorInv, On
  <2> QED BY <2>1, GoesFacts
<1>2. Carried(handler'[h]) = row.name
  BY <1>1 DEF Carried
<1>3. TypeInv'
  BY <1>1 DEF MirrorInv, TypeInv, Keeps
<1>4. WornInv'
  <2>1. \A a \in Ids : users'[a].live => users'[a].name \in worn'
    BY DEF MirrorInv, WornInv, Keeps
  <2>2. \A g \in Handlers : Carries(handler'[g]) => Carried(handler'[g]) \in worn'
    BY <1>1, <1>2 DEF MirrorInv, WornInv, Carries
  <2> QED BY <2>1, <2>2 DEF MirrorInv, WornInv, Carries, Carried
<1>5. FreshInv'
  <2>1. \A a \in Ids : users'[a].live = users[a].live
    BY DEF Keeps
  <2> QED BY <1>1, <2>1 DEF MirrorInv, FreshInv
<1>6. ASSUME NEW a \in Ids, Own(a)' PROVE Good(a)'
  <2>1. CASE a # b
    <3>1. Only(b)
      BY <1>1 DEF Only, Keeps
    <3>2. Own(a) => Untouched(b, users[a].name)
      <4> SUFFICES ASSUME Own(a) PROVE Untouched(b, users[a].name)
        OBVIOUS
      <4>1. users'[b].live => users'[b].name # users[a].name
        BY <2>1 DEF MirrorInv, Good, Own, Strangers, Keeps
      <4>2. \A g \in Handlers : Carries(handler'[g]) /\ handler'[g].id = b
                                  => Carried(handler'[g]) # users[a].name
        BY <1>1, <1>2, <2>1 DEF MirrorInv, Good, Strangers, Carries
      <4> QED BY <4>1, <4>2 DEF Untouched
    <3> QED BY <1>6, <2>1, <3>1, <3>2, OthersStay DEF MirrorInv
  <2>2. CASE a = b
    <3>1. /\ Good(b) /\ handler[h].at \notin {"insert", "update"}
          /\ row.name = users[b].name /\ row.password = users'[b].password
          /\ users'[b].confirmed /\ (at = "insert" <=> ~users[b].confirmed)
      BY <1>6, <2>2 DEF MirrorInv, Own, Keeps
    <3>2. \A g \in Handlers : (On(g, b) => g = h) /\ (On(g, b)' => g = h)
      BY <1>1, <3>1 DEF Good, Alone, On
    <3>3. Alone(b)'
      BY <3>2 DEF Alone
    <3>4. Reads(b)'
      BY <1>1, <3>1, <3>2 DEF Reads
    <3>5. Mirror(b)'
      <4>1. \A x \in {"insert", "update"} : ~OnAt(b, x) /\ (OnAt(b, x)' <=> x = at)
        BY <1>1, <3>1, <3>2 DEF OnAt, On
      <4> QED BY <1>1, <3>1, <4>1 DEF Good, Mirror
    <3>6. Strangers(b)'
      BY <1>1, <3>1 DEF Good, Strangers, Carries, Carried, Keeps
    <3> QED BY <2>2, <3>3, <3>4, <3>5, <3>6 DEF Good
  <2> QED BY <2>1, <2>2
<1> QED BY <1>3, <1>4, <1>5, <1>6 DEF MirrorInv
-----------------------------------------------------------------------------
LEMMA GiveUpKeeps ==
  ASSUME MirrorInv, NEW h \in Handlers, GiveUp(h)
  PROVE  MirrorInv'
<1> PICK b \in Ids : b = handler[h].id
  BY DEF GiveUp, MirrorInv, TypeInv, Request
<1>1. On(h, b)
  BY DEF GiveUp, On
<1>2. /\ Ends(h) /\ UNCHANGED <<users, tb_user, due, worn>> /\ excused \subseteq excused'
      /\ b \notin excused' => handler[h].at \notin {"insert", "update"}
  BY DEF GiveUp, At
<1>3. Keeps(b) /\ due' \in [Ids -> Nat]
  BY <1>2 DEF Keeps, MirrorInv, TypeInv
<1>4. users'[b].live => users'[b].name \in worn'
  BY <1>1, <1>2 DEF MirrorInv, WornInv
<1> QED BY <1>1, <1>2, <1>3, <1>4, EndKeeps

(* Writing a row with the loaded one's username changes nothing but it.    *)
LEMMA WrittenFacts ==
  ASSUME TypeInv, NEW b \in Ids, NEW row \in UserRow, Written(b, row),
         row.live = users[b].live,
         row.name = users[b].name \/ NameFree(row.name, b)
  PROVE  /\ Keeps(b)
         /\ users[b].live => users'[b] = row
         /\ ~users[b].live => users' = users
<1>1. CASE users[b].live
  BY <1>1 DEF Written, TypeInv, Keeps
<1>2. CASE ~users[b].live
  BY <1>2 DEF Written, TypeInv, Keeps
<1> QED BY <1>1, <1>2

LEMMA PasswordSavedFacts ==
  ASSUME TypeInv, NEW h \in Handlers, handler[h] \in Request
  PROVE  LET now == users[handler[h].id]
             old == handler[h].row.password
             new == handler[h].new.password
             saved == PasswordSaved(h)
         IN  /\ saved \in UserRow
             /\ saved.live = now.live /\ saved.name = now.name
             /\ saved.confirmed = now.confirmed /\ saved.unconfirmed = now.unconfirmed
             /\ saved.password = IF new = old THEN now.password ELSE new
<1> DEFINE now == users[handler[h].id]
           new == handler[h].new.password
<1>1. now \in UserRow /\ new \in Passwords \cup {{}}
  BY DEF TypeInv, Request, UserRow
<1>2. PasswordSaved(h) = IF new = handler[h].row.password THEN now
                         ELSE [now EXCEPT !.password = new, !.token = FALSE]
  BY DEF PasswordSaved
<1> HIDE DEF now, new
<1>3. CASE new = handler[h].row.password
  BY <1>1, <1>2, <1>3 DEF now, new
<1>4. CASE new # handler[h].row.password
  <2>1. PasswordSaved(h) = [now EXCEPT !.password = new, !.token = FALSE]
    BY <1>2, <1>4
  <2>2. /\ PasswordSaved(h) \in UserRow
        /\ PasswordSaved(h).live = now.live /\ PasswordSaved(h).name = now.name
        /\ PasswordSaved(h).confirmed = now.confirmed
        /\ PasswordSaved(h).unconfirmed = now.unconfirmed
        /\ PasswordSaved(h).password = new
    BY <1>1, <2>1 DEF UserRow
  <2> QED BY <1>4, <2>2 DEF now, new
<1> QED BY <1>3, <1>4

LEMMA SaveConfirmKeeps ==
  ASSUME MirrorInv, NEW h \in Handlers, NEW signed_in \in BOOLEAN, SaveConfirm(h, signed_in)
  PROVE  MirrorInv'
<1> PICK b \in Ids : b = handler[h].id
  BY AtFacts DEF SaveConfirm, At, MirrorInv
<1> PICK loaded \in UserRow : loaded = handler[h].row
  BY AtFacts DEF SaveConfirm, At, MirrorInv
<1> DEFINE saved == [users[b] EXCEPT !.confirmed = TRUE,
                                     !.unconfirmed = @ /\ ~loaded.unconfirmed]
<1>1. /\ handler[h] # Idle /\ handler[h] \in Request /\ On(h, b)
      /\ handler[h].at = "confirm" /\ loaded.unconfirmed \in BOOLEAN
  BY AtFacts DEF SaveConfirm, At, MirrorInv, On, UserRow
<1>2. UNCHANGED <<tb_user, due, worn>> /\ excused \subseteq excused'
      /\ due' \in [Ids -> Nat] /\ worn \subseteq worn'
  BY DEF SaveConfirm, MirrorInv, TypeInv
<1>3. users[b] \in UserRow
  BY <1>1 DEF MirrorInv, TypeInv
<1>4. /\ saved \in UserRow /\ saved.live = users[b].live /\ saved.name = users[b].name
      /\ saved.password = users[b].password /\ saved.confirmed
  BY <1>1, <1>3 DEF UserRow
<1>5. CASE /\ Written(b, saved)
           /\ IF signed_in THEN Ends(h) ELSE Goes(h, "insert", loaded)
           /\ excused' = IF signed_in \/ loaded.unconfirmed THEN excused \cup {b}
                                                            ELSE excused
  <2>1. /\ Keeps(b) /\ (users[b].live => users'[b] = saved)
        /\ (~users[b].live => users' = users)
    <3> HIDE DEF saved
    <3> QED BY <1>1, <1>4, <1>5, WrittenFacts DEF MirrorInv
  <2> HIDE DEF saved
  <2>2. users'[b].name = users[b].name
    BY <1>4, <2>1
  <2>3. users'[b].live => users'[b].name \in worn'
    BY <1>1, <1>2, <2>1, <2>2 DEF MirrorInv, WornInv, Keeps
  <2>4. CASE signed_in
    BY <1>1, <1>2, <1>5, <2>1, <2>3, <2>4, EndKeeps DEF Own
  <2>5. CASE ~signed_in
    <3>1. Goes(h, "insert", loaded)
      BY <1>5, <2>5
    <3>2. /\ loaded.name \in worn
          /\ \A a \in Ids \ {b} : Own(a) => loaded.name # users[a].name
      BY <1>1 DEF MirrorInv, WornInv, Good, Strangers, Carries, Carried
    <3>3. ASSUME Own(b)'
          PROVE  /\ loaded.name = users[b].name /\ loaded.password = users'[b].password
                 /\ users'[b].confirmed /\ ~users[b].confirmed
      <4>1. /\ Own(b) /\ ~loaded.unconfirmed /\ users'[b] = saved
        BY <1>1, <1>5, <2>1, <2>5, <3>3 DEF Own, Keeps
      <4>2. Reads(b)
        BY <1>1, <4>1 DEF MirrorInv, Good
      <4> QED BY <1>1, <1>4, <4>1, <4>2 DEF Reads
    <3>4. Own(b)' => /\ loaded.name = users[b].name /\ loaded.password = users'[b].password
                     /\ users'[b].confirmed /\ handler[h].at \notin {"insert", "update"}
                     /\ ("insert" = "insert" <=> ~users[b].confirmed)
      BY <1>1, <3>3
    <3> QED BY <1>1, <1>2, <2>1, <2>2, <3>1, <3>2, <3>4, GoesKeeps
  <2> QED BY <2>4, <2>5
<1>6. CASE Ends(h) /\ UNCHANGED <<users, excused>>
  <2>1. Keeps(b) /\ (users'[b].live => users'[b].name \in worn')
    BY <1>1, <1>2, <1>6 DEF MirrorInv, TypeInv, WornInv, Keeps
  <2> QED BY <1>1, <1>2, <1>6, <2>1, EndKeeps
<1> QED BY <1>5, <1>6 DEF SaveConfirm

LEMMA SaveResetKeeps ==
  ASSUME MirrorInv, NEW h \in Handlers, SaveReset(h)
  PROVE  MirrorInv'
<1> PICK b \in Ids : b = handler[h].id
  BY AtFacts DEF SaveReset, At, MirrorInv
<1> PICK new \in UserRow : new = handler[h].new
  BY AtFacts DEF SaveReset, At, MirrorInv
<1> DEFINE saved == PasswordSaved(h)
<1>1. /\ handler[h] # Idle /\ handler[h] \in Request /\ On(h, b)
      /\ handler[h].at = "reset" /\ handler[h].row.confirmed \in BOOLEAN
  BY AtFacts DEF SaveReset, At, MirrorInv, On, UserRow
<1>2. /\ UNCHANGED <<tb_user, due, worn, excused>> /\ Written(b, saved)
      /\ IF handler[h].row.confirmed THEN Goes(h, "update", new) ELSE Ends(h)
      /\ due' \in [Ids -> Nat]
  BY DEF SaveReset, MirrorInv, TypeInv
<1>3. /\ saved \in UserRow
      /\ saved.live = users[b].live /\ saved.name = users[b].name
      /\ saved.confirmed = users[b].confirmed
      /\ saved.password = IF new.password = handler[h].row.password
                          THEN users[b].password ELSE new.password
  BY <1>1, PasswordSavedFacts DEF MirrorInv
<1> HIDE DEF saved
<1>4. /\ Keeps(b) /\ (users[b].live => users'[b] = saved)
      /\ (~users[b].live => users' = users)
  BY <1>2, <1>3, WrittenFacts DEF MirrorInv
<1>5. users'[b].name = users[b].name
  BY <1>3, <1>4
<1>6. users'[b].live => users'[b].name \in worn'
  BY <1>2, <1>4, <1>5 DEF MirrorInv, WornInv, Keeps
<1>7. ASSUME Own(b)'
      PROVE  /\ new.name = users[b].name /\ new.password = users'[b].password
             /\ handler[h].row.confirmed = users[b].confirmed
             /\ users'[b].confirmed = users[b].confirmed
  <2>1. Own(b) /\ users'[b] = saved
    BY <1>2, <1>4, <1>7 DEF Own, Keeps
  <2>2. Reads(b)
    BY <2>1 DEF MirrorInv, Good
  <2> QED BY <1>1, <1>3, <2>1, <2>2 DEF Reads
<1>8. CASE handler[h].row.confirmed
  <2>1. Goes(h, "update", new)
    BY <1>2, <1>8
  <2>2. /\ new.name \in worn
        /\ \A a \in Ids \ {b} : Own(a) => new.name # users[a].name
    BY <1>1 DEF MirrorInv, WornInv, Good, Strangers, Carries, Carried
  <2>3. Own(b)' => /\ new.name = users[b].name /\ new.password = users'[b].password
                   /\ users'[b].confirmed /\ handler[h].at \notin {"insert", "update"}
                   /\ ("update" = "insert" <=> ~users[b].confirmed)
    BY <1>1, <1>7, <1>8
  <2> QED BY <1>1, <1>2, <1>4, <1>5, <2>1, <2>2, <2>3, GoesKeeps
<1>9. CASE ~handler[h].row.confirmed
  <2>1. Ends(h)
    BY <1>2, <1>9
  <2>2. Own(b)' => /\ users'[b].name = users[b].name
                   /\ users'[b].confirmed = users[b].confirmed
                   /\ users'[b].confirmed => users'[b].password = users[b].password
    BY <1>5, <1>7, <1>9
  <2> QED BY <1>1, <1>2, <1>4, <1>6, <2>1, <2>2, EndKeeps
<1> QED BY <1>1, <1>8, <1>9

LEMMA SaveProfileKeeps ==
  ASSUME MirrorInv, NEW h \in Handlers, SaveProfile(h)
  PROVE  MirrorInv'
<1> PICK b \in Ids : b = handler[h].id
  BY AtFacts DEF SaveProfile, At, MirrorInv
<1> PICK old \in UserRow : old = handler[h].row
  BY AtFacts DEF SaveProfile, At, MirrorInv
<1> PICK new \in UserRow : new = handler[h].new
  BY AtFacts DEF SaveProfile, At, MirrorInv
<1> DEFINE email == new.unconfirmed /\ ~old.unconfirmed
           mirrored == new.name = old.name /\ new.password = old.password
           base == PasswordSaved(h)
           name == IF new.name = old.name THEN base.name ELSE new.name
           unconfirmed == base.unconfirmed \/ email
           saved == [base EXCEPT !.name = name, !.unconfirmed = unconfirmed]
<1>1. /\ handler[h] # Idle /\ handler[h] \in Request /\ On(h, b) /\ handler[h].at = "edit"
      /\ new.unconfirmed \in BOOLEAN /\ old.unconfirmed \in BOOLEAN
  BY AtFacts DEF SaveProfile, At, MirrorInv, On, UserRow
<1>2. Ends(h) /\ UNCHANGED tb_user
  BY DEF SaveProfile
<1>3. /\ base \in UserRow
      /\ base.live = users[b].live /\ base.name = users[b].name
      /\ base.confirmed = users[b].confirmed
      /\ base.password = IF new.password = old.password
                         THEN users[b].password ELSE new.password
  BY <1>1, PasswordSavedFacts DEF MirrorInv
<1> HIDE DEF base
<1>4. /\ saved \in UserRow /\ saved.live = users[b].live
      /\ saved.name = IF new.name = old.name THEN users[b].name ELSE new.name
      /\ saved.confirmed = users[b].confirmed
      /\ saved.password = base.password
  <2>1. name \in Names \cup {{}} /\ unconfirmed \in BOOLEAN
    BY <1>1, <1>3 DEF UserRow
  <2> HIDE DEF name, unconfirmed
  <2>2. /\ saved \in UserRow /\ saved.live = base.live /\ saved.name = name
        /\ saved.confirmed = base.confirmed /\ saved.password = base.password
    BY <1>3, <2>1 DEF UserRow
  <2> HIDE DEF saved
  <2> QED BY <1>3, <2>2 DEF name
<1>5. CASE /\ NameFree(new.name, b)
           /\ Written(b, saved)
           /\ due' = IF email THEN [due EXCEPT ![b] = @ + 1] ELSE due
           /\ worn' = worn \cup {new.name}
           /\ excused' = IF mirrored THEN excused ELSE excused \cup {b}
  <2>1. /\ Keeps(b) /\ (users[b].live => users'[b] = saved)
        /\ (~users[b].live => users' = users)
    <3>1. Written(b, saved) /\ (saved.name = users[b].name \/ NameFree(saved.name, b))
      BY <1>4, <1>5
    <3> HIDE DEF saved
    <3> QED BY <1>4, <3>1, WrittenFacts DEF MirrorInv
  <2>2. /\ due' \in [Ids -> Nat] /\ \A a \in Ids : due'[a] = 0 => due[a] = 0
    BY <1>5 DEF MirrorInv, TypeInv
  <2>3. worn \subseteq worn' /\ excused \subseteq excused'
    BY <1>5
  <2>4. users'[b].live => users'[b].name \in worn'
    <3> HIDE DEF saved
    <3> QED BY <1>4, <1>5, <2>1 DEF MirrorInv, WornInv, Keeps
  <2>5. Own(b)' => /\ users'[b].name = users[b].name
                   /\ users'[b].confirmed = users[b].confirmed
                   /\ users'[b].confirmed => users'[b].password = users[b].password
    <3> HIDE DEF saved
    <3> QED BY <1>3, <1>4, <1>5, <2>1 DEF Own, Keeps
  <2> QED BY <1>1, <1>2, <2>1, <2>2, <2>3, <2>4, <2>5, EndKeeps
<1>6. CASE UNCHANGED <<users, due, worn, excused>>
  <2>1. Keeps(b) /\ due' \in [Ids -> Nat] /\ (users'[b].live => users'[b].name \in worn')
    BY <1>6 DEF MirrorInv, TypeInv, WornInv, Keeps
  <2> QED BY <1>1, <1>2, <1>6, <2>1, EndKeeps
<1> QED BY <1>5, <1>6 DEF SaveProfile, base
-----------------------------------------------------------------------------
(* Steps of a handler that end it with a write to TB_User.                 *)
LEMMA InsertKeeps ==
  ASSUME MirrorInv, NEW h \in Handlers, InsertGameUser(h)
  PROVE  MirrorInv'
<1> PICK b \in Ids : b = handler[h].id
  BY AtFacts DEF InsertGameUser, At, MirrorInv
<1> PICK loaded \in UserRow : loaded = handler[h].new
  BY AtFacts DEF InsertGameUser, At, MirrorInv
<1> DEFINE count == Cardinality({row \in tb_user : row.of = b})
           new == [n |-> count + 1, of |-> b, name |-> loaded.name,
                   password |-> loaded.password]
<1>1. /\ handler[h] # Idle /\ On(h, b) /\ handler[h].at = "insert"
      /\ Carries(handler[h]) /\ Carried(handler[h]) = loaded.name
  BY AtFacts DEF InsertGameUser, At, MirrorInv, On, Carries, Carried
<1>2. /\ tb_user' = tb_user \cup {new}
      /\ UNCHANGED <<users, due, worn, excused>>
  BY DEF InsertGameUser
<1>3. /\ handler'[h] = Idle
      /\ \A g \in Handlers \ {h} : handler'[g] = handler[g]
      /\ handler' \in [Handlers -> Request \cup {Idle}]
  BY EndsFacts DEF InsertGameUser, MirrorInv
<1>4. IsGameRow(new) /\ new.of = b /\ new.name = loaded.name /\ due[b] # 0
  BY <1>1 DEF IsGameRow, MirrorInv, FreshInv, On
<1>5. ASSUME \A row \in tb_user : row.of # b
      PROVE  new = [n |-> 1, of |-> b, name |-> loaded.name, password |-> loaded.password]
  <2>1. {row \in tb_user : row.of = b} = {}
    BY <1>5
  <2>2. count = 0
    BY <2>1, FS_EmptySet
  <2> QED BY <2>2
<1> HIDE DEF new
<1>6. TypeInv'
  BY <1>2, <1>3, <1>4 DEF MirrorInv, TypeInv
<1>7. WornInv'
  <2>1. \A g \in Handlers : Carries(handler'[g]) => Carried(handler'[g]) \in worn'
    BY <1>2, <1>3 DEF MirrorInv, WornInv, Carries
  <2>2. \A row \in tb_user' : row.name \in worn'
    BY <1>1, <1>2, <1>4 DEF MirrorInv, WornInv
  <2> QED BY <1>2, <2>1, <2>2 DEF MirrorInv, WornInv, Carries, Carried
<1>8. FreshInv'
  BY <1>2, <1>3, <1>4 DEF MirrorInv, FreshInv
<1>9. ASSUME NEW a \in Ids, Own(a)' PROVE Good(a)'
  <2>1. CASE a # b
    <3>1. Only(b)
      BY <1>1, <1>2, <1>3 DEF Only, On
    <3>2. Own(a) => Untouched(b, users[a].name)
      <4> SUFFICES ASSUME Own(a) PROVE Untouched(b, users[a].name)
        OBVIOUS
      <4>1. loaded.name # users[a].name /\ Strangers(a)
        BY <1>1, <2>1 DEF MirrorInv, Good, Strangers, On
      <4>2. \A g \in Handlers : Carries(handler'[g]) /\ handler'[g].id = b
                                  => Carried(handler'[g]) # users[a].name
        BY <1>3, <2>1, <4>1 DEF Strangers, Carries
      <4>3. users'[b].live => users'[b].name # users[a].name
        BY <1>2, <2>1, <4>1 DEF Strangers
      <4> QED BY <1>2, <1>4, <4>1, <4>2, <4>3 DEF Untouched
    <3> QED BY <1>9, <2>1, <3>1, <3>2, OthersStay DEF MirrorInv
  <2>2. CASE a = b
    <3>1. Good(b)
      BY <1>2, <1>9, <2>2 DEF MirrorInv, Own
    <3>2. /\ loaded.name = users[b].name /\ loaded.password = users[b].password
          /\ users[b].confirmed
      BY <1>1, <3>1 DEF Good, Reads
    <3>3. \A row \in tb_user : row.of # b /\ row.name # users[b].name
      BY <1>1, <3>1 DEF Good, Mirror, OnAt
    <3>4. new = [n |-> 1, of |-> b, name |-> users[b].name, password |-> users[b].password]
      BY <1>5, <3>2, <3>3
    <3>5. \A g \in Handlers : ~On(g, b)'
      BY <1>1, <1>3, <3>1 DEF Good, Alone, On
    <3>6. Alone(b)' /\ Reads(b)'
      BY <3>5 DEF Alone, Reads, On
    <3>7. Mirror(b)'
      <4>1. ~OnAt(b, "insert")'
        BY <3>5 DEF OnAt
      <4>2. {row \in tb_user' : row.name = users[b].name} = {new}
        BY <1>2, <1>4, <3>2, <3>3
      <4> QED BY <1>2, <3>2, <3>4, <4>1, <4>2 DEF Mirror
    <3>8. Strangers(b)'
      BY <1>2, <1>3, <1>4, <3>1 DEF Good, Strangers, Carries, Carried
    <3> QED BY <2>2, <3>6, <3>7, <3>8 DEF Good
  <2> QED BY <2>1, <2>2
<1> QED BY <1>6, <1>7, <1>8, <1>9 DEF MirrorInv

LEMMA UpdateKeeps ==
  ASSUME MirrorInv, NEW h \in Handlers, UpdateGameUser(h)
  PROVE  MirrorInv'
<1> PICK b \in Ids : b = handler[h].id
  BY AtFacts DEF UpdateGameUser, At, MirrorInv
<1> PICK new \in UserRow : new = handler[h].new
  BY AtFacts DEF UpdateGameUser, At, MirrorInv
<1> DEFINE updated(row) == IF row.name = new.name THEN [row EXCEPT !.password = new.password]
                           ELSE row
<1>1. /\ handler[h] # Idle /\ On(h, b) /\ handler[h].at = "update"
      /\ Carries(handler[h]) /\ Carried(handler[h]) = new.name
  BY AtFacts DEF UpdateGameUser, At, MirrorInv, On, Carries, Carried
<1>2. /\ tb_user' = {updated(row) : row \in tb_user}
      /\ UNCHANGED <<users, due, worn, excused>>
  BY DEF UpdateGameUser
<1>3. /\ handler'[h] = Idle
      /\ \A g \in Handlers \ {h} : handler'[g] = handler[g]
      /\ handler' \in [Handlers -> Request \cup {Idle}]
  BY EndsFacts DEF UpdateGameUser, MirrorInv
<1>4. \A row \in tb_user :
        /\ updated(row) = [n |-> row.n, of |-> row.of, name |-> row.name,
                           password |-> IF row.name = new.name THEN new.password
                                        ELSE row.password]
        /\ updated(row).of = row.of /\ updated(row).name = row.name
        /\ IsGameRow(updated(row))
        /\ row.name # new.name => updated(row) = row
  <2> SUFFICES ASSUME NEW row \in tb_user
               PROVE  updated(row) = [n |-> row.n, of |-> row.of, name |-> row.name,
                                      password |-> IF row.name = new.name THEN new.password
                                                   ELSE row.password]
    BY DEF IsGameRow
  <2>1. row = [n |-> row.n, of |-> row.of, name |-> row.name, password |-> row.password]
    BY DEF MirrorInv, TypeInv, IsGameRow
  <2> QED BY <2>1
<1> HIDE DEF updated
<1>5. \A row \in tb_user' : \E old \in tb_user : old.of = row.of /\ old.name = row.name
  BY <1>2, <1>4
<1>6. TypeInv'
  BY <1>2, <1>3, <1>4 DEF MirrorInv, TypeInv
<1>7. WornInv'
  <2>1. \A g \in Handlers : Carries(handler'[g]) => Carried(handler'[g]) \in worn'
    BY <1>2, <1>3 DEF MirrorInv, WornInv, Carries
  <2>2. \A row \in tb_user' : row.name \in worn'
    BY <1>2, <1>5 DEF MirrorInv, WornInv
  <2> QED BY <1>2, <2>1, <2>2 DEF MirrorInv, WornInv, Carries, Carried
<1>8. FreshInv'
  BY <1>2, <1>3, <1>5 DEF MirrorInv, FreshInv
<1>9. ASSUME NEW a \in Ids, Own(a)' PROVE Good(a)'
  <2>1. CASE a # b
    <3>1. Only(b)
      BY <1>1, <1>2, <1>3 DEF Only, On
    <3>2. Own(a) => Untouched(b, users[a].name)
      <4> SUFFICES ASSUME Own(a) PROVE Untouched(b, users[a].name)
        OBVIOUS
      <4>1. new.name # users[a].name /\ Strangers(a)
        BY <1>1, <2>1 DEF MirrorInv, Good, Strangers, On
      <4>2. \A g \in Handlers : Carries(handler'[g]) /\ handler'[g].id = b
                                  => Carried(handler'[g]) # users[a].name
        BY <1>3, <2>1, <4>1 DEF Strangers, Carries
      <4>3. users'[b].live => users'[b].name # users[a].name
        BY <1>2, <2>1, <4>1 DEF Strangers
      <4>4. {row \in tb_user' : row.name = users[a].name}
              = {row \in tb_user : row.name = users[a].name}
        BY <1>2, <1>4, <4>1
      <4> QED BY <1>5, <4>2, <4>3, <4>4 DEF Untouched
    <3> QED BY <1>9, <2>1, <3>1, <3>2, OthersStay DEF MirrorInv
  <2>2. CASE a = b
    <3>1. Good(b)
      BY <1>2, <1>9, <2>2 DEF MirrorInv, Own
    <3>2. /\ new.name = users[b].name /\ new.password = users[b].password
          /\ users[b].confirmed
      BY <1>1, <3>1 DEF Good, Reads
    <3>3. \A g \in Handlers : (On(g, b) => g = h) /\ ~On(g, b)'
      BY <1>1, <1>3, <3>1 DEF Good, Alone, On
    <3>4. Alone(b)' /\ Reads(b)'
      BY <3>3 DEF Alone, Reads, On
    <3>5. Mirror(b)'
      <4>1. ~OnAt(b, "insert") /\ ~OnAt(b, "insert")'
        BY <1>1, <3>3 DEF OnAt
      <4>2. PICK p : {row \in tb_user : row.name = users[b].name} =
                       {[n |-> 1, of |-> b, name |-> users[b].name, password |-> p]}
        BY <3>1, <3>2, <4>1 DEF Good, Mirror
      <4>3. {row \in tb_user' : row.name = users[b].name} =
              {updated(row) : row \in {row \in tb_user : row.name = users[b].name}}
        BY <1>2, <1>4
      <4>4. \A row \in tb_user : row = [n |-> 1, of |-> b, name |-> users[b].name, password |-> p]
              => updated(row) = [n |-> 1, of |-> b, name |-> users[b].name,
                                 password |-> users[b].password]
        BY <1>4, <3>2
      <4>5. {row \in tb_user' : row.name = users[b].name} =
              {[n |-> 1, of |-> b, name |-> users[b].name, password |-> users[b].password]}
        <5> DEFINE old == [n |-> 1, of |-> b, name |-> users[b].name, password |-> p]
        <5>1. old \in tb_user
          BY <4>2
        <5>2. updated(old) = [n |-> 1, of |-> b, name |-> users[b].name,
                              password |-> users[b].password]
          BY <4>4, <5>1
        <5>3. {row \in tb_user : row.name = users[b].name} = {old}
          BY <4>2
        <5> HIDE DEF old
        <5> QED BY <4>3, <5>2, <5>3
      <4> QED BY <1>2, <3>2, <4>1, <4>5 DEF Mirror
    <3>6. Strangers(b)'
      BY <1>2, <1>3, <1>5, <3>1 DEF Good, Strangers, Carries, Carried
    <3> QED BY <2>2, <3>4, <3>5, <3>6 DEF Good
  <2> QED BY <2>1, <2>2
<1> QED BY <1>6, <1>7, <1>8, <1>9 DEF MirrorInv
-----------------------------------------------------------------------------
LEMMA MirrorStep == MirrorInv /\ [AccountsNext]_accountvars => MirrorInv'
<1> SUFFICES ASSUME MirrorInv, [AccountsNext]_accountvars PROVE MirrorInv'
  OBVIOUS
<1>1. ASSUME NEW a \in Ids, NEW n \in Names, NEW p \in Passwords, SignUp(a, n, p)
      PROVE  MirrorInv'
  BY <1>1, SignUpKeeps
<1>2. ASSUME NEW a \in Ids, AskReset(a) PROVE MirrorInv'
  BY <1>2, AskResetKeeps
<1>3. ASSUME NEW a \in Ids, CancelRegistration(a) PROVE MirrorInv'
  BY <1>3, CancelKeeps
<1>4. ASSUME NEW h \in Handlers, NEW a \in Ids, Confirm(h, a) PROVE MirrorInv'
  <2>1. Load(h, "confirm", a, NoUser) /\ Pending(a)
    BY <1>4 DEF Confirm
  <2> QED BY <2>1, IdleIsNot, LoadKeeps
<1>5. ASSUME NEW h \in Handlers, NEW a \in Ids, NEW p \in Passwords, Reset(h, a, p)
      PROVE  MirrorInv'
  <2> DEFINE new == [users[a] EXCEPT !.password = p]
  <2>1. new \in UserRow /\ new.name = users[a].name
    BY DEF MirrorInv, TypeInv, UserRow
  <2>2. Load(h, "reset", a, new)
    BY <1>5 DEF Reset
  <2> PICK fixed \in UserRow : fixed = new
    BY <2>1
  <2> HIDE DEF new
  <2> QED BY <2>1, <2>2, LoadKeeps
<1>6. ASSUME NEW h \in Handlers, NEW a \in Ids, NEW n \in Names, NEW p \in Passwords,
             NEW email \in BOOLEAN, EditProfile(h, a, n, p, email)
      PROVE  MirrorInv'
  <2> DEFINE new == [users[a] EXCEPT !.name = n, !.password = p,
                                     !.unconfirmed = @ \/ email]
  <2>1. new \in UserRow
    BY DEF MirrorInv, TypeInv, UserRow
  <2>2. Load(h, "edit", a, new)
    BY <1>6 DEF EditProfile
  <2> PICK fixed \in UserRow : fixed = new
    BY <2>1
  <2> HIDE DEF new
  <2> QED BY <2>1, <2>2, LoadKeeps
<1>7. ASSUME NEW h \in Handlers, NEW signed_in \in BOOLEAN, SaveConfirm(h, signed_in)
      PROVE  MirrorInv'
  BY <1>7, SaveConfirmKeeps
<1>8. ASSUME NEW h \in Handlers, InsertGameUser(h) PROVE MirrorInv'
  BY <1>8, InsertKeeps
<1>9. ASSUME NEW h \in Handlers, SaveReset(h) PROVE MirrorInv'
  BY <1>9, SaveResetKeeps
<1>10. ASSUME NEW h \in Handlers, UpdateGameUser(h) PROVE MirrorInv'
  BY <1>10, UpdateKeeps
<1>11. ASSUME NEW h \in Handlers, SaveProfile(h) PROVE MirrorInv'
  BY <1>11, SaveProfileKeeps
<1>12. ASSUME NEW h \in Handlers, GiveUp(h) PROVE MirrorInv'
  BY <1>12, GiveUpKeeps
<1>13. CASE UNCHANGED accountvars
  <2>1. TypeInv' /\ WornInv' /\ FreshInv'
    BY <1>13 DEF accountvars, MirrorInv, TypeInv, WornInv, FreshInv, Carries, Carried
  <2>2. ASSUME NEW a \in Ids, Own(a)' PROVE Good(a)'
    BY <1>13, <2>2 DEF accountvars, MirrorInv, Own, Good, Alone, Reads, Mirror, OnAt, On,
                       Strangers, Carries, Carried
  <2> QED BY <2>1, <2>2 DEF MirrorInv
<1> QED
  BY <1>1, <1>2, <1>3, <1>4, <1>5, <1>6, <1>7, <1>8, <1>9, <1>10, <1>11, <1>12,
     <1>13 DEF AccountsNext

(* Whatever requests interleave, raise or are repeated: a confirmed        *)
(* account that no handler is changing has exactly one game account, with  *)
(* its username and its password (confirmations_controller.rb:22,          *)
(* passwords_controller.rb:10), but for the ways excused records.          *)
THEOREM GameAccountFollows == AccountsSpec => []MirrorFollows
<1>1. MirrorInv => MirrorFollows
  <2> SUFFICES ASSUME MirrorInv, NEW a \in Ids, users[a].live, users[a].confirmed,
                      ~Busy(a), a \notin excused
               PROVE  {row \in tb_user : row.name = users[a].name} =
                        {[n |-> 1, of |-> a, name |-> users[a].name,
                          password |-> users[a].password]}
    BY DEF MirrorFollows
  <2>1. Mirror(a) /\ \A at : ~OnAt(a, at)
    BY DEF MirrorInv, Own, Good, OnAt, On, Busy
  <2> QED BY <2>1 DEF Mirror
<1> QED
  BY MirrorInit, MirrorStep, <1>1, PTL DEF AccountsSpec
-----------------------------------------------------------------------------
(***************************************************************************)
(* How many game accounts there can be.  Of every confirmation asked for   *)
(* each thread may insert one: the handler that confirms, and those that   *)
(* loaded the account before.  What was inserted, and the handlers that    *)
(* will insert but no longer confirm anything, are paid for by the         *)
(* confirmations that are not pending any more.                            *)
(***************************************************************************)
Rows(a) == {row \in tb_user : row.of = a}

\* the handler's save would make the pending confirmation happen
Clears(h, a) ==
  /\ users[a].live
  /\ ~users[a].confirmed \/ (users[a].unconfirmed /\ handler[h].row.unconfirmed)

Inserting(a) ==
  {h \in Handlers : /\ On(h, a)
                    /\ \/ handler[h].at = "insert"
                       \/ handler[h].at = "confirm" /\ ~Clears(h, a)}

Passed(a) == IF users[a].live /\ Pending(a) THEN due[a] - 1 ELSE due[a]

Pool == Cardinality(Handlers)

Counts(a) ==
  /\ IsFiniteSet(Rows(a))
  /\ Cardinality(Rows(a)) + Cardinality(Inserting(a)) <= Pool * Passed(a)

\* a first confirmation is over before a new address can be entered
OneAtATime(a) ==
  /\ users[a].live => due[a] # 0 /\ (~users[a].confirmed => ~users[a].unconfirmed)
  /\ \A h \in Handlers : On(h, a) /\ handler[h].at = "edit" /\ users[a].live
                           => users[a].confirmed

BoundInv == MirrorInv /\ \A a \in Ids : Counts(a) /\ OneAtATime(a)

LEMMA PoolFacts ==
  /\ Pool \in Nat
  /\ \A S \in SUBSET Handlers :
       IsFiniteSet(S) /\ Cardinality(S) \in Nat /\ Cardinality(S) <= Pool
  /\ \A S, T \in SUBSET Handlers : S \subseteq T => Cardinality(S) <= Cardinality(T)
<1>1. IsFiniteSet(Handlers)
  BY AccountsAssumption
<1>2. Pool \in Nat
  BY <1>1, FS_CardinalityType DEF Pool
<1>3. ASSUME NEW S \in SUBSET Handlers
      PROVE  IsFiniteSet(S) /\ Cardinality(S) \in Nat /\ Cardinality(S) <= Pool
  BY <1>1, FS_Subset, FS_CardinalityType DEF Pool
<1>4. ASSUME NEW S \in SUBSET Handlers, NEW T \in SUBSET Handlers, S \subseteq T
      PROVE  Cardinality(S) <= Cardinality(T)
  <2>1. IsFiniteSet(T) /\ S \in SUBSET T
    BY <1>3, <1>4
  <2> QED BY <2>1, FS_Subset
<1> QED BY <1>2, <1>3, <1>4

LEMMA PassedFacts ==
  ASSUME TypeInv, NEW a \in Ids, OneAtATime(a)
  PROVE  Passed(a) \in Nat /\ Pool * Passed(a) \in Nat
<1>1. due[a] \in Nat /\ (users[a].live => due[a] # 0)
  BY DEF TypeInv, OneAtATime
<1>2. Passed(a) \in Nat
  BY <1>1 DEF Passed
<1> QED BY <1>2, PoolFacts

LEMMA PoolTimes ==
  ASSUME NEW m \in Nat, NEW n \in Nat
  PROVE  /\ m <= n => Pool * m <= Pool * n
         /\ m + 1 <= n => Pool * m + Pool <= Pool * n
<1>1. \A p \in Nat : (m <= n => p * m <= p * n) /\ (m + 1 <= n => p * m + p <= p * n)
  OBVIOUS
<1> QED BY <1>1, PoolFacts

(* A step that inserts nothing, and makes nobody insert beyond what has    *)
(* been confirmed, keeps the bound,                                        *)
LEMMA CountsStay ==
  ASSUME MirrorInv, MirrorInv', NEW a \in Ids, Counts(a), OneAtATime(a), OneAtATime(a)',
         IsFiniteSet(Rows(a)'), Cardinality(Rows(a)') <= Cardinality(Rows(a)),
         \/ Inserting(a)' \subseteq Inserting(a) /\ Passed(a) <= Passed(a)'
         \/ Passed(a) + 1 <= Passed(a)'
  PROVE  Counts(a)'
<1>1. /\ Inserting(a) \in SUBSET Handlers /\ Inserting(a)' \in SUBSET Handlers
  BY DEF Inserting
<1>2. /\ Cardinality(Inserting(a)) \in Nat /\ Cardinality(Inserting(a)') \in Nat
      /\ Cardinality(Inserting(a)') <= Pool /\ Pool \in Nat
      /\ Inserting(a)' \subseteq Inserting(a)
           => Cardinality(Inserting(a)') <= Cardinality(Inserting(a))
  BY <1>1, PoolFacts
<1>3. /\ Cardinality(Rows(a)) \in Nat /\ Cardinality(Rows(a)') \in Nat
  BY FS_CardinalityType DEF Counts
<1>4. /\ Passed(a) \in Nat /\ Passed(a)' \in Nat
      /\ Pool * Passed(a) \in Nat
  <2>1. Passed(a) \in Nat /\ Pool * Passed(a) \in Nat
    BY PassedFacts DEF MirrorInv
  <2>2. due'[a] \in Nat /\ (users'[a].live => due'[a] # 0)
    BY DEF MirrorInv, TypeInv, OneAtATime
  <2> QED BY <2>1, <2>2 DEF Passed
<1>5. Pool * Passed(a)' \in Nat
  BY <1>2, <1>4
<1>6. Cardinality(Rows(a)) + Cardinality(Inserting(a)) <= Pool * Passed(a)
  BY DEF Counts
<1>7. CASE Inserting(a)' \subseteq Inserting(a) /\ Passed(a) <= Passed(a)'
  <2>1. Pool * Passed(a) <= Pool * Passed(a)'
    BY <1>4, <1>7, PoolTimes
  <2>2. Cardinality(Rows(a)') + Cardinality(Inserting(a)') <= Pool * Passed(a)'
    BY <1>2, <1>3, <1>4, <1>5, <1>6, <1>7, <2>1
  <2> QED BY <2>2 DEF Counts, Pool
<1>8. CASE Passed(a) + 1 <= Passed(a)'
  <2>1. Pool * Passed(a) + Pool <= Pool * Passed(a)'
    BY <1>4, <1>8, PoolTimes
  <2>2. Cardinality(Rows(a)') + Cardinality(Inserting(a)') <= Pool * Passed(a)'
    BY <1>2, <1>3, <1>4, <1>5, <1>6, <2>1
  <2> QED BY <2>2 DEF Counts, Pool
<1> QED BY <1>7, <1>8

(* and so does one that concerns another account.                          *)
LEMMA ElsewhereStays ==
  ASSUME BoundInv, MirrorInv', NEW a \in Ids, NEW b \in Ids, a # b, Only(b),
         due'[a] = due[a],
         IsFiniteSet(Rows(a)'), Cardinality(Rows(a)') <= Cardinality(Rows(a))
  PROVE  Counts(a)' /\ OneAtATime(a)'
<1>1. /\ users'[a] = users[a] /\ Counts(a) /\ OneAtATime(a)
      /\ \A h \in Handlers : (On(h, a)' <=> On(h, a)) /\ (On(h, a) => handler'[h] = handler[h])
  BY DEF Only, On, BoundInv
<1>2. OneAtATime(a)'
  BY <1>1 DEF OneAtATime
<1>3. Inserting(a)' \subseteq Inserting(a)
  BY <1>1 DEF Inserting, Clears
<1>4. Passed(a)' = Passed(a) /\ Passed(a) \in Nat
  BY <1>1, PassedFacts DEF Passed, Pending, BoundInv, MirrorInv
<1>5. Passed(a) <= Passed(a)'
  BY <1>4
<1> QED BY <1>1, <1>2, <1>3, <1>5, CountsStay DEF BoundInv

(* A step that leaves TB_User alone is judged by the account it concerns.  *)
LEMMA BoundByOne ==
  ASSUME BoundInv, MirrorInv', NEW b \in Ids, Only(b), UNCHANGED tb_user,
         \A a \in Ids \ {b} : due'[a] = due[a],
         OneAtATime(b)',
         \/ Inserting(b)' \subseteq Inserting(b) /\ Passed(b) <= Passed(b)'
         \/ Passed(b) + 1 <= Passed(b)'
  PROVE  BoundInv'
<1>1. \A a \in Ids : /\ Rows(a)' = Rows(a) /\ IsFiniteSet(Rows(a)')
                     /\ Cardinality(Rows(a)') <= Cardinality(Rows(a))
                     /\ Counts(a) /\ OneAtATime(a)
  <2> SUFFICES ASSUME NEW a \in Ids
               PROVE  /\ Rows(a)' = Rows(a) /\ IsFiniteSet(Rows(a)')
                      /\ Cardinality(Rows(a)') <= Cardinality(Rows(a))
                      /\ Counts(a) /\ OneAtATime(a)
    OBVIOUS
  <2>1. Rows(a)' = Rows(a)
    BY DEF Rows
  <2>2. Cardinality(Rows(a)) \in Nat
    BY FS_CardinalityType DEF BoundInv, Counts
  <2> QED BY <2>1, <2>2 DEF BoundInv, Counts
<1>2. \A a \in Ids \ {b} : Counts(a)' /\ OneAtATime(a)'
  BY <1>1, ElsewhereStays
<1>3. Counts(b)'
  BY <1>1, CountsStay DEF BoundInv
<1> QED BY <1>2, <1>3 DEF BoundInv

LEMMA SignUpBound ==
  ASSUME BoundInv, NEW b \in Ids, NEW n \in Names, NEW p \in Passwords, SignUp(b, n, p)
  PROVE  BoundInv'
<1>1. MirrorInv /\ MirrorInv'
  BY SignUpKeeps DEF BoundInv
<1> DEFINE new == [NoUser EXCEPT !.live = TRUE, !.name = n, !.password = p]
<1>2. /\ due[b] = 0 /\ users' = [users EXCEPT ![b] = new] /\ due' = [due EXCEPT ![b] = 1]
      /\ excused \subseteq excused' /\ tb_user' = tb_user /\ handler' = handler
  BY DEF SignUp
<1>3. new.live /\ ~new.confirmed /\ ~new.unconfirmed
  BY DEF NoUser
<1> HIDE DEF new
<1>4. /\ users'[b] = new /\ due'[b] = 1
      /\ \A a \in Ids \ {b} : users'[a] = users[a] /\ due'[a] = due[a]
  BY <1>1, <1>2 DEF MirrorInv, TypeInv
<1>5. ~users[b].live /\ \A h \in Handlers : ~On(h, b) /\ ~On(h, b)'
  BY <1>1, <1>2 DEF MirrorInv, FreshInv, On
<1>6. Only(b)
  BY <1>2, <1>4 DEF Only
<1>7. OneAtATime(b)'
  BY <1>3, <1>4, <1>5 DEF OneAtATime
<1>8. Inserting(b)' \subseteq Inserting(b)
  BY <1>5 DEF Inserting
<1>9. Passed(b) <= Passed(b)'
  <2>1. Passed(b) = 0
    BY <1>2, <1>5 DEF Passed
  <2>2. Passed(b)' = 0
    BY <1>3, <1>4 DEF Passed, Pending
  <2> QED BY <2>1, <2>2
<1> QED BY <1>1, <1>2, <1>4, <1>6, <1>7, <1>8, <1>9, BoundByOne

LEMMA AskResetBound ==
  ASSUME BoundInv, NEW b \in Ids, AskReset(b)
  PROVE  BoundInv'
<1>1. MirrorInv /\ MirrorInv'
  BY AskResetKeeps DEF BoundInv
<1>2. /\ users' = [users EXCEPT ![b].token = TRUE]
      /\ UNCHANGED <<tb_user, handler, due, worn, excused>>
  BY DEF AskReset
<1>3. /\ \A a \in Ids \ {b} : users'[a] = users[a]
      /\ users'[b].live = users[b].live
      /\ users'[b].confirmed = users[b].confirmed
      /\ users'[b].unconfirmed = users[b].unconfirmed
  BY <1>1, <1>2 DEF MirrorInv, TypeInv, UserRow
<1>4. Only(b) /\ OneAtATime(b)'
  BY <1>2, <1>3 DEF Only, BoundInv, OneAtATime, On
<1>5. Inserting(b)' \subseteq Inserting(b)
  BY <1>2, <1>3 DEF Inserting, Clears, On
<1>6. Passed(b)' = Passed(b) /\ Passed(b) \in Nat
  BY <1>1, <1>2, <1>3, PassedFacts DEF Passed, Pending, MirrorInv, BoundInv
<1>7. Passed(b) <= Passed(b)'
  BY <1>6
<1> QED BY <1>1, <1>2, <1>4, <1>5, <1>7, BoundByOne

LEMMA CancelBound ==
  ASSUME BoundInv, NEW b \in Ids, CancelRegistration(b)
  PROVE  BoundInv'
<1>1. MirrorInv /\ MirrorInv'
  BY CancelKeeps DEF BoundInv
<1>2. /\ users[b].live /\ users[b].confirmed
      /\ users' = [users EXCEPT ![b] = NoUser] /\ ~NoUser.live
      /\ UNCHANGED <<tb_user, handler, due, worn, excused>>
  BY DEF CancelRegistration, NoUser
<1>3. /\ \A a \in Ids \ {b} : users'[a] = users[a]
      /\ ~users'[b].live
  BY <1>1, <1>2 DEF MirrorInv, TypeInv
<1>4. Only(b) /\ OneAtATime(b)'
  BY <1>2, <1>3 DEF Only, OneAtATime
<1>5. Passed(b)' = due[b] /\ due[b] \in Nat
  BY <1>1, <1>2, <1>3 DEF Passed, MirrorInv, TypeInv
<1>6. CASE Pending(b)
  <2>1. Passed(b) + 1 <= Passed(b)'
    BY <1>2, <1>5, <1>6 DEF Passed
  <2> QED BY <1>1, <1>2, <1>4, <2>1, BoundByOne
<1>7. CASE ~Pending(b)
  <2>1. Passed(b) <= Passed(b)'
    BY <1>2, <1>5, <1>7 DEF Passed
  <2>2. Inserting(b)' \subseteq Inserting(b)
    BY <1>2, <1>7 DEF Inserting, Clears, On, Pending
  <2> QED BY <1>1, <1>2, <1>4, <2>1, <2>2, BoundByOne
<1> QED BY <1>6, <1>7

LEMMA LoadBound ==
  ASSUME BoundInv, MirrorInv', NEW h \in Handlers, NEW b \in Ids,
         NEW at \in {"confirm", "reset", "edit"}, NEW new \in UserRow,
         Load(h, at, b, new), at = "confirm" => Pending(b),
         at = "edit" => users[b].confirmed
  PROVE  BoundInv'
<1>1. /\ handler[h] = Idle /\ users[b].live
      /\ handler'[h] = [at |-> at, id |-> b, row |-> users[b], new |-> new]
      /\ handler'[h] # Idle
      /\ \A g \in Handlers \ {h} : handler'[g] = handler[g]
      /\ UNCHANGED <<users, tb_user, due>> /\ excused \subseteq excused'
  BY LoadFacts DEF BoundInv, MirrorInv
<1>2. handler'[h].at = at /\ handler'[h].id = b /\ handler'[h].row = users[b]
  BY <1>1
<1>3. Only(b)
  BY <1>1, <1>2 DEF Only
<1>4. OneAtATime(b)'
  BY <1>1, <1>2 DEF BoundInv, OneAtATime, On
<1>5. Inserting(b)' \subseteq Inserting(b)
  BY <1>1, <1>2 DEF Inserting, Clears, On, Pending
<1>6. Passed(b)' = Passed(b) /\ Passed(b) \in Nat
  BY <1>1, PassedFacts DEF Passed, Pending, MirrorInv, BoundInv
<1>7. Passed(b) <= Passed(b)'
  BY <1>6
<1> QED BY <1>1, <1>3, <1>4, <1>5, <1>7, BoundByOne

LEMMA GiveUpBound ==
  ASSUME BoundInv, NEW h \in Handlers, GiveUp(h)
  PROVE  BoundInv'
<1>1. MirrorInv /\ MirrorInv'
  BY GiveUpKeeps DEF BoundInv
<1> PICK b \in Ids : b = handler[h].id
  BY <1>1 DEF GiveUp, MirrorInv, TypeInv, Request
<1>2. /\ UNCHANGED <<users, tb_user, due>> /\ excused \subseteq excused'
      /\ handler'[h] = Idle /\ \A g \in Handlers \ {h} : handler'[g] = handler[g]
  BY <1>1, EndsFacts DEF GiveUp, MirrorInv
<1>3. Only(b)
  BY <1>2 DEF Only
<1>4. OneAtATime(b)'
  BY <1>2 DEF BoundInv, OneAtATime, On
<1>5. Inserting(b)' \subseteq Inserting(b)
  BY <1>2 DEF Inserting, Clears, On
<1>6. Passed(b)' = Passed(b) /\ Passed(b) \in Nat
  BY <1>1, <1>2, PassedFacts DEF Passed, Pending, MirrorInv, BoundInv
<1>7. Passed(b) <= Passed(b)'
  BY <1>6
<1> QED BY <1>1, <1>2, <1>3, <1>4, <1>5, <1>7, BoundByOne

LEMMA SaveConfirmBound ==
  ASSUME BoundInv, NEW h \in Handlers, NEW signed_in \in BOOLEAN, SaveConfirm(h, signed_in)
  PROVE  BoundInv'
<1>1. MirrorInv /\ MirrorInv'
  BY SaveConfirmKeeps DEF BoundInv
<1> PICK b \in Ids : b = handler[h].id
  BY <1>1, AtFacts DEF SaveConfirm, At, MirrorInv
<1> PICK loaded \in UserRow : loaded = handler[h].row
  BY <1>1, AtFacts DEF SaveConfirm, At, MirrorInv
<1> DEFINE saved == [users[b] EXCEPT !.confirmed = TRUE,
                                     !.unconfirmed = @ /\ ~loaded.unconfirmed]
<1>2. /\ handler[h] # Idle /\ On(h, b) /\ handler[h].at = "confirm"
      /\ loaded.unconfirmed \in BOOLEAN
  BY <1>1, AtFacts DEF SaveConfirm, At, MirrorInv, On, UserRow
<1>3. users[b] \in UserRow
  BY <1>1 DEF MirrorInv, TypeInv
<1>4. /\ saved \in UserRow /\ saved.live = users[b].live /\ saved.name = users[b].name
      /\ saved.confirmed
      /\ saved.unconfirmed <=> users[b].unconfirmed /\ ~loaded.unconfirmed
  BY <1>2, <1>3 DEF UserRow
<1> HIDE DEF saved
<1>5. /\ UNCHANGED <<tb_user, due>> /\ excused \subseteq excused'
      /\ \/ Written(b, saved) /\ (Ends(h) \/ Goes(h, "insert", loaded))
         \/ users' = users /\ Ends(h)
  BY DEF SaveConfirm, saved
<1>6. /\ \A g \in Handlers \ {h} : handler'[g] = handler[g]
      /\ \/ handler'[h] = Idle
         \/ handler'[h].at = "insert" /\ handler'[h].id = b /\ Written(b, saved)
  <2>1. CASE Ends(h)
    BY <1>1, <2>1, EndsFacts DEF MirrorInv
  <2>2. CASE Goes(h, "insert", loaded) /\ Written(b, saved)
    BY <1>1, <1>2, <2>2, GoesFacts DEF MirrorInv
  <2> QED BY <1>5, <2>1, <2>2
<1>7. Only(b)
  <2>1. \A a \in Ids \ {b} : users'[a] = users[a]
    BY <1>1, <1>5 DEF Written, MirrorInv, TypeInv
  <2> QED BY <1>2, <1>5, <1>6, <2>1 DEF Only, On
<1>8. CASE Written(b, saved) /\ users[b].live
  <2>1. users'[b] = saved
    BY <1>1, <1>8 DEF Written, MirrorInv, TypeInv
  <2>2. OneAtATime(b)'
    BY <1>4, <1>5, <1>8, <2>1 DEF OneAtATime, BoundInv
  <2>3. CASE Clears(h, b)
    <3>1. ~Pending(b)' /\ Pending(b)
      BY <1>4, <1>8, <2>1, <2>3 DEF Clears, Pending, BoundInv, OneAtATime
    <3>2. Passed(b) + 1 <= Passed(b)'
      BY <1>1, <1>5, <1>8, <3>1 DEF Passed, MirrorInv, TypeInv
    <3> QED BY <1>1, <1>5, <1>7, <2>2, <3>2, BoundByOne
  <2>4. CASE ~Clears(h, b)
    <3>1. /\ users'[b].live /\ users'[b].confirmed /\ users[b].confirmed
          /\ users'[b].unconfirmed <=> users[b].unconfirmed
      BY <1>4, <1>8, <2>1, <2>4 DEF Clears
    <3>2. Inserting(b)' \subseteq Inserting(b)
      BY <1>2, <1>6, <1>8, <2>4, <3>1 DEF Inserting, Clears, On
    <3>3. Passed(b)' = Passed(b) /\ Passed(b) \in Nat
      BY <1>1, <1>5, <1>8, <3>1, PassedFacts DEF Passed, Pending, MirrorInv, BoundInv
    <3>4. Passed(b) <= Passed(b)'
      BY <3>3
    <3> QED BY <1>1, <1>5, <1>7, <2>2, <3>2, <3>4, BoundByOne
  <2> QED BY <2>3, <2>4
<1>9. CASE users' = users /\ (handler'[h] = Idle \/ ~users[b].live)
  <2>1. Inserting(b)' \subseteq Inserting(b)
    BY <1>2, <1>6, <1>9 DEF Inserting, Clears, On
  <2>2. OneAtATime(b)'
    BY <1>5, <1>6, <1>9 DEF OneAtATime, BoundInv, On
  <2>3. Passed(b)' = Passed(b) /\ Passed(b) \in Nat
    BY <1>1, <1>5, <1>9, PassedFacts DEF Passed, Pending, MirrorInv, BoundInv
  <2>4. Passed(b) <= Passed(b)'
    BY <2>3
  <2> QED BY <1>1, <1>5, <1>7, <2>1, <2>2, <2>4, BoundByOne
<1>10. CASE Written(b, saved) /\ ~users[b].live
  BY <1>9, <1>10 DEF Written
<1>11. CASE users' = users /\ Ends(h)
  BY <1>1, <1>9, <1>11, EndsFacts DEF MirrorInv
<1> QED BY <1>5, <1>8, <1>10, <1>11

LEMMA SaveResetBound ==
  ASSUME BoundInv, NEW h \in Handlers, SaveReset(h)
  PROVE  BoundInv'
<1>1. MirrorInv /\ MirrorInv'
  BY SaveResetKeeps DEF BoundInv
<1> PICK b \in Ids : b = handler[h].id
  BY <1>1, AtFacts DEF SaveReset, At, MirrorInv
<1> PICK new \in UserRow : new = handler[h].new
  BY <1>1, AtFacts DEF SaveReset, At, MirrorInv
<1> DEFINE saved == PasswordSaved(h)
<1>2. handler[h] # Idle /\ handler[h] \in Request /\ handler[h].at = "reset" /\ On(h, b)
  BY <1>1, AtFacts DEF SaveReset, At, MirrorInv, On
<1>3. /\ saved.live = users[b].live /\ saved.confirmed = users[b].confirmed
      /\ saved.unconfirmed = users[b].unconfirmed
  BY <1>1, <1>2, PasswordSavedFacts DEF MirrorInv
<1> HIDE DEF saved
<1>4. /\ UNCHANGED <<tb_user, due, excused>> /\ Written(b, saved)
      /\ Ends(h) \/ Goes(h, "update", new)
  BY DEF SaveReset, saved
<1>5. /\ \A a \in Ids \ {b} : users'[a] = users[a]
      /\ users'[b].live = users[b].live
      /\ users'[b].confirmed = users[b].confirmed
      /\ users'[b].unconfirmed = users[b].unconfirmed
  BY <1>1, <1>3, <1>4 DEF Written, MirrorInv, TypeInv
<1>6. /\ \A g \in Handlers \ {h} : handler'[g] = handler[g]
      /\ handler'[h] = Idle \/ (handler'[h].at = "update" /\ handler'[h].id = b)
  <2>1. CASE Ends(h)
    BY <1>1, <2>1, EndsFacts DEF MirrorInv
  <2>2. CASE Goes(h, "update", new)
    BY <1>1, <1>2, <2>2, GoesFacts DEF MirrorInv
  <2> QED BY <1>4, <2>1, <2>2
<1>7. Only(b)
  BY <1>2, <1>4, <1>5, <1>6 DEF Only, On
<1>8. OneAtATime(b)'
  BY <1>4, <1>5, <1>6 DEF OneAtATime, BoundInv, On
<1>9. Inserting(b)' \subseteq Inserting(b)
  BY <1>5, <1>6 DEF Inserting, Clears, On
<1>10. Passed(b)' = Passed(b) /\ Passed(b) \in Nat
  BY <1>1, <1>4, <1>5, PassedFacts DEF Passed, Pending, MirrorInv, BoundInv
<1>11. Passed(b) <= Passed(b)'
  BY <1>10
<1> QED BY <1>1, <1>4, <1>7, <1>8, <1>9, <1>11, BoundByOne

LEMMA SaveProfileBound ==
  ASSUME BoundInv, NEW h \in Handlers, SaveProfile(h)
  PROVE  BoundInv'
<1>1. MirrorInv /\ MirrorInv'
  BY SaveProfileKeeps DEF BoundInv
<1> PICK b \in Ids : b = handler[h].id
  BY <1>1, AtFacts DEF SaveProfile, At, MirrorInv
<1> PICK old \in UserRow : old = handler[h].row
  BY <1>1, AtFacts DEF SaveProfile, At, MirrorInv
<1> PICK new \in UserRow : new = handler[h].new
  BY <1>1, AtFacts DEF SaveProfile, At, MirrorInv
<1> DEFINE email == new.unconfirmed /\ ~old.unconfirmed
           base == PasswordSaved(h)
           name == IF new.name = old.name THEN base.name ELSE new.name
           unconfirmed == base.unconfirmed \/ email
           saved == [base EXCEPT !.name = name, !.unconfirmed = unconfirmed]
<1>2. /\ handler[h] # Idle /\ handler[h] \in Request /\ On(h, b) /\ handler[h].at = "edit"
      /\ new.unconfirmed \in BOOLEAN /\ old.unconfirmed \in BOOLEAN
  BY <1>1, AtFacts DEF SaveProfile, At, MirrorInv, On, UserRow
<1>3. /\ base \in UserRow
      /\ base.live = users[b].live /\ base.confirmed = users[b].confirmed
      /\ base.unconfirmed = users[b].unconfirmed
  BY <1>1, <1>2, PasswordSavedFacts DEF MirrorInv
<1> HIDE DEF base
<1>4. /\ saved.live = users[b].live /\ saved.confirmed = users[b].confirmed
      /\ saved.unconfirmed <=> users[b].unconfirmed \/ email
  <2>1. unconfirmed \in BOOLEAN
    BY <1>2, <1>3 DEF UserRow
  <2> HIDE DEF name, unconfirmed
  <2>2. /\ saved.live = base.live /\ saved.confirmed = base.confirmed
        /\ saved.unconfirmed = unconfirmed
    BY <1>3, <2>1 DEF UserRow
  <2> HIDE DEF saved
  <2> QED BY <1>3, <2>1, <2>2 DEF unconfirmed
<1>5. \/ /\ Written(b, saved)
         /\ due' = IF email THEN [due EXCEPT ![b] = @ + 1] ELSE due
      \/ UNCHANGED <<users, due>>
  BY DEF SaveProfile, base
<1> HIDE DEF saved
<1>6. /\ UNCHANGED tb_user /\ excused \subseteq excused'
      /\ handler'[h] = Idle /\ \A g \in Handlers \ {h} : handler'[g] = handler[g]
  BY <1>1, EndsFacts DEF SaveProfile, MirrorInv
<1>7. /\ \A a \in Ids \ {b} : users'[a] = users[a] /\ due'[a] = due[a]
      /\ due'[b] \in Nat /\ due[b] \in Nat
      /\ users'[b].live = users[b].live
      /\ users'[b].confirmed = users[b].confirmed
      /\ \/ /\ users'[b].unconfirmed <=> users[b].unconfirmed
            /\ due[b] <= due'[b]
         \/ users'[b].unconfirmed /\ due'[b] = due[b] + 1
  <2>1. CASE UNCHANGED <<users, due>>
    BY <1>1, <2>1 DEF MirrorInv, TypeInv
  <2>2. CASE /\ Written(b, saved)
             /\ due' = IF email THEN [due EXCEPT ![b] = @ + 1] ELSE due
    <3>1. /\ \A a \in Ids \ {b} : due'[a] = due[a]
          /\ due[b] \in Nat /\ due'[b] = IF email THEN due[b] + 1 ELSE due[b]
      BY <1>1, <2>2 DEF MirrorInv, TypeInv
    <3>2. /\ \A a \in Ids \ {b} : users'[a] = users[a]
          /\ users[b].live => users'[b] = saved
          /\ ~users[b].live => users' = users
      BY <1>1, <2>2 DEF Written, MirrorInv, TypeInv
    <3> HIDE DEF email
    <3>3. CASE users[b].live
      <4>1. /\ users'[b].live = users[b].live
            /\ users'[b].confirmed = users[b].confirmed
            /\ users'[b].unconfirmed <=> users[b].unconfirmed \/ email
        BY <1>4, <3>2, <3>3
      <4>2. CASE email
        BY <3>1, <3>2, <4>1, <4>2
      <4>3. CASE ~email
        BY <3>1, <3>2, <4>1, <4>3
      <4> QED BY <4>2, <4>3
    <3>4. CASE ~users[b].live
      BY <3>1, <3>2, <3>4
    <3> QED BY <3>3, <3>4
  <2> QED BY <1>5, <2>1, <2>2
<1>8. Only(b)
  BY <1>2, <1>6, <1>7 DEF Only, On
<1>9. OneAtATime(b)'
  BY <1>2, <1>6, <1>7 DEF OneAtATime, BoundInv, On
<1>10. Inserting(b)' \subseteq Inserting(b)
  BY <1>6, <1>7 DEF Inserting, Clears, On
<1>11. Passed(b) <= Passed(b)'
  BY <1>7 DEF Passed, Pending
<1> QED BY <1>1, <1>6, <1>7, <1>8, <1>9, <1>10, <1>11, BoundByOne
-----------------------------------------------------------------------------
LEMMA InsertBound ==
  ASSUME BoundInv, NEW h \in Handlers, InsertGameUser(h)
  PROVE  BoundInv'
<1>1. MirrorInv /\ MirrorInv'
  BY InsertKeeps DEF BoundInv
<1> PICK b \in Ids : b = handler[h].id
  BY <1>1, AtFacts DEF InsertGameUser, At, MirrorInv
<1> DEFINE new == [n |-> Cardinality({row \in tb_user : row.of = b}) + 1, of |-> b,
                   name |-> handler[h].new.name, password |-> handler[h].new.password]
<1>2. /\ handler[h] # Idle /\ On(h, b) /\ handler[h].at = "insert"
      /\ tb_user' = tb_user \cup {new} /\ UNCHANGED <<users, due, excused>>
      /\ handler'[h] = Idle /\ \A g \in Handlers \ {h} : handler'[g] = handler[g]
  BY <1>1, AtFacts, EndsFacts DEF InsertGameUser, At, MirrorInv, On
<1>3. new.of = b
  OBVIOUS
<1> HIDE DEF new
<1>4. Rows(b)' = Rows(b) \cup {new} /\ \A a \in Ids \ {b} : Rows(a)' = Rows(a)
  BY <1>2, <1>3 DEF Rows
<1>5. Only(b)
  BY <1>2 DEF Only, On
<1>6. \A a \in Ids : IsFiniteSet(Rows(a)) /\ Cardinality(Rows(a)) \in Nat
  BY FS_CardinalityType DEF BoundInv, Counts
<1>7. \A a \in Ids \ {b} : Counts(a)' /\ OneAtATime(a)'
  <2> SUFFICES ASSUME NEW a \in Ids \ {b} PROVE Counts(a)' /\ OneAtATime(a)'
    OBVIOUS
  <2>1. IsFiniteSet(Rows(a)') /\ Cardinality(Rows(a)') <= Cardinality(Rows(a))
    BY <1>4, <1>6
  <2> QED BY <1>1, <1>2, <1>5, <2>1, ElsewhereStays
<1>8. OneAtATime(b)'
  BY <1>2 DEF OneAtATime, BoundInv, On
<1>9. Counts(b)'
  <2>1. /\ IsFiniteSet(Rows(b)')
        /\ Cardinality(Rows(b)') \in Nat /\ Cardinality(Rows(b)') <= Cardinality(Rows(b)) + 1
    <3>1. IsFiniteSet(Rows(b)) /\ Cardinality(Rows(b)) \in Nat
      BY <1>6
    <3>2. /\ IsFiniteSet(Rows(b) \cup {new})
          /\ Cardinality(Rows(b) \cup {new}) = IF new \in Rows(b) THEN Cardinality(Rows(b))
                                               ELSE Cardinality(Rows(b)) + 1
      BY <3>1, FS_AddElement
    <3> QED BY <1>4, <3>1, <3>2
  <2>2. /\ Inserting(b) \in SUBSET Handlers /\ h \in Inserting(b)
        /\ Inserting(b)' \subseteq Inserting(b) \ {h}
    BY <1>2 DEF Inserting, On, Clears
  <2>3. /\ Cardinality(Inserting(b)) \in Nat /\ Cardinality(Inserting(b)') \in Nat
        /\ Cardinality(Inserting(b)') <= Cardinality(Inserting(b)) - 1
    <3>1. IsFiniteSet(Inserting(b)) /\ Cardinality(Inserting(b)) \in Nat
      BY <2>2, PoolFacts
    <3>2. Cardinality(Inserting(b) \ {h}) = Cardinality(Inserting(b)) - 1
      BY <2>2, <3>1, FS_RemoveElement
    <3>3. /\ Inserting(b)' \in SUBSET Handlers /\ Inserting(b) \ {h} \in SUBSET Handlers
          /\ Inserting(b)' \subseteq Inserting(b) \ {h}
      BY <2>2
    <3>4. /\ Cardinality(Inserting(b)') \in Nat
          /\ Cardinality(Inserting(b)') <= Cardinality(Inserting(b) \ {h})
      BY <3>3, PoolFacts
    <3> QED BY <3>1, <3>2, <3>4
  <2>4. Passed(b)' = Passed(b) /\ Pool * Passed(b) \in Nat
    BY <1>1, <1>2, PassedFacts DEF Passed, Pending, MirrorInv, BoundInv
  <2>5. Cardinality(Rows(b)) + Cardinality(Inserting(b)) <= Pool * Passed(b)
    BY DEF BoundInv, Counts
  <2>6. Cardinality(Rows(b)') + Cardinality(Inserting(b)') <= Pool * Passed(b)
    BY <1>6, <2>1, <2>3, <2>4, <2>5
  <2> QED BY <2>1, <2>4, <2>6 DEF Counts, Pool
<1> QED BY <1>1, <1>7, <1>8, <1>9 DEF BoundInv

LEMMA UpdateBound ==
  ASSUME BoundInv, NEW h \in Handlers, UpdateGameUser(h)
  PROVE  BoundInv'
<1>1. MirrorInv /\ MirrorInv'
  BY UpdateKeeps DEF BoundInv
<1> PICK b \in Ids : b = handler[h].id
  BY <1>1, AtFacts DEF UpdateGameUser, At, MirrorInv
<1> DEFINE new == handler[h].new
           updated(row) == IF row.name = new.name THEN [row EXCEPT !.password = new.password]
                           ELSE row
<1>2. /\ handler[h] # Idle /\ On(h, b) /\ handler[h].at = "update"
      /\ tb_user' = {updated(row) : row \in tb_user} /\ UNCHANGED <<users, due, excused>>
      /\ handler'[h] = Idle /\ \A g \in Handlers \ {h} : handler'[g] = handler[g]
  BY <1>1, AtFacts, EndsFacts DEF UpdateGameUser, At, MirrorInv, On
<1>3. \A row \in tb_user : updated(row).of = row.of
  <2> SUFFICES ASSUME NEW row \in tb_user PROVE updated(row).of = row.of
    OBVIOUS
  <2>1. row = [n |-> row.n, of |-> row.of, name |-> row.name, password |-> row.password]
    BY <1>1 DEF MirrorInv, TypeInv, IsGameRow
  <2> QED BY <2>1
<1> HIDE DEF new, updated
<1>4. ASSUME NEW a \in Ids
      PROVE  IsFiniteSet(Rows(a)') /\ Cardinality(Rows(a)') <= Cardinality(Rows(a))
  <2>1. Rows(a)' = {updated(row) : row \in Rows(a)}
    BY <1>2, <1>3 DEF Rows
  <2>2. [row \in Rows(a) |-> updated(row)] \in Surjection(Rows(a), Rows(a)')
    BY <2>1 DEF Surjection
  <2>3. IsFiniteSet(Rows(a))
    BY DEF BoundInv, Counts
  <2> QED BY <2>2, <2>3, FS_Surjection
<1>5. Only(b)
  BY <1>2 DEF Only, On
<1>6. \A a \in Ids \ {b} : Counts(a)' /\ OneAtATime(a)'
  BY <1>1, <1>2, <1>4, <1>5, ElsewhereStays
<1>7. OneAtATime(b)'
  BY <1>2 DEF OneAtATime, BoundInv, On
<1>8. Counts(b)'
  <2>1. Inserting(b)' \subseteq Inserting(b)
    BY <1>2 DEF Inserting, On, Clears
  <2>2. Passed(b)' = Passed(b) /\ Passed(b) \in Nat
    BY <1>1, <1>2, PassedFacts DEF Passed, Pending, MirrorInv, BoundInv
  <2>3. Passed(b) <= Passed(b)'
    BY <2>2
  <2> QED BY <1>1, <1>4, <1>7, <2>1, <2>3, CountsStay DEF BoundInv
<1> QED BY <1>1, <1>6, <1>7, <1>8 DEF BoundInv
-----------------------------------------------------------------------------
LEMMA BoundInit == AccountsInit => BoundInv
<1> SUFFICES ASSUME AccountsInit PROVE BoundInv
  OBVIOUS
<1>1. \A a \in Ids : users[a] = NoUser /\ ~users[a].live /\ due[a] = 0
  BY DEF AccountsInit, NoUser
<1>2. tb_user = {} /\ \A h \in Handlers : handler[h] = Idle
  BY DEF AccountsInit
<1>3. ASSUME NEW a \in Ids PROVE Counts(a) /\ OneAtATime(a)
  <2>1. Rows(a) = {} /\ Inserting(a) = {} /\ Passed(a) = 0
    BY <1>1, <1>2 DEF Rows, Inserting, On, Passed
  <2>2. IsFiniteSet(Rows(a)) /\ Cardinality(Rows(a)) = 0 /\ Cardinality(Inserting(a)) = 0
    BY <2>1, FS_EmptySet
  <2>3. Counts(a)
    BY <2>1, <2>2, PoolFacts DEF Counts
  <2> QED BY <1>1, <1>2, <2>3 DEF OneAtATime, On
<1> QED BY <1>3, MirrorInit DEF BoundInv

LEMMA BoundStep == BoundInv /\ [AccountsNext]_accountvars => BoundInv'
<1> SUFFICES ASSUME BoundInv, [AccountsNext]_accountvars PROVE BoundInv'
  OBVIOUS
<1>0. MirrorInv /\ MirrorInv'
  BY MirrorStep DEF BoundInv
<1>1. ASSUME NEW a \in Ids, NEW n \in Names, NEW p \in Passwords, SignUp(a, n, p)
      PROVE  BoundInv'
  BY <1>1, SignUpBound
<1>2. ASSUME NEW a \in Ids, AskReset(a) PROVE BoundInv'
  BY <1>2, AskResetBound
<1>3. ASSUME NEW a \in Ids, CancelRegistration(a) PROVE BoundInv'
  BY <1>3, CancelBound
<1>4. ASSUME NEW h \in Handlers, NEW a \in Ids, Confirm(h, a) PROVE BoundInv'
  <2>1. Load(h, "confirm", a, NoUser) /\ Pending(a)
    BY <1>4 DEF Confirm
  <2> QED BY <1>0, <2>1, IdleIsNot, LoadBound
<1>5. ASSUME NEW h \in Handlers, NEW a \in Ids, NEW p \in Passwords, Reset(h, a, p)
      PROVE  BoundInv'
  <2> DEFINE new == [users[a] EXCEPT !.password = p]
  <2>1. new \in UserRow
    BY DEF BoundInv, MirrorInv, TypeInv, UserRow
  <2>2. Load(h, "reset", a, new)
    BY <1>5 DEF Reset
  <2> PICK fixed \in UserRow : fixed = new
    BY <2>1
  <2> HIDE DEF new
  <2> QED BY <1>0, <2>2, LoadBound
<1>6. ASSUME NEW h \in Handlers, NEW a \in Ids, NEW n \in Names, NEW p \in Passwords,
             NEW email \in BOOLEAN, EditProfile(h, a, n, p, email)
      PROVE  BoundInv'
  <2> DEFINE new == [users[a] EXCEPT !.name = n, !.password = p,
                                     !.unconfirmed = @ \/ email]
  <2>1. new \in UserRow
    BY DEF BoundInv, MirrorInv, TypeInv, UserRow
  <2>2. Load(h, "edit", a, new) /\ users[a].confirmed
    BY <1>6 DEF EditProfile
  <2> PICK fixed \in UserRow : fixed = new
    BY <2>1
  <2> HIDE DEF new
  <2> QED BY <1>0, <2>2, LoadBound
<1>7. ASSUME NEW h \in Handlers, NEW signed_in \in BOOLEAN, SaveConfirm(h, signed_in)
      PROVE  BoundInv'
  BY <1>7, SaveConfirmBound
<1>8. ASSUME NEW h \in Handlers, InsertGameUser(h) PROVE BoundInv'
  BY <1>8, InsertBound
<1>9. ASSUME NEW h \in Handlers, SaveReset(h) PROVE BoundInv'
  BY <1>9, SaveResetBound
<1>10. ASSUME NEW h \in Handlers, UpdateGameUser(h) PROVE BoundInv'
  BY <1>10, UpdateBound
<1>11. ASSUME NEW h \in Handlers, SaveProfile(h) PROVE BoundInv'
  BY <1>11, SaveProfileBound
<1>12. ASSUME NEW h \in Handlers, GiveUp(h) PROVE BoundInv'
  BY <1>12, GiveUpBound
<1>13. CASE UNCHANGED accountvars
  BY <1>0, <1>13 DEF accountvars, BoundInv, Counts, OneAtATime, Rows, Inserting, On, Clears,
                     Passed, Pending
<1> QED
  BY <1>1, <1>2, <1>3, <1>4, <1>5, <1>6, <1>7, <1>8, <1>9, <1>10, <1>11, <1>12,
     <1>13 DEF AccountsNext

(* However often the mailed links are followed at once, at most one game   *)
(* account per thread is inserted for every confirmation asked for         *)
(* (confirmations_controller.rb:22); with one thread, one.                 *)
THEOREM GameAccountsBounded == AccountsSpec => []GameUsersBounded
<1>1. BoundInv => GameUsersBounded
  <2> SUFFICES ASSUME BoundInv, NEW a \in Ids
               PROVE  Cardinality({row \in tb_user : row.of = a})
                        <= Cardinality(Handlers) * due[a]
    BY DEF GameUsersBounded
  <2>1. /\ Cardinality(Rows(a)) \in Nat /\ Cardinality(Inserting(a)) \in Nat
        /\ Cardinality(Rows(a)) + Cardinality(Inserting(a)) <= Pool * Passed(a)
    BY FS_CardinalityType, PoolFacts DEF BoundInv, Counts, Inserting
  <2>2. Passed(a) \in Nat /\ due[a] \in Nat /\ Passed(a) <= due[a]
    BY PassedFacts DEF BoundInv, MirrorInv, TypeInv, Passed
  <2>3. Pool * Passed(a) <= Pool * due[a] /\ Pool * Passed(a) \in Nat /\ Pool * due[a] \in Nat
    BY <2>2, PoolTimes, PoolFacts
  <2>4. Cardinality(Rows(a)) <= Pool * due[a]
    BY <2>1, <2>3
  <2> QED BY <2>4 DEF Rows, Pool
<1> QED
  BY BoundInit, BoundStep, <1>1, PTL DEF AccountsSpec
=============================================================================

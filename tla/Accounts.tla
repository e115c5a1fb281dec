------------------------------ MODULE Accounts ------------------------------
(***************************************************************************)
(* Accounts of the website and their mirror in the game's account database *)
(* (app/controllers/user/: registrations, confirmations and passwords, on  *)
(* Devise 4.4).  users is SQLite's table, tb_user the game's TB_User.  The *)
(* game account is inserted after an e-mail address was confirmed, with    *)
(* what the handler loaded before, and a password that is reset is written *)
(* to both tables, one after the other; nothing else reaches TB_User.      *)
(*                                                                         *)
(* A save is one atomic step (module UserSaves).  Tokens are taken to be   *)
(* presented by whoever was mailed them.                                   *)
(***************************************************************************)
EXTENDS Naturals, FiniteSets

CONSTANTS
  Ids,        (* primary keys of users, never given again                  *)
  Names,      (* usernames up to case                                      *)
  Passwords,  (* encrypted passwords                                       *)
  Handlers,   (* request threads: a pool of fixed size                     *)
  MaxDue      (* bound: confirmations asked for                            *)

ASSUME AccountsAssumption == IsFiniteSet(Handlers) /\ MaxDue \in Nat

VARIABLES
  users,      (* rows of users                                             *)
  tb_user,    (* rows of TB_User: the n-th that was inserted for account of*)
  handler,    (* what each thread is about to do, and what it has loaded   *)
  (* History.                                                              *)
  due,        (* confirmations asked for: at sign-up, with every new e-mail*)
  worn,       (* usernames that some account has had                       *)
  excused     (* accounts whose mirror may differ, see MirrorFollows       *)

accountvars == <<users, tb_user, handler, due, worn, excused>>

\* unconfirmed: the column unconfirmed_email is set; token: that of a reset
NoUser == [live |-> FALSE, name |-> {}, password |-> {}, confirmed |-> FALSE,
           unconfirmed |-> FALSE, token |-> FALSE]
Idle == [at |-> "idle"]

AccountsInit ==
  /\ users = [a \in Ids |-> NoUser] /\ tb_user = {}
  /\ handler = [h \in Handlers |-> Idle]
  /\ due = [a \in Ids |-> 0] /\ worn = {} /\ excused = {}

\* another confirmation may be asked for
MayAsk ==
  Cardinality({asked \in Ids \X (1..MaxDue) : asked[2] <= due[asked[1]]})
    + Cardinality({h \in Handlers : handler[h].at = "edit"
                     /\ handler[h].new.unconfirmed}) < MaxDue

Busy(a) == \E h \in Handlers : handler[h] # Idle /\ handler[h].id = a

\* thread h loads the row of a, to change it to new
Load(h, at, a, new) ==
  /\ handler[h] = Idle /\ users[a].live
  /\ handler' = [handler EXCEPT ![h] = [at |-> at, id |-> a, row |-> users[a],
                                        new |-> new]]
  /\ excused' = IF Busy(a) THEN excused \cup {a} ELSE excused
  /\ UNCHANGED <<users, tb_user, due, worn>>

\* goes on with the username and password of row
Goes(h, at, row) ==
  handler' = [handler EXCEPT ![h] =
                [at |-> at, id |-> handler[h].id, row |-> NoUser,
                 new |-> [NoUser EXCEPT !.name = row.name, !.password = row.password]]]
Ends(h) == handler' = [handler EXCEPT ![h] = Idle]
At(h, at) == handler[h].at = at

\* a row that was deleted meanwhile is not written, and save returns true
Written(a, row) == users' = IF users[a].live THEN [users EXCEPT ![a] = row] ELSE users

NameFree(n, a) == \A b \in Ids \ {a} : users[b].live => users[b].name # n
-----------------------------------------------------------------------------
(* Devise's sign-up: the row, its confirmation mailed.                     *)
SignUp(a, n, p) ==
  /\ due[a] = 0 /\ MayAsk /\ NameFree(n, a)
  /\ users' = [users EXCEPT ![a] = [NoUser EXCEPT !.live = TRUE, !.name = n,
                                                  !.password = p]]
  /\ due' = [due EXCEPT ![a] = 1]
  /\ worn' = worn \cup {n}
  /\ excused' = IF n \in worn THEN excused \cup {a} ELSE excused
  /\ UNCHANGED <<tb_user, handler>>

Pending(a) == ~users[a].confirmed \/ users[a].unconfirmed

(* Faulty variant: an account that is confirmed already is confirmed again.*)
ConfirmAgain(h, a) == Load(h, "confirm", a, NoUser)

(* Devise's confirm: whether anything is to be confirmed is asked of the   *)
(* loaded row; the mailed token stays good.                                *)
Confirm(h, a) ==
  /\ Pending(a)
  /\ Load(h, "confirm", a, NoUser)

(* A new address is saved with validations, which may refuse it; then the  *)
(* hook inserts nothing if the browser is signed in, as whomever.          *)
SaveConfirm(h, signed_in) ==
  LET a == handler[h].id
      reconfirms == handler[h].row.unconfirmed
  IN  /\ At(h, "confirm")
      /\ \/ /\ Written(a, [users[a] EXCEPT !.confirmed = TRUE,
                             !.unconfirmed = @ /\ ~reconfirms])
            /\ IF signed_in THEN Ends(h)
                            ELSE Goes(h, "insert", handler[h].row)
            /\ excused' = IF signed_in \/ reconfirms THEN excused \cup {a}
                                                     ELSE excused
         \/ reconfirms /\ Ends(h) /\ UNCHANGED <<users, excused>>
      /\ UNCHANGED <<tb_user, due, worn>>

(* after_confirmation_path_for inserts what was loaded.                    *)
InsertGameUser(h) ==
  LET a == handler[h].id
      loaded == handler[h].new
  IN  /\ At(h, "insert") /\ Ends(h)
      /\ tb_user' = tb_user \cup
           {[n |-> Cardinality({row \in tb_user : row.of = a}) + 1, of |-> a,
             name |-> loaded.name, password |-> loaded.password]}
      /\ UNCHANGED <<users, due, worn, excused>>
-----------------------------------------------------------------------------
(* Resetting a password: by the mail asked for, then the form.             *)
AskReset(a) ==
  /\ users[a].live /\ ~users[a].token
  /\ users' = [users EXCEPT ![a].token = TRUE]
  /\ UNCHANGED <<tb_user, handler, due, worn, excused>>

Reset(h, a, p) ==
  /\ users[a].token
  /\ Load(h, "reset", a, [users[a] EXCEPT !.password = p])

(* Columns that do not differ from those loaded are not written.  A new    *)
(* password makes the token invalid.                                       *)
PasswordSaved(h) ==
  LET old == handler[h].row.password
      new == handler[h].new.password
      now == users[handler[h].id]
  IN  IF new = old THEN now ELSE [now EXCEPT !.password = new, !.token = FALSE]

(* Faulty variant: the handler answers before it updates the game account. *)
SaveResetOnly(h) ==
  /\ At(h, "reset") /\ Ends(h)
  /\ Written(handler[h].id, PasswordSaved(h))
  /\ UNCHANGED <<tb_user, due, worn, excused>>

(* Signing in after the reset ends the request of an unconfirmed account.  *)
SaveReset(h) ==
  /\ At(h, "reset")
  /\ Written(handler[h].id, PasswordSaved(h))
  /\ IF handler[h].row.confirmed THEN Goes(h, "update", handler[h].new)
                                 ELSE Ends(h)
  /\ UNCHANGED <<tb_user, due, worn, excused>>

(* after_resetting_password_path_for: the rows of the loaded username.     *)
UpdateGameUser(h) ==
  LET new == handler[h].new
  IN  /\ At(h, "update") /\ Ends(h)
      /\ tb_user' = {IF row.name = new.name THEN [row EXCEPT !.password = new.password]
                     ELSE row : row \in tb_user}
      /\ UNCHANGED <<users, due, worn, excused>>
-----------------------------------------------------------------------------
(* Editing the profile, of which TB_User hears nothing.                    *)
EditProfile(h, a, n, p, email) ==
  /\ users[a].confirmed
  /\ email => MayAsk
  /\ Load(h, "edit", a, [users[a] EXCEPT !.name = n, !.password = p,
                                         !.unconfirmed = @ \/ email])

SaveProfile(h) ==
  LET a == handler[h].id
      old == handler[h].row
      new == handler[h].new
      email == new.unconfirmed /\ ~old.unconfirmed
      mirrored == new.name = old.name /\ new.password = old.password
      saved == [PasswordSaved(h) EXCEPT
                  !.name = IF new.name = old.name THEN @ ELSE new.name,
                  !.unconfirmed = @ \/ email]
  IN  /\ At(h, "edit") /\ Ends(h)
      /\ IF NameFree(new.name, a)
         THEN /\ Written(a, saved)
              /\ due' = IF email THEN [due EXCEPT ![a] = @ + 1] ELSE due
              /\ worn' = worn \cup {new.name}
              /\ excused' = IF mirrored THEN excused ELSE excused \cup {a}
         ELSE UNCHANGED <<users, due, worn, excused>>
      /\ UNCHANGED tb_user

(* Devise's DELETE /users; the game account stays.                         *)
CancelRegistration(a) ==
  /\ users[a].live /\ users[a].confirmed
  /\ users' = [users EXCEPT ![a] = NoUser]
  /\ UNCHANGED <<tb_user, handler, due, worn, excused>>

(* A call raises, or the server stops: the handler ends where it is.       *)
GiveUp(h) ==
  /\ handler[h] # Idle /\ Ends(h)
  /\ excused' = IF At(h, "insert") \/ At(h, "update")
                THEN excused \cup {handler[h].id} ELSE excused
  /\ UNCHANGED <<users, tb_user, due, worn>>
-----------------------------------------------------------------------------
AccountsNext ==
  \/ \E a \in Ids :
       \/ \E n \in Names, p \in Passwords : SignUp(a, n, p)
       \/ AskReset(a) \/ CancelRegistration(a)
  \/ \E h \in Handlers, a \in Ids :
       \/ Confirm(h, a)
       \/ \E p \in Passwords : Reset(h, a, p)
       \/ \E n \in Names, p \in Passwords, email \in BOOLEAN :
            EditProfile(h, a, n, p, email)
  \/ \E h \in Handlers :
       \/ \E signed_in \in BOOLEAN : SaveConfirm(h, signed_in)
       \/ InsertGameUser(h) \/ SaveReset(h) \/ UpdateGameUser(h) \/ SaveProfile(h)
       \/ GiveUp(h)

AccountsSpec == AccountsInit /\ [][AccountsNext]_accountvars
-----------------------------------------------------------------------------
(* Properties.                                                             *)

(* A confirmed account has exactly one game account, with its username and *)
(* its password, whenever no handler is changing it: unless two handlers   *)
(* overlapped on it, one raised between its two writes, the profile was    *)
(* edited, an address was confirmed by a browser that was signed in or for *)
(* the second time, or somebody had the username before.                   *)
MirrorFollows ==
  \A a \in Ids :
    users[a].live /\ users[a].confirmed /\ ~Busy(a) /\ a \notin excused =>
      {row \in tb_user : row.name = users[a].name} =
        {[n |-> 1, of |-> a, name |-> users[a].name,
          password |-> users[a].password]}

(* However often the mailed links are followed at once, at most one game   *)
(* account is inserted per thread for every confirmation asked for.        *)
GameUsersBounded ==
  \A a \in Ids :
    Cardinality({row \in tb_user : row.of = a}) <= Cardinality(Handlers) * due[a]
=============================================================================

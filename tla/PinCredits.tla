----------------------------- MODULE PinCredits -----------------------------
(***************************************************************************)
(* The credit economy of the site.  A seller's account holds credit (the   *)
(* pins column of the SQLite users table).  An administrator tops it up    *)
(* (AdminController#add_pins) and grants or revokes the seller role        *)
(* (UsersController#be_seller); a seller buys charge codes with it         *)
(* (PreferencesController#generate_code), rows of the _EPINS table of the  *)
(* MSSQL account database; a player charges a code (#charge_code).         *)
(*                                                                         *)
(* Requests are served by Puma threads.  Each handler loads a users row    *)
(* into memory, computes, and writes the columns it changed in a later     *)
(* transaction, so a request is a sequence of steps and the steps of       *)
(* several requests interleave.  Active Record writes changed columns      *)
(* only: a save that assigns a column the value it was loaded with issues  *)
(* no UPDATE at all.  Every step may instead raise (a busy SQLite file, a  *)
(* failed MSSQL call, a worker restart), which ends the request where it   *)
(* is; nothing undoes the steps before.                                    *)
(***************************************************************************)
EXTENDS EpinCatalogue, FiniteSets, FiniteSetsExt

CONSTANTS
  Threads,       (* Puma's request threads                                 *)
  Packages,      (* values of params[:package].to_i                        *)
  Amounts,       (* values of params[:Npins].to_f, in whole credits        *)
  Unsaveable,    (* users whose row fails User's validations: rows older   *)
                 (* than the username and name columns                     *)
  Faults,        (* may steps raise?                                       *)
  MaxFunding     (* bound: no top-up starts beyond this much per account   *)

ASSUME PinCreditsAssumption ==
  /\ Packages \subseteq Int
  /\ Amounts \subseteq Int
  /\ Unsaveable \subseteq Users
  /\ Faults \in BOOLEAN
  /\ MaxFunding \in Nat

VARIABLES
  pins,        (* users.pins                                               *)
  seller,      (* users.seller                                             *)
  epins,       (* the _EPINS table                                         *)
  at,          (* where each thread is in its handler                      *)
  req,         (* what each thread's handler holds in memory               *)
  \* History of the steps taken; no action's guard reads these except for
  \* the bound on top-ups and the freshness of generated codes.
  funded,      (* credit added to each account                             *)
  paid,        (* credit each account has paid for codes                   *)
  forfeited,   (* credit revocations have taken from each account          *)
  receipts     (* codes whose price has been taken                         *)

rows    == <<pins, seller, epins>>
control == <<at, req>>
history == <<funded, paid, forfeited, receipts>>
vars    == <<rows, control, history>>

(* The columns a handler holds of the users row it loaded.                 *)
LoadedRow == [pins: Int, seller: BOOLEAN]
Row(u)    == [pins |-> pins[u], seller |-> seller[u]]

Purchase   == [user: Users, row: LoadedRow, package: Packages, code: Codes]
TopUp      == [user: Users, row: LoadedRow, amount: Nat]
RoleChange == [user: Users, row: LoadedRow]
NoRequest  == <<>>

PurchasePoints == {"lookup", "save", "insert"}
RolePoints     == {"grant", "revoke", "forfeit"}
Points         == {"idle", "write"} \cup PurchasePoints \cup RolePoints

Begin(t, point, request) ==
  /\ at[t] = "idle"
  /\ at'  = [at EXCEPT ![t] = point]
  /\ req' = [req EXCEPT ![t] = request]

Goto(t, from, to) ==
  /\ at[t] = from
  /\ at' = [at EXCEPT ![t] = to]
  /\ UNCHANGED req

Answer(t, from) ==
  /\ at[t] = from
  /\ at'  = [at EXCEPT ![t] = "idle"]
  /\ req' = [req EXCEPT ![t] = NoRequest]

Init ==
  /\ pins      = [u \in Users |-> 0]
  /\ seller    = [u \in Users |-> FALSE]
  /\ epins     = {}
  /\ at        = [t \in Threads |-> "idle"]
  /\ req       = [t \in Threads |-> NoRequest]
  /\ funded    = [u \in Users |-> 0]
  /\ paid      = [u \in Users |-> 0]
  /\ forfeited = [u \in Users |-> 0]
  /\ receipts  = {}
-----------------------------------------------------------------------------
(***************************************************************************)
(* generate_code.  CouponCode.generate draws a code at random and the      *)
(* controller does not look it up, so that codes do not repeat is the      *)
(* generator's promise: a code is fresh.                                   *)
(***************************************************************************)
Fresh(c) ==
  /\ c \notin receipts
  /\ \A row \in epins : row.code # c
  /\ \A t \in Threads : at[t] \in PurchasePoints => req[t].code # c

(* Faulty variant: the before_action require_seller is missing.            *)
GenerateCodeForAnyone(t, u, p, c) ==
  /\ Fresh(c)
  /\ Begin(t, "lookup", [user |-> u, row |-> Row(u), package |-> p, code |-> c])
  /\ UNCHANGED <<rows, history>>

(* authenticate_user! loads the row, require_seller reads it.  The check   *)
(* of the package sets a flash and a redirect but does not return, so the  *)
(* handler goes on with any package.                                       *)
GenerateCode(t, u, p, c) ==
  /\ seller[u]
  /\ Fresh(c)
  /\ Begin(t, "lookup", [user |-> u, row |-> Row(u), package |-> p, code |-> c])
  /\ UNCHANGED <<rows, history>>

(* Faulty variant: the comparison with the price is missing.               *)
FindAccountOnCredit(t) ==
  /\ at[t] = "lookup"
  /\ \/ req[t].package \in Indices /\ Goto(t, "lookup", "save")
     \/ req[t].package \notin Indices /\ Answer(t, "lookup")
  /\ UNCHANGED <<rows, history>>

(* The seller's TB_User row has been found.  A nil price raises in the     *)
(* comparison; too little credit in the loaded row is answered as such.    *)
FindAccount(t) ==
  LET r == req[t]
      affordable == r.package \in Indices /\ r.row.pins >= Price(r.package) IN
  /\ at[t] = "lookup"
  /\ \/ affordable /\ Goto(t, "lookup", "save")
     \/ ~affordable /\ Answer(t, "lookup")
  /\ UNCHANGED <<rows, history>>

(* current_user.save: pins is written from the loaded row if the price     *)
(* changes it and the row is valid.  The result of save is not looked at.  *)
SavePins(t) ==
  LET r == req[t]
      u == r.user
      saved == u \notin Unsaveable IN
  /\ Goto(t, "save", "insert")
  /\ pins' = IF saved /\ Price(r.package) # 0
               THEN [pins EXCEPT ![u] = r.row.pins - Price(r.package)] ELSE pins
  /\ paid' = IF saved THEN [paid EXCEPT ![u] = @ + Price(r.package)] ELSE paid
  /\ receipts' = IF saved THEN receipts \cup {r.code} ELSE receipts
  /\ UNCHANGED <<seller, epins, funded, forfeited>>

(* The row reaches _EPINS.  For a package the check had called invalid the *)
(* redirect that follows raises DoubleRenderError, after the row is there. *)
InsertEpin(t) ==
  LET r == req[t] IN
  /\ Answer(t, "insert")
  /\ epins' = epins \cup {NewEpin(r.code, r.user, r.package)}
  /\ UNCHANGED <<pins, seller, history>>

(***************************************************************************)
(* charge_code: one call of the stored procedure _AddSilkASYNCByWebEPIN,   *)
(* which charges a code that exists and has not been charged and answers   *)
(* with an error code otherwise.                                           *)
(***************************************************************************)
ChargeCode(u, c) ==
  /\ epins' = Charged(epins, c, u)
  /\ UNCHANGED <<pins, seller, control, history>>
-----------------------------------------------------------------------------
(* Faulty variant: negative amounts are not refused.                       *)
AddPinsUnchecked(t, u, n) ==
  /\ funded[u] + n <= MaxFunding
  /\ Begin(t, "write", [user |-> u, row |-> Row(u), amount |-> n])
  /\ UNCHANGED <<rows, history>>

(***************************************************************************)
(* add_pins.  A negative amount is refused.  The handler does not check    *)
(* that the account is a seller's; update_attribute skips the validations  *)
(* and writes nothing when the value has not changed.                      *)
(***************************************************************************)
AddPins(t, u, n) ==
  /\ n >= 0
  /\ funded[u] + n <= MaxFunding
  /\ Begin(t, "write", [user |-> u, row |-> Row(u), amount |-> n])
  /\ UNCHANGED <<rows, history>>

(* Faulty variant: the amount replaces the credit.                         *)
WritePinsOver(t) ==
  LET r == req[t] IN
  /\ Answer(t, "write")
  /\ pins' = [pins EXCEPT ![r.user] = r.amount]
  /\ funded' = [funded EXCEPT ![r.user] = @ + r.amount]
  /\ UNCHANGED <<seller, epins, paid, forfeited, receipts>>

WritePins(t) ==
  LET r == req[t] IN
  /\ Answer(t, "write")
  /\ pins' = IF r.amount # 0
               THEN [pins EXCEPT ![r.user] = r.row.pins + r.amount] ELSE pins
  /\ funded' = [funded EXCEPT ![r.user] = @ + r.amount]
  /\ UNCHANGED <<seller, epins, paid, forfeited, receipts>>

(***************************************************************************)
(* be_seller: toggles the role the loaded row shows.  A revocation is two  *)
(* transactions, the role first and the credit second.                     *)
(***************************************************************************)
BeSeller(t, u) ==
  /\ Begin(t, IF seller[u] THEN "revoke" ELSE "grant", [user |-> u, row |-> Row(u)])
  /\ UNCHANGED <<rows, history>>

(* Faulty variant: update_attribute, which skips the validations, in place *)
(* of update.                                                              *)
SetSellerUnvalidated(u, flag) == seller' = [seller EXCEPT ![u] = flag]

SetSeller(u, flag) ==
  seller' = IF u \in Unsaveable THEN seller ELSE [seller EXCEPT ![u] = flag]

GrantSeller(t) ==
  /\ Answer(t, "grant")
  /\ SetSeller(req[t].user, TRUE)
  /\ UNCHANGED <<pins, epins, history>>

RevokeSeller(t) ==
  /\ Goto(t, "revoke", "forfeit")
  /\ SetSeller(req[t].user, FALSE)
  /\ UNCHANGED <<pins, epins, history>>

(* pins = 0 and save: no UPDATE when the loaded row already had no credit. *)
ForfeitPins(t) ==
  LET u == req[t].user
      written == u \notin Unsaveable /\ req[t].row.pins # 0 IN
  /\ Answer(t, "forfeit")
  /\ pins' = IF written THEN [pins EXCEPT ![u] = 0] ELSE pins
  /\ forfeited' = IF written THEN [forfeited EXCEPT ![u] = @ + pins[u]] ELSE forfeited
  /\ UNCHANGED <<seller, epins, funded, paid, receipts>>
-----------------------------------------------------------------------------
(* A step raises, or the server is restarted: the request is gone.         *)
Raise(t) ==
  /\ Faults
  /\ at[t] # "idle"
  /\ Answer(t, at[t])
  /\ UNCHANGED <<rows, history>>

Step(t) ==
  \/ FindAccount(t) \/ SavePins(t) \/ InsertEpin(t)
  \/ WritePins(t)
  \/ GrantSeller(t) \/ RevokeSeller(t) \/ ForfeitPins(t)

Next ==
  \/ \E t \in Threads :
       \/ Step(t)
       \/ Raise(t)
       \/ \E u \in Users, p \in Packages, c \in Codes : GenerateCode(t, u, p, c)
       \/ \E u \in Users, n \in Amounts : AddPins(t, u, n)
       \/ \E u \in Users : BeSeller(t, u)
  \/ \E u \in Users, c \in Codes : ChargeCode(u, c)

Spec == Init /\ [][Next]_vars

-----------------------------------------------------------------------------
(* Type correctness: what the columns hold, and what a handler holds at    *)
(* each point of its code.                                                 *)
RequestOK(t) ==
  /\ at[t] = "idle" => req[t] = NoRequest
  /\ at[t] = "write" => req[t] \in TopUp
  /\ at[t] \in PurchasePoints => req[t] \in Purchase
  /\ at[t] \in RolePoints => req[t] \in RoleChange

TypeOK ==
  /\ pins \in [Users -> Int]
  /\ seller \in [Users -> BOOLEAN]
  /\ epins \subseteq EpinRow
  /\ at \in [Threads -> Points]
  /\ DOMAIN req = Threads
  /\ \A t \in Threads : RequestOK(t)
  /\ funded \in [Users -> Nat]
  /\ paid \in [Users -> Nat]
  /\ forfeited \in [Users -> Int]
  /\ receipts \subseteq Codes

(* No interleaving of top-ups, purchases and revocations, each writing a   *)
(* value computed from a row it loaded earlier, leaves an account with     *)
(* negative credit (preferences_controller.rb:25-28).                      *)
PinsNonNegative == \A u \in Users : pins[u] >= 0

(* Every code in _EPINS was paid for before it was inserted, although      *)
(* generate_code ignores what save returns (preferences_controller.rb:29): *)
(* an account whose row does not save never became a seller.               *)
PaidBeforeIssued == \A row \in epins : row.code \in receipts

Spent(u) == MapThenSumSet(LAMBDA row : row.cost, {row \in epins : row.creator = u})

(* The codes an account created never cost more than it has paid, whatever *)
(* failed between the payment and the insert (preferences_controller.rb:   *)
(* 28-31).                                                                 *)
SpentWithinPaid == \A u \in Users : Spent(u) <= paid[u]

(* A stale write may bring spent credit back, but no interleaving leaves   *)
(* an account with more credit than was ever added to it                   *)
(* (preferences_controller.rb:28-29, admin_controller.rb:19-20).           *)
PinsWithinFunded == \A u \in Users : pins[u] <= funded[u]

(* Lost updates may give credit away or take it twice, but keep it between *)
(* nothing and all that was ever added (preferences_controller.rb:25-29,   *)
(* admin_controller.rb:19-20).                                             *)
CreditBounded == PinsNonNegative /\ PinsWithinFunded

(* With the steps of different requests not interleaved, credit is         *)
(* neither created nor destroyed: what was added to an account is there,   *)
(* or was paid for a code, or was taken by a revocation.                   *)
Conservation ==
  \A u \in Users : funded[u] = pins[u] + paid[u] + forfeited[u]

(* With the steps of different requests not interleaved and nothing        *)
(* failing, a revocation that has been answered has taken all the credit,  *)
(* although it writes pins only when the row it loaded had some.           *)
RevocationTakesCredit ==
  [][\A t \in Threads :
       at[t] = "forfeit" /\ at'[t] = "idle" => pins'[req[t].user] = 0]_vars

(* Credit a handler has taken for a code it has not inserted yet.          *)
Holds(t, u) == at[t] = "insert" /\ req[t].user = u
InHand(u) ==
  IF \E t \in Threads : Holds(t, u)
    THEN Price(req[CHOOSE t \in Threads : Holds(t, u)].package) ELSE 0

(* With one request thread the handlers implement the ledger, in which     *)
(* every request is one step: between the payment and the insert the price *)
(* still counts as the seller's.                                           *)
Ledger == INSTANCE CreditLedger WITH balance <- [u \in Users |-> pins[u] + InHand(u)]
LedgerSpec == Ledger!Spec

(* An account never spends more than was added to it: "Insufficient        *)
(* Credits please recharge your account" (preferences_controller.rb:26).   *)
NoOverspend == \A u \in Users : Spent(u) <= funded[u]
=============================================================================

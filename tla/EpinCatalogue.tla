--------------------------- MODULE EpinCatalogue ---------------------------
(***************************************************************************)
(* The silk packages a seller can buy and the rows of the game database's  *)
(* _EPINS table, as app/controllers/preferences_controller.rb uses them.   *)
(***************************************************************************)
EXTENDS Integers, Sequences

CONSTANTS
  Users,    (* accounts: rows of the website's users table                 *)
  Codes,    (* charge codes CouponCode.generate may return                 *)
  Nobody    (* the redeemer of a code nobody has charged (UsedJID = 0)     *)

ASSUME NobodyAssumption == Nobody \notin Users

(* The two literal arrays of generate_code.                                *)
silks  == <<0, 500, 1000, 2200, 3300, 5500, 11500, 18000, 25000>>
prices == <<0, 5, 10, 20, 30, 50, 100, 150, 200>>

(***************************************************************************)
(* Ruby's array[i]: 0-based, a negative i counts from the end, and nil     *)
(* (here: not one of Indices) outside both ranges.                         *)
(***************************************************************************)
Indices == -Len(prices) .. Len(prices) - 1
At(array, i) == IF i >= 0 THEN array[i + 1] ELSE array[Len(array) + i + 1]

Silk(package)  == At(silks, package)
Price(package) == At(prices, package)

(* The packages the page offers; generate_code calls the others invalid.   *)
OfferedPackages == 1..8

(***************************************************************************)
(* A row of _EPINS.  Its usedBy column belongs to the game database:       *)
(* generate_code leaves it at its default and only the charging procedure  *)
(* sets it.                                                                *)
(***************************************************************************)
EpinRow == [code: Codes, creator: Users, package: Int, value: Nat,
            cost: Nat, usedBy: Users \cup {Nobody}]

(* Faulty variant: the silk amount and the cost swapped.                   *)
NewEpinSwapped(c, u, p) ==
  [code |-> c, creator |-> u, package |-> p, value |-> Price(p),
   cost |-> Silk(p), usedBy |-> Nobody]

NewEpin(c, u, p) ==
  [code |-> c, creator |-> u, package |-> p, value |-> Silk(p),
   cost |-> Price(p), usedBy |-> Nobody]

(* The _EPINS table after the charging procedure ran for user u and code c.*)
Charged(table, c, u) ==
  {IF row.code = c /\ row.usedBy = Nobody
     THEN [row EXCEPT !.usedBy = u] ELSE row : row \in table}
=============================================================================

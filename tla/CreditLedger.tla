---------------------------- MODULE CreditLedger ----------------------------
(***************************************************************************)
(* What the credit economy promises, each request a single step: credit    *)
(* enters an account by a top-up, leaves it when a code of that price is   *)
(* issued to its seller, when a revocation takes what is left, or when a   *)
(* payment is lost because the code could not be delivered.  A code is     *)
(* issued only to an account that is a seller at that moment and holds its *)
(* price, and is charged at most once.                                     *)
(***************************************************************************)
EXTENDS EpinCatalogue

VARIABLES
  balance,   (* credit of each account                                     *)
  seller,    (* which accounts are sellers                                 *)
  epins      (* codes issued                                               *)

vars == <<balance, seller, epins>>

Init ==
  /\ balance = [u \in Users |-> 0]
  /\ seller  = [u \in Users |-> FALSE]
  /\ epins   = {}

Fund(u) ==
  /\ balance'[u] >= balance[u]
  /\ balance' = [balance EXCEPT ![u] = balance'[u]]
  /\ UNCHANGED <<seller, epins>>

Issue(u, p, c) ==
  /\ seller[u]
  /\ balance[u] >= Price(p)
  /\ \A row \in epins : row.code # c
  /\ epins'   = epins \cup {NewEpin(c, u, p)}
  /\ balance' = [balance EXCEPT ![u] = @ - Price(p)]
  /\ UNCHANGED seller

(* The price of a package is gone and no code was issued for it.           *)
LosePayment(u, p) ==
  /\ balance[u] >= Price(p)
  /\ balance' = [balance EXCEPT ![u] = @ - Price(p)]
  /\ UNCHANGED <<seller, epins>>

Appoint(u, flag) ==
  /\ seller' = [seller EXCEPT ![u] = flag]
  /\ UNCHANGED <<balance, epins>>

Forfeit(u) ==
  /\ ~seller[u]
  /\ balance' = [balance EXCEPT ![u] = 0]
  /\ UNCHANGED <<seller, epins>>

Charge(u, c) ==
  /\ epins' = Charged(epins, c, u)
  /\ UNCHANGED <<balance, seller>>

Next ==
  \E u \in Users :
    \/ Fund(u)
    \/ Forfeit(u)
    \/ \E flag \in BOOLEAN : Appoint(u, flag)
    \/ \E p \in Indices : LosePayment(u, p)
    \/ \E p \in Indices, c \in Codes : Issue(u, p, c)
    \/ \E c \in Codes : Charge(u, c)

Spec == Init /\ [][Next]_vars
=============================================================================

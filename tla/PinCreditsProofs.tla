-------------------------- MODULE PinCreditsProofs --------------------------
(***************************************************************************)
(* Proofs about PinCredits that hold for every number of accounts, codes   *)
(* and request threads, every top-up and package parameter, and with or    *)
(* without steps that raise.                                               *)
(***************************************************************************)
EXTENDS PinCredits, FiniteSetTheorems, WellFoundedInduction, TLAPS

(* What generate_code's two lookups in the literal arrays return.          *)
LEMMA CatalogueNat ==
  ASSUME NEW p \in Indices PROVE Price(p) \in Nat /\ Silk(p) \in Nat
<1>1. Len(prices) = 9 /\ Len(silks) = 9
  BY DEF prices, silks
<1>2. \A i \in 1..9 : prices[i] \in Nat /\ silks[i] \in Nat
  BY DEF prices, silks
<1>3. p \in -9 .. 8
  BY <1>1 DEF Indices
<1> QED
  BY <1>1, <1>2, <1>3 DEF Price, Silk, At
-----------------------------------------------------------------------------
(* From the comparison with the price on, the price exists.                *)
PackagePriced ==
  \A t \in Threads : at[t] \in {"save", "insert"} => req[t].package \in Indices

TypeInv == TypeOK /\ PackagePriced

LEMMA TypeInit == Init => TypeInv
BY NobodyAssumption, PinCreditsAssumption
   DEF Init, TypeInv, TypeOK, RequestOK, PackagePriced, Points, PurchasePoints,
       RolePoints, NoRequest

(* Control moves only at the thread that takes the step.                   *)
LEMMA BeginMoves ==
  ASSUME TypeInv, NEW t \in Threads, NEW point \in Points, NEW request,
         Begin(t, point, request)
  PROVE  /\ at' \in [Threads -> Points] /\ DOMAIN req' = Threads
         /\ at'[t] = point /\ req'[t] = request
         /\ \A s \in Threads \ {t} : at'[s] = at[s] /\ req'[s] = req[s]
BY DEF Begin, TypeInv, TypeOK

LEMMA GotoMoves ==
  ASSUME TypeInv, NEW t \in Threads, NEW from, NEW to \in Points,
         Goto(t, from, to)
  PROVE  /\ at' \in [Threads -> Points] /\ DOMAIN req' = Threads
         /\ at[t] = from /\ at'[t] = to /\ req' = req
         /\ \A s \in Threads \ {t} : at'[s] = at[s]
BY DEF Goto, TypeInv, TypeOK

LEMMA AnswerMoves ==
  ASSUME TypeInv, NEW t \in Threads, NEW from, Answer(t, from)
  PROVE  /\ at' \in [Threads -> Points] /\ DOMAIN req' = Threads
         /\ at[t] = from /\ at'[t] = "idle" /\ req'[t] = NoRequest
         /\ \A s \in Threads \ {t} : at'[s] = at[s] /\ req'[s] = req[s]
BY DEF Answer, TypeInv, TypeOK, Points

LEMMA TypeStep == TypeInv /\ [Next]_vars => TypeInv'
<1> SUFFICES ASSUME TypeInv, [Next]_vars PROVE TypeInv'
  OBVIOUS
<1> USE NobodyAssumption, PinCreditsAssumption
<1> USE DEF TypeInv, TypeOK, RequestOK, PackagePriced
<1>1. ASSUME NEW t \in Threads, NEW u \in Users, NEW p \in Packages,
             NEW c \in Codes, GenerateCode(t, u, p, c)
      PROVE  TypeInv'
  <2> DEFINE request == [user |-> u, row |-> Row(u), package |-> p, code |-> c]
  <2>1. request \in Purchase
    BY DEF Purchase, Row, LoadedRow
  <2>2. Begin(t, "lookup", request) /\ UNCHANGED <<rows, history>>
    BY <1>1 DEF GenerateCode
  <2>3. "lookup" \in Points
    BY DEF Points, PurchasePoints
  <2> HIDE DEF request
  <2> QED
    BY <2>1, <2>2, <2>3, BeginMoves DEF rows, history, PurchasePoints, RolePoints
<1>2. ASSUME NEW t \in Threads, FindAccount(t) PROVE TypeInv'
  <2>1. CASE /\ req[t].package \in Indices
             /\ Goto(t, "lookup", "save")
    <3>1. "save" \in Points
      BY DEF Points, PurchasePoints
    <3> QED
      BY <1>2, <2>1, <3>1, GotoMoves
         DEF FindAccount, rows, history, PurchasePoints, RolePoints
  <2>2. CASE Answer(t, "lookup")
    BY <1>2, <2>2, AnswerMoves DEF FindAccount, rows, history, PurchasePoints, RolePoints
  <2> QED
    BY <1>2, <2>1, <2>2 DEF FindAccount
<1>3. ASSUME NEW t \in Threads, SavePins(t) PROVE TypeInv'
  <2>1. Goto(t, "save", "insert") /\ "insert" \in Points
    BY <1>3 DEF SavePins, Points, PurchasePoints
  <2>2. at[t] = "save" /\ req[t] \in Purchase /\ req[t].package \in Indices
    BY <2>1 DEF Goto, PurchasePoints
  <2>3. Price(req[t].package) \in Nat
    BY <2>2, CatalogueNat
  <2>4. req[t].user \in Users /\ req[t].row.pins \in Int /\ req[t].code \in Codes
    BY <2>2 DEF Purchase, LoadedRow
  <2>5. pins' \in [Users -> Int] /\ paid' \in [Users -> Nat] /\ receipts' \subseteq Codes
    BY <1>3, <2>3, <2>4 DEF SavePins
  <2> QED
    BY <1>3, <2>1, <2>2, <2>5, GotoMoves DEF SavePins, PurchasePoints, RolePoints
<1>4. ASSUME NEW t \in Threads, InsertEpin(t) PROVE TypeInv'
  <2>1. Answer(t, "insert")
    BY <1>4 DEF InsertEpin
  <2>2. at[t] = "insert" /\ req[t] \in Purchase /\ req[t].package \in Indices
    BY <2>1 DEF Answer, PurchasePoints
  <2>3. NewEpin(req[t].code, req[t].user, req[t].package) \in EpinRow
    BY <2>2, CatalogueNat DEF NewEpin, EpinRow, Purchase
  <2> QED
    BY <1>4, <2>1, <2>3, AnswerMoves
       DEF InsertEpin, history, PurchasePoints, RolePoints
<1>5. ASSUME NEW t \in Threads, NEW u \in Users, NEW n \in Amounts, AddPins(t, u, n)
      PROVE  TypeInv'
  <2> DEFINE request == [user |-> u, row |-> Row(u), amount |-> n]
  <2>1. request \in TopUp
    BY <1>5 DEF AddPins, TopUp, Row, LoadedRow
  <2>2. Begin(t, "write", request) /\ UNCHANGED <<rows, history>>
    BY <1>5 DEF AddPins
  <2>3. "write" \in Points
    BY DEF Points
  <2> HIDE DEF request
  <2> QED
    BY <2>1, <2>2, <2>3, BeginMoves DEF rows, history, PurchasePoints, RolePoints
<1>6. ASSUME NEW t \in Threads, WritePins(t) PROVE TypeInv'
  <2>1. Answer(t, "write")
    BY <1>6 DEF WritePins
  <2>2. req[t] \in TopUp
    BY <2>1 DEF Answer
  <2>3. pins' \in [Users -> Int] /\ funded' \in [Users -> Nat]
    BY <1>6, <2>2 DEF WritePins, TopUp, LoadedRow
  <2> QED
    BY <1>6, <2>1, <2>3, AnswerMoves DEF WritePins, PurchasePoints, RolePoints
<1>7. ASSUME NEW t \in Threads, NEW u \in Users, BeSeller(t, u) PROVE TypeInv'
  <2> DEFINE request == [user |-> u, row |-> Row(u)]
             point   == IF seller[u] THEN "revoke" ELSE "grant"
  <2>1. request \in RoleChange
    BY DEF RoleChange, Row, LoadedRow
  <2>2. Begin(t, point, request) /\ UNCHANGED <<rows, history>>
    BY <1>7 DEF BeSeller
  <2>3. point \in Points /\ point \in RolePoints
    BY DEF Points, RolePoints
  <2> HIDE DEF request, point
  <2> QED
    BY <2>1, <2>2, <2>3, BeginMoves DEF rows, history, PurchasePoints, RolePoints
<1>8. ASSUME NEW t \in Threads, GrantSeller(t) PROVE TypeInv'
  <2>1. Answer(t, "grant") /\ req[t] \in RoleChange
    BY <1>8 DEF GrantSeller, Answer, RolePoints
  <2>2. seller' \in [Users -> BOOLEAN]
    BY <1>8, <2>1 DEF GrantSeller, SetSeller, RoleChange
  <2> QED
    BY <1>8, <2>1, <2>2, AnswerMoves DEF GrantSeller, history, PurchasePoints, RolePoints
<1>9. ASSUME NEW t \in Threads, RevokeSeller(t) PROVE TypeInv'
  <2>1. Goto(t, "revoke", "forfeit") /\ req[t] \in RoleChange /\ "forfeit" \in Points
    BY <1>9 DEF RevokeSeller, Goto, RolePoints, Points
  <2>2. seller' \in [Users -> BOOLEAN]
    BY <1>9, <2>1 DEF RevokeSeller, SetSeller, RoleChange
  <2> QED
    BY <1>9, <2>1, <2>2, GotoMoves DEF RevokeSeller, history, PurchasePoints, RolePoints
<1>10. ASSUME NEW t \in Threads, ForfeitPins(t) PROVE TypeInv'
  <2>1. Answer(t, "forfeit") /\ req[t] \in RoleChange
    BY <1>10 DEF ForfeitPins, Answer, RolePoints
  <2>2. pins' \in [Users -> Int] /\ forfeited' \in [Users -> Int]
    BY <1>10, <2>1 DEF ForfeitPins, RoleChange
  <2> QED
    BY <1>10, <2>1, <2>2, AnswerMoves DEF ForfeitPins, PurchasePoints, RolePoints
<1>11. ASSUME NEW t \in Threads, Raise(t) PROVE TypeInv'
  BY <1>11, AnswerMoves DEF Raise, rows, history, PurchasePoints, RolePoints
<1>12. ASSUME NEW u \in Users, NEW c \in Codes, ChargeCode(u, c) PROVE TypeInv'
  <2>1. epins' \subseteq EpinRow
    BY <1>12 DEF ChargeCode, Charged, EpinRow
  <2> QED
    BY <1>12, <2>1 DEF ChargeCode, control, history
<1>13. CASE UNCHANGED vars
  BY <1>13 DEF vars, rows, control, history
<1> QED
  BY <1>1, <1>2, <1>3, <1>4, <1>5, <1>6, <1>7, <1>8, <1>9, <1>10, <1>11, <1>12,
     <1>13 DEF Next, Step

(* In every reachable state the columns hold what their types say and a    *)
(* handler holds at each point of its code what that point reads; in       *)
(* particular no handler subtracts a price that is nil.                    *)
THEOREM TypeCorrect == Spec => []TypeOK
<1>1. TypeInv => TypeOK
  BY DEF TypeInv
<1> QED
  BY TypeInit, TypeStep, <1>1, PTL DEF Spec
-----------------------------------------------------------------------------
(***************************************************************************)
(* Credit stays between 0 and what was added.  Neither bound is inductive: *)
(* a handler writes a value computed from the row it loaded, so the row    *)
(* each handler holds must be within the bounds too, and at the write the  *)
(* price must have been compared with that row.                            *)
(***************************************************************************)
RowsBounded ==
  \A t \in Threads : at[t] # "idle" =>
    0 <= req[t].row.pins /\ req[t].row.pins <= funded[req[t].user]

PriceCompared ==
  \A t \in Threads : at[t] = "save" => Price(req[t].package) <= req[t].row.pins

CreditInv ==
  /\ TypeInv /\ PinsNonNegative /\ PinsWithinFunded
  /\ RowsBounded /\ PriceCompared

(* Whatever a handler is doing, it holds an account and a row of it.       *)
LEMMA HeldRow ==
  ASSUME TypeInv, NEW t \in Threads, at[t] # "idle"
  PROVE  req[t].user \in Users /\ req[t].row \in LoadedRow
BY DEF TypeInv, TypeOK, RequestOK, Points, PurchasePoints, RolePoints,
       Purchase, TopUp, RoleChange

LEMMA CreditInit == Init => CreditInv
BY TypeInit DEF Init, CreditInv, PinsNonNegative, PinsWithinFunded, RowsBounded,
                PriceCompared

(* A handler that begins holds the row as it is.                           *)
LEMMA CreditBegin ==
  ASSUME CreditInv, TypeInv', NEW t \in Threads, NEW u \in Users,
         NEW point \in Points \ {"save"}, NEW request,
         request.user = u, request.row = Row(u),
         Begin(t, point, request), UNCHANGED <<rows, history>>
  PROVE  CreditInv'
<1>1. /\ pins' = pins /\ funded' = funded
      /\ at'[t] = point /\ req'[t] = request
      /\ \A s \in Threads \ {t} : at'[s] = at[s] /\ req'[s] = req[s]
  BY BeginMoves DEF CreditInv, rows, history
<1>2. request.row.pins = pins[u]
  BY DEF Row
<1> QED
  BY <1>1, <1>2 DEF CreditInv, PinsNonNegative, PinsWithinFunded, RowsBounded,
                    PriceCompared

(* A handler that goes on elsewhere, or ends, without touching pins.         *)
LEMMA CreditGoto ==
  ASSUME CreditInv, TypeInv', NEW t \in Threads, NEW from, NEW to \in Points \ {"save"},
         Goto(t, from, to), from # "idle", pins' = pins, funded' = funded
  PROVE  CreditInv'
BY GotoMoves DEF CreditInv, PinsNonNegative, PinsWithinFunded, RowsBounded, PriceCompared

LEMMA CreditAnswer ==
  ASSUME CreditInv, TypeInv', NEW t \in Threads, NEW from, Answer(t, from),
         pins' = pins, funded' = funded
  PROVE  CreditInv'
BY AnswerMoves DEF CreditInv, PinsNonNegative, PinsWithinFunded, RowsBounded, PriceCompared

LEMMA CreditStep == CreditInv /\ [Next]_vars => CreditInv'
<1> SUFFICES ASSUME CreditInv, [Next]_vars PROVE CreditInv'
  OBVIOUS
<1>0. TypeInv /\ TypeInv'
  BY TypeStep DEF CreditInv
<1>1. ASSUME NEW t \in Threads, NEW u \in Users, NEW p \in Packages,
             NEW c \in Codes, GenerateCode(t, u, p, c)
      PROVE  CreditInv'
  <2>1. "lookup" \in Points \ {"save"}
    BY DEF Points, PurchasePoints
  <2> QED
    BY <1>0, <1>1, <2>1, CreditBegin DEF GenerateCode
<1>2. ASSUME NEW t \in Threads, FindAccount(t) PROVE CreditInv'
  <2>1. CASE /\ req[t].package \in Indices /\ req[t].row.pins >= Price(req[t].package)
             /\ Goto(t, "lookup", "save")
    <3>1. "save" \in Points
      BY DEF Points, PurchasePoints
    <3>2. /\ pins' = pins /\ funded' = funded
          /\ at[t] = "lookup" /\ at'[t] = "save" /\ req' = req
          /\ \A s \in Threads \ {t} : at'[s] = at[s]
      BY <1>0, <1>2, <2>1, <3>1, GotoMoves DEF FindAccount, rows, history
    <3>3. Price(req[t].package) <= req[t].row.pins
      BY <1>0, <2>1, <3>2, CatalogueNat, HeldRow DEF LoadedRow
    <3> QED
      BY <1>0, <3>2, <3>3 DEF CreditInv, PinsNonNegative, PinsWithinFunded,
                              RowsBounded, PriceCompared
  <2>2. CASE Answer(t, "lookup")
    BY <1>0, <1>2, <2>2, CreditAnswer DEF FindAccount, rows, history, Points
  <2> QED
    BY <1>2, <2>1, <2>2 DEF FindAccount
<1>3. ASSUME NEW t \in Threads, SavePins(t) PROVE CreditInv'
  <2> DEFINE r == req[t]
  <2>1. Goto(t, "save", "insert") /\ "insert" \in Points /\ funded' = funded
    BY <1>3 DEF SavePins, Points, PurchasePoints
  <2>2. /\ at[t] = "save" /\ at'[t] = "insert" /\ req' = req
        /\ \A s \in Threads \ {t} : at'[s] = at[s]
    BY <1>0, <2>1, GotoMoves
  <2>3. /\ Price(r.package) \in Nat /\ Price(r.package) <= r.row.pins
        /\ r.user \in Users /\ r.row.pins \in Int
        /\ r.row.pins <= funded[r.user]
    BY <1>0, <2>2, CatalogueNat, HeldRow
       DEF CreditInv, PriceCompared, RowsBounded, TypeInv, PackagePriced, LoadedRow
  <2>4. /\ 0 <= r.row.pins - Price(r.package)
        /\ r.row.pins - Price(r.package) <= funded[r.user]
    BY <1>0, <2>3 DEF TypeInv, TypeOK
  <2>5. pins' = pins \/ pins' = [pins EXCEPT ![r.user] = r.row.pins - Price(r.package)]
    BY <1>3 DEF SavePins
  <2>6. PinsNonNegative' /\ PinsWithinFunded'
    BY <1>0, <2>1, <2>3, <2>4, <2>5
       DEF CreditInv, PinsNonNegative, PinsWithinFunded, TypeInv, TypeOK
  <2> QED
    BY <1>0, <2>1, <2>2, <2>6 DEF CreditInv, RowsBounded, PriceCompared
<1>4. ASSUME NEW t \in Threads, InsertEpin(t) PROVE CreditInv'
  BY <1>0, <1>4, CreditAnswer DEF InsertEpin, history, Points
<1>5. ASSUME NEW t \in Threads, NEW u \in Users, NEW n \in Amounts, AddPins(t, u, n)
      PROVE  CreditInv'
  <2>1. "write" \in Points \ {"save"}
    BY DEF Points
  <2> QED
    BY <1>0, <1>5, <2>1, CreditBegin DEF AddPins
<1>6. ASSUME NEW t \in Threads, WritePins(t) PROVE CreditInv'
  <2> DEFINE r == req[t]
  <2>1. Answer(t, "write") /\ req[t] \in TopUp
    BY <1>0, <1>6 DEF WritePins, Answer, TypeInv, TypeOK, RequestOK
  <2>2. /\ at[t] = "write" /\ at'[t] = "idle"
        /\ \A s \in Threads \ {t} : at'[s] = at[s] /\ req'[s] = req[s]
    BY <1>0, <2>1, AnswerMoves
  <2>3. /\ r.user \in Users /\ r.row.pins \in Int /\ r.amount \in Nat
        /\ 0 <= r.row.pins /\ r.row.pins <= funded[r.user]
    BY <2>1, <2>2 DEF CreditInv, RowsBounded, TopUp, LoadedRow
  <2>4. \A u \in Users : funded'[u] = IF u = r.user THEN funded[u] + r.amount
                                                    ELSE funded[u]
    BY <1>0, <1>6, <2>3 DEF WritePins, TypeInv, TypeOK
  <2>5. pins' = pins \/ pins' = [pins EXCEPT ![r.user] = r.row.pins + r.amount]
    BY <1>6 DEF WritePins
  <2>6. pins \in [Users -> Int] /\ \A u \in Users : funded[u] \in Nat
    BY <1>0 DEF TypeInv, TypeOK
  <2>7. PinsNonNegative' /\ PinsWithinFunded'
    BY <2>3, <2>4, <2>5, <2>6 DEF CreditInv, PinsNonNegative, PinsWithinFunded
  <2>8. RowsBounded'
    <3> SUFFICES ASSUME NEW s \in Threads, at'[s] # "idle"
                 PROVE  0 <= req'[s].row.pins /\ req'[s].row.pins <= funded'[req'[s].user]
      BY DEF RowsBounded
    <3>1. s # t /\ at[s] # "idle" /\ req'[s] = req[s]
      BY <2>2
    <3>2. req[s].user \in Users /\ req[s].row.pins \in Int
      BY <1>0, <3>1, HeldRow DEF LoadedRow
    <3> QED
      BY <2>3, <2>4, <2>6, <3>1, <3>2 DEF CreditInv, RowsBounded
  <2> QED
    BY <1>0, <2>2, <2>7, <2>8 DEF CreditInv, PriceCompared
<1>7. ASSUME NEW t \in Threads, NEW u \in Users, BeSeller(t, u) PROVE CreditInv'
  <2> DEFINE point == IF seller[u] THEN "revoke" ELSE "grant"
  <2>1. point \in Points \ {"save"}
    BY DEF Points, RolePoints
  <2>2. Begin(t, point, [user |-> u, row |-> Row(u)]) /\ UNCHANGED <<rows, history>>
    BY <1>7 DEF BeSeller
  <2> HIDE DEF point
  <2> QED
    BY <1>0, <2>1, <2>2, CreditBegin
<1>8. ASSUME NEW t \in Threads, GrantSeller(t) PROVE CreditInv'
  BY <1>0, <1>8, CreditAnswer DEF GrantSeller, history, Points
<1>9. ASSUME NEW t \in Threads, RevokeSeller(t) PROVE CreditInv'
  BY <1>0, <1>9, CreditGoto DEF RevokeSeller, history, Points, RolePoints
<1>10. ASSUME NEW t \in Threads, ForfeitPins(t) PROVE CreditInv'
  <2>1. Answer(t, "forfeit") /\ funded' = funded
    BY <1>10 DEF ForfeitPins
  <2>2. /\ at'[t] = "idle"
        /\ \A s \in Threads \ {t} : at'[s] = at[s] /\ req'[s] = req[s]
    BY <1>0, <2>1, AnswerMoves
  <2>3. \A u \in Users : pins'[u] = pins[u] \/ pins'[u] = 0
    BY <1>0, <1>10 DEF ForfeitPins, TypeInv, TypeOK
  <2>4. \A u \in Users : funded[u] \in Nat
    BY <1>0 DEF TypeInv, TypeOK
  <2> QED
    BY <1>0, <2>1, <2>2, <2>3, <2>4
       DEF CreditInv, PinsNonNegative, PinsWithinFunded, RowsBounded, PriceCompared
<1>11. ASSUME NEW t \in Threads, Raise(t) PROVE CreditInv'
  BY <1>0, <1>11, CreditAnswer DEF Raise, rows, history, Points
<1>12. ASSUME NEW u \in Users, NEW c \in Codes, ChargeCode(u, c) PROVE CreditInv'
  BY <1>0, <1>12 DEF ChargeCode, control, history, CreditInv, PinsNonNegative,
                     PinsWithinFunded, RowsBounded, PriceCompared
<1>13. CASE UNCHANGED vars
  BY <1>0, <1>13 DEF vars, rows, control, history, CreditInv, PinsNonNegative,
                     PinsWithinFunded, RowsBounded, PriceCompared
<1> QED
  BY <1>1, <1>2, <1>3, <1>4, <1>5, <1>6, <1>7, <1>8, <1>9, <1>10, <1>11, <1>12,
     <1>13 DEF Next, Step

(* However many requests interleave, and whatever raises, no account ever  *)
(* has negative credit, since the write of generate_code uses the value it *)
(* compared with (preferences_controller.rb:25-29), nor more than was ever *)
(* added to it, since stale rows hold what the account once had.           *)
THEOREM CreditStaysBounded == Spec => []CreditBounded
<1>1. CreditInv => CreditBounded
  BY DEF CreditInv, CreditBounded
<1> QED
  BY CreditInit, CreditStep, <1>1, PTL DEF Spec
-----------------------------------------------------------------------------
(***************************************************************************)
(* Codes are paid for.  What makes the ignored result of save harmless is  *)
(* that the role itself is granted by a validated save: a seller's row     *)
(* saves, and so does the row of a purchase that has begun.                *)
(***************************************************************************)
SellersSave == \A u \in Users : seller[u] => u \notin Unsaveable

BuyersSave ==
  \A t \in Threads : at[t] \in PurchasePoints => req[t].user \notin Unsaveable

PaidAtInsert == \A t \in Threads : at[t] = "insert" => req[t].code \in receipts

IssueInv ==
  /\ TypeInv /\ SellersSave /\ BuyersSave /\ PaidAtInsert /\ PaidBeforeIssued

LEMMA IssueInit == Init => IssueInv
BY TypeInit DEF Init, IssueInv, SellersSave, BuyersSave, PaidAtInsert,
                PaidBeforeIssued, PurchasePoints

LEMMA IssueStep == IssueInv /\ [Next]_vars => IssueInv'
<1> SUFFICES ASSUME IssueInv, [Next]_vars PROVE IssueInv'
  OBVIOUS
<1>0. TypeInv /\ TypeInv'
  BY TypeStep DEF IssueInv
<1> USE DEF IssueInv, SellersSave, BuyersSave, PaidAtInsert, PaidBeforeIssued
<1>1. ASSUME NEW t \in Threads, NEW u \in Users, NEW p \in Packages,
             NEW c \in Codes, GenerateCode(t, u, p, c)
      PROVE  IssueInv'
  <2> DEFINE request == [user |-> u, row |-> Row(u), package |-> p, code |-> c]
  <2>1. Begin(t, "lookup", request) /\ "lookup" \in Points /\ request.user = u
    BY <1>1 DEF GenerateCode, Points, PurchasePoints
  <2>2. u \notin Unsaveable
    BY <1>1 DEF GenerateCode
  <2> HIDE DEF request
  <2> QED
    BY <1>0, <1>1, <2>1, <2>2, BeginMoves DEF GenerateCode, rows, history
<1>2. ASSUME NEW t \in Threads, FindAccount(t) PROVE IssueInv'
  <2>1. CASE Goto(t, "lookup", "save")
    <3>1. "save" \in Points
      BY DEF Points, PurchasePoints
    <3> QED
      BY <1>0, <1>2, <2>1, <3>1, GotoMoves DEF FindAccount, rows, history, PurchasePoints
  <2>2. CASE Answer(t, "lookup")
    BY <1>0, <1>2, <2>2, AnswerMoves DEF FindAccount, rows, history, PurchasePoints
  <2> QED
    BY <1>2, <2>1, <2>2 DEF FindAccount
<1>3. ASSUME NEW t \in Threads, SavePins(t) PROVE IssueInv'
  <2>1. Goto(t, "save", "insert") /\ "insert" \in Points
    BY <1>3 DEF SavePins, Points, PurchasePoints
  <2>2. /\ at[t] = "save" /\ at'[t] = "insert" /\ req' = req
        /\ \A s \in Threads \ {t} : at'[s] = at[s]
    BY <1>0, <2>1, GotoMoves
  <2>3. receipts' = receipts \cup {req[t].code}
    BY <1>3, <2>2 DEF SavePins, PurchasePoints
  <2> QED
    BY <1>0, <1>3, <2>2, <2>3 DEF SavePins, PurchasePoints
<1>4. ASSUME NEW t \in Threads, InsertEpin(t) PROVE IssueInv'
  <2>1. Answer(t, "insert")
    BY <1>4 DEF InsertEpin
  <2>2. /\ at[t] = "insert" /\ at'[t] = "idle"
        /\ \A s \in Threads \ {t} : at'[s] = at[s] /\ req'[s] = req[s]
    BY <1>0, <2>1, AnswerMoves
  <2>3. PaidBeforeIssued'
    BY <1>4, <2>2 DEF InsertEpin, NewEpin, history
  <2> QED
    BY <1>0, <1>4, <2>2, <2>3 DEF InsertEpin, history, PurchasePoints
<1>5. ASSUME NEW t \in Threads, NEW u \in Users, NEW n \in Amounts, AddPins(t, u, n)
      PROVE  IssueInv'
  <2>1. "write" \in Points
    BY DEF Points
  <2> QED
    BY <1>0, <1>5, <2>1, BeginMoves DEF AddPins, rows, history, PurchasePoints
<1>6. ASSUME NEW t \in Threads, WritePins(t) PROVE IssueInv'
  BY <1>0, <1>6, AnswerMoves DEF WritePins, PurchasePoints
<1>7. ASSUME NEW t \in Threads, NEW u \in Users, BeSeller(t, u) PROVE IssueInv'
  <2>1. {"revoke", "grant"} \subseteq Points \ PurchasePoints
    BY DEF Points, RolePoints, PurchasePoints
  <2> QED
    BY <1>0, <1>7, <2>1, BeginMoves DEF BeSeller, rows, history, PurchasePoints
<1>8. ASSUME NEW t \in Threads, GrantSeller(t) PROVE IssueInv'
  <2>1. SellersSave'
    BY <1>0, <1>8 DEF GrantSeller, SetSeller, TypeInv, TypeOK
  <2> QED
    BY <1>0, <1>8, <2>1, AnswerMoves DEF GrantSeller, history, PurchasePoints
<1>9. ASSUME NEW t \in Threads, RevokeSeller(t) PROVE IssueInv'
  <2>1. SellersSave'
    BY <1>0, <1>9 DEF RevokeSeller, SetSeller, TypeInv, TypeOK
  <2>2. "forfeit" \in Points
    BY DEF Points, RolePoints
  <2> QED
    BY <1>0, <1>9, <2>1, <2>2, GotoMoves DEF RevokeSeller, history, PurchasePoints
<1>10. ASSUME NEW t \in Threads, ForfeitPins(t) PROVE IssueInv'
  BY <1>0, <1>10, AnswerMoves DEF ForfeitPins, PurchasePoints
<1>11. ASSUME NEW t \in Threads, Raise(t) PROVE IssueInv'
  BY <1>0, <1>11, AnswerMoves DEF Raise, rows, history, PurchasePoints
<1>12. ASSUME NEW u \in Users, NEW c \in Codes, ChargeCode(u, c) PROVE IssueInv'
  <2>1. \A row \in epins : [row EXCEPT !.usedBy = u].code = row.code
    BY <1>0 DEF TypeInv, TypeOK, EpinRow
  <2>2. PaidBeforeIssued'
    BY <1>12, <2>1 DEF ChargeCode, Charged, history
  <2> QED
    BY <1>0, <1>12, <2>2 DEF ChargeCode, control, history
<1>13. CASE UNCHANGED vars
  BY <1>0, <1>13 DEF vars, rows, control, history
<1> QED
  BY <1>1, <1>2, <1>3, <1>4, <1>5, <1>6, <1>7, <1>8, <1>9, <1>10, <1>11, <1>12,
     <1>13 DEF Next, Step

(* Every code that reaches _EPINS was paid for, although generate_code     *)
(* inserts it whatever save returned (preferences_controller.rb:29-31).    *)
THEOREM CodesArePaid == Spec => []PaidBeforeIssued
<1>1. IssueInv => PaidBeforeIssued
  BY DEF IssueInv
<1> QED
  BY IssueInit, IssueStep, <1>1, PTL DEF Spec
-----------------------------------------------------------------------------
(***************************************************************************)
(* The cost of a set of rows.  Spent folds over its rows with a recursive  *)
(* function; the lemmas say that such a function exists, that it does not  *)
(* depend on the order in which rows are chosen, nor on the set it was     *)
(* defined for, so that a row adds its cost.                               *)
(***************************************************************************)
Picked(S) == CHOOSE row \in S : TRUE
Folds(f, sets) ==
  f = [s \in sets |-> IF s = {} THEN 0
                      ELSE Picked(s).cost + f[s \ {Picked(s)}]]
Cost(S) == (CHOOSE f : Folds(f, SUBSET S))[S]
Bill(S) == IsFiniteSet(S) /\ \A row \in S : row.cost \in Nat

\* what SpentWithinPaid adds up is the cost of the codes of u
LEMMA SpentIsCost ==
  ASSUME NEW u
  PROVE  Spent(u) = Cost({row \in epins : row.creator = u})
BY Zenon DEF Spent, MapThenSumSet, MapThenFoldSet, Cost, Folds, Picked

\* a set of numbers has a least one
LEMMA LeastNat ==
  ASSUME NEW T, T \subseteq Nat, T # {}
  PROVE  \E m \in T : \A n \in T : m <= n
<1> DEFINE R == OpToRel(<, Nat)
<1>1. IsWellFoundedOn(R, Nat)
  BY NatLessThanWellFounded
<1>2. \A m, n \in Nat : m < n => <<m, n>> \in R
  BY DEF OpToRel
<1> HIDE DEF R
<1>3. PICK m \in T : \A n \in T : <<n, m>> \notin R
  BY <1>1, WFMin
<1>4. \A n \in T : ~ (n < m)
  BY <1>2, <1>3
<1> QED
  BY <1>3, <1>4

\* the parts of S of at most n rows
Small(S, n) == {s \in SUBSET S : Cardinality(s) <= n}

\* the chosen row is one of them
LEMMA PickedOne ==
  ASSUME NEW S, S # {} PROVE Picked(S) \in S
BY DEF Picked

\* a set without its chosen row is smaller
LEMMA Smaller ==
  ASSUME NEW S, Bill(S), NEW s \in SUBSET S, NEW x \in s
  PROVE  /\ s \ {x} \in SUBSET S /\ Bill(s) /\ Bill(s \ {x})
         /\ Cardinality(s) \in Nat /\ Cardinality(s) # 0
         /\ Cardinality(s \ {x}) = Cardinality(s) - 1
<1>1. IsFiniteSet(s)
  BY FS_Subset DEF Bill
<1>2. /\ IsFiniteSet(s \ {x}) /\ Cardinality(s) \in Nat
      /\ Cardinality(s \ {x}) = Cardinality(s) - 1
  BY <1>1, FS_RemoveElement, FS_CardinalityType
<1>3. Cardinality(s) # 0
  BY <1>1, FS_EmptySet
<1> QED
  BY <1>1, <1>2, <1>3 DEF Bill

\* There is such a function: a least size for which there is none would follow
\* a size for which there is one.
LEMMA FoldExists ==
  ASSUME NEW S, Bill(S)
  PROVE  \E f : Folds(f, SUBSET S)
<1> DEFINE Bad == {n \in Nat : ~ \E f : Folds(f, Small(S, n))}
<1>1. Bad = {}
  <2>1. SUFFICES ASSUME Bad # {} PROVE FALSE
    OBVIOUS
  <2>2. PICK m \in Bad : \A n \in Bad : m <= n
    <3>1. Bad \subseteq Nat
      OBVIOUS
    <3> HIDE DEF Bad
    <3> QED
      BY <2>1, <3>1, LeastNat
  <2>3. CASE m = 0
    <3> DEFINE f == [s \in Small(S, 0) |-> 0]
    <3>1. \A s \in Small(S, 0) : s = {}
      BY FS_EmptySet, FS_Subset, FS_CardinalityType DEF Small, Bill
    <3>2. Folds(f, Small(S, 0))
      <4>1. f = [s \in Small(S, 0) |->
                   IF s = {} THEN 0 ELSE Picked(s).cost + f[s \ {Picked(s)}]]
        BY <3>1
      <4> QED
        BY <4>1 DEF Folds
    <3> QED
      BY <2>2, <2>3, <3>2
  <2>4. CASE m # 0
    <3>1. m - 1 \in Nat \ Bad /\ m \in Nat
      BY <2>2, <2>4
    <3>2. PICK f : Folds(f, Small(S, m - 1))
      BY <3>1
    <3> DEFINE g == [s \in Small(S, m) |->
                       IF s = {} THEN 0 ELSE Picked(s).cost + f[s \ {Picked(s)}]]
    <3>3. \A s \in Small(S, m - 1) : s \in Small(S, m) /\ g[s] = f[s]
      <4>1. SUFFICES ASSUME NEW s \in Small(S, m - 1)
                     PROVE  s \in Small(S, m) /\ g[s] = f[s]
        OBVIOUS
      <4>2. s \in Small(S, m)
        <5>1. Cardinality(s) \in Nat /\ Cardinality(s) <= m - 1 /\ s \in SUBSET S
          BY <4>1, FS_Subset, FS_CardinalityType DEF Small, Bill
        <5> QED
          BY <5>1, <3>1 DEF Small
      <4>3. f[s] = IF s = {} THEN 0 ELSE Picked(s).cost + f[s \ {Picked(s)}]
        BY <4>1, <3>2 DEF Folds
      <4>4. g[s] = IF s = {} THEN 0 ELSE Picked(s).cost + f[s \ {Picked(s)}]
        BY <4>2
      <4> QED
        BY <4>2, <4>3, <4>4
    <3>4. ASSUME NEW s \in Small(S, m), s # {}
          PROVE  s \ {Picked(s)} \in Small(S, m - 1)
      <4>1. Picked(s) \in s /\ s \in SUBSET S /\ Cardinality(s) <= m
        BY <3>4, PickedOne DEF Small
      <4>2. /\ s \ {Picked(s)} \in SUBSET S /\ Cardinality(s) \in Nat
            /\ Cardinality(s \ {Picked(s)}) = Cardinality(s) - 1
        BY <4>1, Smaller
      <4> QED
        BY <4>1, <4>2, <3>1 DEF Small
    <3>5. Folds(g, Small(S, m))
      <4>1. \A s \in Small(S, m) :
              g[s] = IF s = {} THEN 0 ELSE Picked(s).cost + g[s \ {Picked(s)}]
        <5>1. SUFFICES ASSUME NEW s \in Small(S, m), s # {}
                       PROVE  g[s] = Picked(s).cost + g[s \ {Picked(s)}]
          OBVIOUS
        <5>2. g[s] = Picked(s).cost + f[s \ {Picked(s)}]
          BY <5>1
        <5>3. g[s \ {Picked(s)}] = f[s \ {Picked(s)}]
          BY <5>1, <3>3, <3>4
        <5> QED
          BY <5>2, <5>3
      <4>2. g = [s \in Small(S, m) |-> g[s]]
        OBVIOUS
      <4> HIDE DEF g
      <4>3. [s \in Small(S, m) |-> g[s]] =
              [s \in Small(S, m) |-> IF s = {} THEN 0
                 ELSE Picked(s).cost + g[s \ {Picked(s)}]]
        BY <4>1
      <4> QED
        BY <4>2, <4>3 DEF Folds
    <3> QED
      BY <2>2, <3>1, <3>5
  <2> QED
    BY <2>3, <2>4
<1>2. Cardinality(S) \in Nat /\ Small(S, Cardinality(S)) = SUBSET S
  BY FS_Subset, FS_CardinalityType DEF Small, Bill
<1>3. \E f : Folds(f, Small(S, Cardinality(S)))
  BY <1>1, <1>2
<1> QED
  BY <1>2, <1>3

\* what a fold gives for a set: a row, whichever, and the rest
Splits(f, sets) ==
  /\ f[{}] = 0
  /\ \A s \in sets : f[s] \in Nat
  /\ \A s \in sets : \A x \in s : f[s] = x.cost + f[s \ {x}]

\* Whichever row is taken first, the total is the same.
LEMMA FoldSplits ==
  ASSUME NEW S, Bill(S), NEW f, Folds(f, SUBSET S)
  PROVE  Splits(f, SUBSET S)
<1> DEFINE Good(s) == /\ f[s] \in Nat
                      /\ \A x \in s : f[s] = x.cost + f[s \ {x}]
           Bad == {n \in Nat : \E s \in SUBSET S : Cardinality(s) = n /\ ~Good(s)}
<1>1. \A s \in SUBSET S :
        f[s] = IF s = {} THEN 0 ELSE Picked(s).cost + f[s \ {Picked(s)}]
  BY DEF Folds
<1>2. \A s \in SUBSET S : IsFiniteSet(s) /\ Cardinality(s) \in Nat
  BY FS_Subset, FS_CardinalityType DEF Bill
<1>3. Bad = {}
  <2>1. SUFFICES ASSUME Bad # {} PROVE FALSE
    OBVIOUS
  <2>2. PICK m \in Bad : \A n \in Bad : m <= n
    <3>1. Bad \subseteq Nat
      OBVIOUS
    <3> HIDE DEF Bad
    <3> QED
      BY <2>1, <3>1, LeastNat
  <2>3. PICK s \in SUBSET S : Cardinality(s) = m /\ ~Good(s)
    BY <2>2
  <2>4. ASSUME NEW r \in SUBSET S, Cardinality(r) < m
        PROVE  Good(r)
    <3>0. m \in Nat
      BY <2>2
    <3>1. Cardinality(r) \notin Bad
      <4> HIDE DEF Bad
      <4> QED
        BY <1>2, <2>2, <2>4, <3>0
    <3> QED
      BY <1>2, <3>1
  <2>5. s # {}
    BY <1>1, <2>3
  <2> DEFINE c == Picked(s)
  <2>6. c \in s /\ c.cost \in Nat
    BY <2>3, <2>5, PickedOne DEF Bill
  <2>7. \A x \in s : /\ s \ {x} \in SUBSET S /\ Good(s \ {x}) /\ x.cost \in Nat
    <3>1. SUFFICES ASSUME NEW x \in s
                   PROVE  s \ {x} \in SUBSET S /\ Good(s \ {x}) /\ x.cost \in Nat
      OBVIOUS
    <3>2. /\ s \ {x} \in SUBSET S
          /\ Cardinality(s \ {x}) < m
      <4>1. /\ Cardinality(s) \in Nat /\ Cardinality(s \ {x}) = Cardinality(s) - 1
        BY Smaller
      <4> QED
        BY <2>3, <4>1
    <3> QED
      BY <2>4, <3>2 DEF Bill
  <2>8. f[s] = c.cost + f[s \ {c}]
    BY <1>1, <2>5
  <2> HIDE DEF c
  <2>9. f[s] \in Nat
    <3>1. f[s \ {c}] \in Nat /\ c.cost \in Nat
      BY <2>6, <2>7
    <3> QED
      BY <2>8, <3>1
  <2>10. ASSUME NEW x \in s, x # c
         PROVE  f[s] = x.cost + f[s \ {x}]
    <3>1. f[s \ {c}] = x.cost + f[(s \ {c}) \ {x}]
      BY <2>6, <2>7, <2>10
    <3>2. f[s \ {x}] = c.cost + f[(s \ {x}) \ {c}]
      BY <2>6, <2>7, <2>10
    <3>3. (s \ {c}) \ {x} = (s \ {x}) \ {c}
      OBVIOUS
    <3>4. /\ f[s \ {c}] \in Nat /\ f[s \ {x}] \in Nat
          /\ x.cost \in Nat /\ c.cost \in Nat
      BY <2>6, <2>7
    <3>5. PICK rest : rest = f[(s \ {x}) \ {c}]
      OBVIOUS
    <3>6. rest \in Nat
      <4>1. (s \ {x}) \ {c} \in SUBSET S /\ Cardinality((s \ {x}) \ {c}) < m
        <5>1. c \in s \ {x}
          BY <2>6, <2>10
        <5>2. Cardinality((s \ {x}) \ {c}) = Cardinality(s \ {x}) - 1
          BY <2>7, <5>1, Smaller
        <5>3. Cardinality(s \ {x}) = m - 1 /\ m \in Nat
          BY <2>3, Smaller
        <5> QED
          BY <2>7, <5>2, <5>3
      <4> QED
        BY <2>4, <3>5, <4>1
    <3>7. f[s \ {c}] = x.cost + rest /\ f[s \ {x}] = c.cost + rest
      BY <3>1, <3>2, <3>3, <3>5
    <3> QED
      BY <2>8, <3>4, <3>6, <3>7
  <2>11. Good(s)
    BY <2>8, <2>9, <2>10
  <2> QED
    BY <2>3, <2>11
<1>4. ASSUME NEW s \in SUBSET S PROVE Good(s)
  BY <1>2, <1>3
<1> QED
  BY <1>1, <1>4 DEF Splits

\* two folds agree where both are defined
LEMMA FoldsAgree ==
  ASSUME NEW S, Bill(S), NEW T \in SUBSET S, NEW f, Folds(f, SUBSET S),
         NEW g, Folds(g, SUBSET T)
  PROVE  g[T] = f[T]
<1> DEFINE Bad == {n \in Nat : \E s \in SUBSET T : Cardinality(s) = n /\ g[s] # f[s]}
<1>1. /\ Bill(T)
      /\ \A s \in SUBSET T : Cardinality(s) \in Nat
  BY FS_Subset, FS_CardinalityType DEF Bill
<1>2. Bad = {}
  <2>1. SUFFICES ASSUME Bad # {} PROVE FALSE
    OBVIOUS
  <2>2. PICK m \in Bad : \A n \in Bad : m <= n
    <3>1. Bad \subseteq Nat
      OBVIOUS
    <3> HIDE DEF Bad
    <3> QED
      BY <2>1, <3>1, LeastNat
  <2>3. PICK s \in SUBSET T : Cardinality(s) = m /\ g[s] # f[s]
    BY <2>2
  <2>4. s # {}
    <3>1. Splits(f, SUBSET S) /\ Splits(g, SUBSET T)
      BY <1>1, FoldSplits
    <3> QED
      BY <2>3, <3>1 DEF Splits
  <2>5. PICK x \in s : TRUE
    BY <2>4
  <2>6. /\ s \ {x} \in SUBSET T /\ Cardinality(s) \in Nat
        /\ Cardinality(s \ {x}) = Cardinality(s) - 1
    BY <1>1, Smaller
  <2>7. g[s \ {x}] = f[s \ {x}]
    <3>1. Cardinality(s \ {x}) \in Nat /\ Cardinality(s \ {x}) < m
      BY <1>1, <2>3, <2>6
    <3>2. Cardinality(s \ {x}) \notin Bad
      <4>1. m \in Nat
        BY <2>2
      <4> HIDE DEF Bad
      <4> QED
        BY <2>2, <3>1, <4>1
    <3> QED
      BY <2>6, <3>1, <3>2
  <2>8. g[s] = x.cost + g[s \ {x}]
    <3>1. Splits(g, SUBSET T)
      BY <1>1, FoldSplits
    <3> QED
      BY <3>1, <2>3, <2>5 DEF Splits
  <2>9. f[s] = x.cost + f[s \ {x}]
    <3>1. Splits(f, SUBSET S)
      BY FoldSplits
    <3>2. s \in SUBSET S
      BY <2>3
    <3> QED
      BY <3>1, <3>2, <2>5 DEF Splits
  <2> QED
    BY <2>3, <2>7, <2>8, <2>9
<1>3. Cardinality(T) \in Nat /\ T \in SUBSET T
  BY <1>1
<1> QED
  BY <1>2, <1>3

\* the cost of a part is what a fold over the whole gives
LEMMA CostOfPart ==
  ASSUME NEW S, Bill(S), NEW f, Folds(f, SUBSET S), NEW T \in SUBSET S
  PROVE  Cost(T) = f[T]
<1> DEFINE g == CHOOSE f1 : Folds(f1, SUBSET T)
<1>1. Bill(T)
  BY FS_Subset DEF Bill
<1>2. Folds(g, SUBSET T)
  BY <1>1, FoldExists
<1>3. Cost(T) = g[T]
  BY DEF Cost
<1> HIDE DEF g
<1> QED
  BY <1>2, <1>3, FoldsAgree

\* more rows cost more
LEMMA CostGrows ==
  ASSUME NEW S, Bill(S), NEW T \in SUBSET S
  PROVE  Bill(T) /\ Cost(T) \in Nat /\ Cost(S) \in Nat /\ Cost(T) <= Cost(S)
<1>1. PICK f : Folds(f, SUBSET S)
  BY FoldExists
<1>2. \A s \in SUBSET S : /\ f[s] \in Nat /\ Cost(s) = f[s]
                          /\ \A x \in s : f[s] = x.cost + f[s \ {x}]
  <2>1. \A s \in SUBSET S : Cost(s) = f[s]
    BY <1>1, CostOfPart
  <2>2. Splits(f, SUBSET S)
    BY <1>1, FoldSplits
  <2> QED
    BY <2>1, <2>2 DEF Splits
<1> DEFINE Bad == {n \in Nat : \E s \in SUBSET S : /\ T \subseteq s
                                                   /\ Cardinality(s) = n
                                                   /\ f[s] < f[T]}
<1>3. \A s \in SUBSET S : Cardinality(s) \in Nat
  BY FS_Subset, FS_CardinalityType DEF Bill
<1>4. Bad = {}
  <2>1. SUFFICES ASSUME Bad # {} PROVE FALSE
    OBVIOUS
  <2>2. PICK m \in Bad : \A n \in Bad : m <= n
    <3>1. Bad \subseteq Nat
      OBVIOUS
    <3> HIDE DEF Bad
    <3> QED
      BY <2>1, <3>1, LeastNat
  <2>3. PICK s \in SUBSET S : T \subseteq s /\ Cardinality(s) = m /\ f[s] < f[T]
    BY <2>2
  <2>4. PICK x \in s : x \notin T
    <3>1. s # T
      BY <1>2, <2>3
    <3> QED
      BY <2>3, <3>1
  <2>5. /\ s \ {x} \in SUBSET S /\ T \subseteq s \ {x}
        /\ Cardinality(s) \in Nat
        /\ Cardinality(s \ {x}) = Cardinality(s) - 1
    BY <2>3, <2>4, Smaller
  <2>6. f[s \ {x}] < f[T]
    <3>1. /\ f[s] = x.cost + f[s \ {x}] /\ x.cost \in Nat
          /\ f[s \ {x}] \in Nat /\ f[s] \in Nat /\ f[T] \in Nat
      BY <1>2, <2>3, <2>4, <2>5 DEF Bill
    <3> QED
      BY <2>3, <3>1
  <2>7. Cardinality(s \ {x}) \in Bad
    BY <1>3, <2>5, <2>6
  <2>8. m \in Nat /\ Cardinality(s \ {x}) < m
    BY <2>2, <2>3, <2>5
  <2>9. m <= Cardinality(s \ {x}) /\ Cardinality(s \ {x}) \in Nat
    <3> HIDE DEF Bad
    <3> QED
      BY <1>3, <2>2, <2>5, <2>7
  <2> QED
    BY <2>8, <2>9
<1>5. ~ (f[S] < f[T])
  <2>1. Cardinality(S) \in Nat /\ S \in SUBSET S
    BY <1>3
  <2> QED
    BY <1>4, <2>1
<1>6. f[S] \in Nat /\ f[T] \in Nat /\ Cost(S) = f[S] /\ Cost(T) = f[T]
  BY <1>2
<1>7. Bill(T)
  BY FS_Subset DEF Bill
<1> QED
  BY <1>5, <1>6, <1>7

\* a row adds its cost
LEMMA CostAdds ==
  ASSUME NEW S, Bill(S), NEW x, x \notin S, x.cost \in Nat
  PROVE  Bill(S \cup {x}) /\ Cost(S \cup {x}) = Cost(S) + x.cost
<1> DEFINE all == S \cup {x}
<1>1. Bill(all)
  BY FS_AddElement DEF Bill
<1>2. all \in SUBSET all /\ S \in SUBSET all /\ x \in all /\ all \ {x} = S
  OBVIOUS
<1> HIDE DEF all
<1>3. PICK f : Folds(f, SUBSET all)
  BY <1>1, FoldExists
<1>4. /\ f[all] = x.cost + f[all \ {x}]
      /\ Cost(all) = f[all] /\ Cost(S) = f[S] /\ f[S] \in Nat
  <2>1. Cost(all) = f[all] /\ Cost(S) = f[S]
    BY <1>1, <1>2, <1>3, CostOfPart
  <2>2. Splits(f, SUBSET all)
    BY <1>1, <1>3, FoldSplits
  <2> QED
    BY <1>2, <2>1, <2>2 DEF Splits
<1>5. f[all \ {x}] = f[S]
  BY <1>2
<1>6. Cost(all) = Cost(S) + x.cost
  BY <1>4, <1>5
<1> QED
  BY <1>1, <1>6 DEF all

\* no row costs nothing
LEMMA CostOfNothing == Bill({}) /\ Cost({}) = 0
<1>1. Bill({})
  BY FS_EmptySet DEF Bill
<1>2. PICK f : Folds(f, SUBSET {})
  BY <1>1, FoldExists
<1>3. Splits(f, SUBSET {})
  BY <1>1, <1>2, FoldSplits
<1>4. Cost({}) = f[{}]
  BY <1>1, <1>2, CostOfPart
<1> QED
  BY <1>1, <1>3, <1>4 DEF Splits
-----------------------------------------------------------------------------
(* The row of _EPINS a purchase is about to insert, and the rows an        *)
(* account has bought: those in the table and those in flight.             *)
Ordered(t) == NewEpin(req[t].code, req[t].user, req[t].package)

Bought(u) ==
  {row \in epins : row.creator = u} \cup
  {Ordered(t) : t \in {s \in Threads : at[s] = "insert" /\ req[s].user = u}}

(* Codes do not repeat.                                                    *)
CodesApart ==
  /\ \A t \in Threads : at[t] \in PurchasePoints =>
       \A row \in epins : row.code # req[t].code
  /\ \A s, t \in Threads :
       s # t /\ at[s] \in PurchasePoints /\ at[t] \in PurchasePoints =>
         req[s].code # req[t].code
  /\ \A r1, r2 \in epins : r1.code = r2.code => r1 = r2

BillsPaid ==
  \A u \in Users : Bill(Bought(u)) /\ Cost(Bought(u)) <= paid[u]

SpendInv == IssueInv /\ CodesApart /\ BillsPaid

LEMMA SpendInit == Init => SpendInv
<1> SUFFICES ASSUME Init PROVE SpendInv
  OBVIOUS
<1>1. \A u \in Users : Bought(u) = {} /\ paid[u] = 0
  BY DEF Init, Bought
<1>2. BillsPaid
  <2> SUFFICES ASSUME NEW u \in Users
               PROVE  Bill(Bought(u)) /\ Cost(Bought(u)) <= paid[u]
    BY DEF BillsPaid
  <2>1. Bill(Bought(u)) /\ Cost(Bought(u)) = 0 /\ paid[u] = 0
    BY <1>1, CostOfNothing, Zenon
  <2> QED
    BY <2>1
<1>3. CodesApart
  BY DEF Init, CodesApart, PurchasePoints
<1> QED
  BY <1>2, <1>3, IssueInit DEF SpendInv

(* What a step that buys nothing leaves of the bills.                      *)
LEMMA BillsShrink ==
  ASSUME SpendInv, TypeInv', paid' = paid,
         \A u \in Users : Bought(u)' \subseteq Bought(u)
  PROVE  BillsPaid'
<1> SUFFICES ASSUME NEW u \in Users
             PROVE  Bill(Bought(u)') /\ Cost(Bought(u)') <= paid[u]
  BY DEF BillsPaid
<1>1. Bill(Bought(u)) /\ Cost(Bought(u)) <= paid[u] /\ paid[u] \in Nat
  BY DEF SpendInv, BillsPaid, IssueInv, TypeInv, TypeOK
<1>2. /\ Bill(Bought(u)') /\ Cost(Bought(u)') \in Nat
      /\ Cost(Bought(u)) \in Nat /\ Cost(Bought(u)') <= Cost(Bought(u))
  BY <1>1, CostGrows
<1> QED
  BY <1>1, <1>2

(* A step after which no more purchases are in flight.                     *)
LEMMA NothingBought ==
  ASSUME SpendInv, TypeInv', paid' = paid, epins' = epins,
         \A t \in Threads : at'[t] = "insert" =>
           at[t] = "insert" /\ req'[t] = req[t]
  PROVE  BillsPaid'
<1>1. \A u \in Users : Bought(u)' \subseteq Bought(u)
  BY DEF Bought, Ordered
<1> QED
  BY <1>1, BillsShrink

(* A step that begins no purchase and writes no code.                      *)
LEMMA CodesStayApart ==
  ASSUME CodesApart, epins' = epins,
         \A t \in Threads : at'[t] \in PurchasePoints =>
           at[t] \in PurchasePoints /\ req'[t].code = req[t].code
  PROVE  CodesApart'
BY DEF CodesApart

LEMMA SpendStep == SpendInv /\ [Next]_vars => SpendInv'
<1> SUFFICES ASSUME SpendInv, [Next]_vars PROVE SpendInv'
  OBVIOUS
<1>0. /\ TypeInv /\ IssueInv /\ CodesApart /\ BillsPaid
      /\ TypeInv' /\ IssueInv'
  BY IssueStep DEF SpendInv, IssueInv
<1>a. ASSUME NEW t \in Threads, NEW from \in Points \ PurchasePoints, NEW request,
             Begin(t, from, request), epins' = epins, paid' = paid
      PROVE  SpendInv'
  <2>1. "insert" \in PurchasePoints /\ from \in Points
    BY DEF PurchasePoints
  <2>2. BillsPaid'
    BY <1>0, <1>a, <2>1, BeginMoves, NothingBought
  <2>3. CodesApart'
    BY <1>0, <1>a, <2>1, BeginMoves, CodesStayApart
  <2> QED
    BY <1>0, <2>2, <2>3 DEF SpendInv
<1>b. ASSUME NEW t \in Threads, NEW from, Answer(t, from), epins' = epins,
             paid' = paid
      PROVE  SpendInv'
  <2>1. "idle" \notin PurchasePoints
    BY DEF PurchasePoints
  <2>2. BillsPaid'
    BY <1>0, <1>b, <2>1, AnswerMoves, NothingBought
  <2>3. CodesApart'
    BY <1>0, <1>b, <2>1, AnswerMoves, CodesStayApart
  <2> QED
    BY <1>0, <2>2, <2>3 DEF SpendInv
<1>1. ASSUME NEW t \in Threads, NEW u \in Users, NEW p \in Packages,
             NEW c \in Codes, GenerateCode(t, u, p, c)
      PROVE  SpendInv'
  <2> DEFINE request == [user |-> u, row |-> Row(u), package |-> p, code |-> c]
  <2>1. /\ Begin(t, "lookup", request) /\ "lookup" \in Points
        /\ "lookup" \in PurchasePoints
        /\ request.code = c /\ epins' = epins /\ paid' = paid
    BY <1>1 DEF GenerateCode, Points, PurchasePoints, rows, history
  <2> HIDE DEF request
  <2>2. /\ at'[t] = "lookup" /\ req'[t].code = c
        /\ \A s \in Threads \ {t} : at'[s] = at[s] /\ req'[s] = req[s]
    BY <1>0, <2>1, BeginMoves
  <2>3. BillsPaid'
    BY <1>0, <2>1, <2>2, NothingBought
  <2>4. /\ \A row \in epins : row.code # c
        /\ \A s \in Threads : at[s] \in PurchasePoints => req[s].code # c
    BY <1>1 DEF GenerateCode, Fresh
  <2>5. CodesApart'
    BY <1>0, <2>1, <2>2, <2>4 DEF CodesApart
  <2> QED
    BY <1>0, <2>3, <2>5 DEF SpendInv
<1>2. ASSUME NEW t \in Threads, FindAccount(t) PROVE SpendInv'
  <2>1. epins' = epins /\ paid' = paid
    BY <1>2 DEF FindAccount, rows, history
  <2>2. CASE Goto(t, "lookup", "save")
    <3>1. "save" \in Points /\ {"lookup", "save"} \subseteq PurchasePoints
      BY DEF Points, PurchasePoints
    <3>2. /\ at[t] = "lookup" /\ at'[t] = "save" /\ req' = req
          /\ \A s \in Threads \ {t} : at'[s] = at[s]
      BY <1>0, <2>2, <3>1, GotoMoves
    <3>3. BillsPaid'
      BY <1>0, <2>1, <3>2, NothingBought
    <3>4. CodesApart'
      BY <1>0, <2>1, <3>1, <3>2, CodesStayApart
    <3> QED
      BY <1>0, <3>3, <3>4 DEF SpendInv
  <2>3. CASE Answer(t, "lookup")
    BY <1>b, <2>1, <2>3
  <2> QED
    BY <1>2, <2>2, <2>3 DEF FindAccount
<1>3. ASSUME NEW t \in Threads, SavePins(t) PROVE SpendInv'
  <2> DEFINE r == req[t]
  <2>1. /\ Goto(t, "save", "insert") /\ "insert" \in Points /\ epins' = epins
        /\ {"save", "insert"} \subseteq PurchasePoints
    BY <1>3 DEF SavePins, Points, PurchasePoints
  <2>2. /\ at[t] = "save" /\ at'[t] = "insert" /\ req' = req
        /\ \A s \in Threads \ {t} : at'[s] = at[s]
    BY <1>0, <2>1, GotoMoves
  <2>3. r \in Purchase /\ r.package \in Indices /\ r.user \notin Unsaveable
    BY <1>0, <2>1, <2>2
       DEF TypeInv, TypeOK, RequestOK, PackagePriced, IssueInv, BuyersSave
  <2>4. PICK buyer \in Users : buyer = r.user
    BY <2>3 DEF Purchase
  <2>a. Price(r.package) \in Nat
    BY <2>3, CatalogueNat
  <2>5. /\ paid' = [paid EXCEPT ![buyer] = @ + Price(r.package)]
        /\ paid \in [Users -> Nat]
    BY <1>0, <1>3, <2>3, <2>4 DEF SavePins, TypeInv, TypeOK
  <2>6. CodesApart'
    BY <1>0, <2>1, <2>2, CodesStayApart
  <2>7. Ordered(t).cost = Price(r.package) /\ Ordered(t).code = r.code
    BY DEF Ordered, NewEpin
  <2>8. Ordered(t) \notin Bought(buyer)
    <3>1. \A row \in epins : row.code # r.code
      BY <1>0, <2>1, <2>2 DEF CodesApart
    <3>2. \A s \in Threads : at[s] = "insert" => req[s].code # r.code
      BY <1>0, <2>1, <2>2 DEF CodesApart
    <3>3. \A s \in Threads : Ordered(s).code = req[s].code
      BY DEF Ordered, NewEpin
    <3> QED
      BY <2>7, <3>1, <3>2, <3>3 DEF Bought
  <2>9. /\ Bought(buyer)' \subseteq Bought(buyer) \cup {Ordered(t)}
        /\ \A u \in Users \ {buyer} : Bought(u)' \subseteq Bought(u)
    BY <2>1, <2>2, <2>4 DEF Bought, Ordered
  <2>10. ASSUME NEW u \in Users, u # buyer
         PROVE  Bill(Bought(u)') /\ Cost(Bought(u)') <= paid'[u]
    <3>1. Bill(Bought(u)) /\ Cost(Bought(u)) <= paid[u] /\ paid'[u] = paid[u]
      BY <1>0, <2>5, <2>10 DEF BillsPaid
    <3>2. /\ Bill(Bought(u)') /\ Cost(Bought(u)') \in Nat
          /\ Cost(Bought(u)) \in Nat /\ Cost(Bought(u)') <= Cost(Bought(u))
      BY <2>9, <2>10, <3>1, CostGrows
    <3>3. paid[u] \in Nat
      BY <2>5
    <3> QED
      BY <3>1, <3>2, <3>3
  <2>11. Bill(Bought(buyer)') /\ Cost(Bought(buyer)') <= paid'[buyer]
    <3> DEFINE b == Bought(buyer)
    <3>1. Bill(b) /\ Cost(b) <= paid[buyer]
      BY <1>0, <2>4 DEF BillsPaid
    <3>2. /\ Bill(b \cup {Ordered(t)})
          /\ Cost(b \cup {Ordered(t)}) = Cost(b) + Price(r.package)
      BY <2>a, <2>7, <2>8, <3>1, CostAdds
    <3>3. /\ Bill(b') /\ Cost(b') \in Nat
          /\ Cost(b') <= Cost(b \cup {Ordered(t)})
      BY <2>9, <3>2, CostGrows
    <3>4. /\ Cost(b) \in Nat /\ paid[buyer] \in Nat
          /\ paid'[buyer] = paid[buyer] + Price(r.package)
      BY <2>a, <2>5, <3>1, CostGrows
    <3> HIDE DEF b
    <3>5. Cost(b') <= paid'[buyer]
      BY <2>a, <3>1, <3>2, <3>3, <3>4
    <3> QED
      BY <3>3, <3>5 DEF b
  <2>12. BillsPaid'
    <3> SUFFICES ASSUME NEW u \in Users
                 PROVE  Bill(Bought(u)') /\ Cost(Bought(u)') <= paid'[u]
      BY DEF BillsPaid
    <3> QED
      BY <2>10, <2>11, Zenon
  <2> QED
    BY <1>0, <2>6, <2>12 DEF SpendInv
<1>4. ASSUME NEW t \in Threads, InsertEpin(t) PROVE SpendInv'
  <2>1. /\ Answer(t, "insert") /\ epins' = epins \cup {Ordered(t)} /\ paid' = paid
        /\ "insert" \in PurchasePoints /\ "idle" \notin PurchasePoints
    BY <1>4 DEF InsertEpin, Ordered, history, PurchasePoints
  <2>2. /\ at[t] = "insert" /\ at'[t] = "idle"
        /\ \A s \in Threads \ {t} : at'[s] = at[s] /\ req'[s] = req[s]
    BY <1>0, <2>1, AnswerMoves
  <2>3. /\ Ordered(t).creator = req[t].user /\ Ordered(t).code = req[t].code
    BY DEF Ordered, NewEpin
  <2>4. \A u \in Users : Bought(u)' \subseteq Bought(u)
    <3>1. ASSUME NEW u \in Users, NEW s \in Threads, at'[s] = "insert", req'[s].user = u
          PROVE  Ordered(s)' \in Bought(u)
      BY <2>2, <3>1 DEF Bought, Ordered
    <3>2. ASSUME NEW u \in Users, NEW row \in epins', row.creator = u
          PROVE  row \in Bought(u)
      BY <2>1, <2>2, <2>3, <3>2 DEF Bought
    <3> QED
      BY <3>1, <3>2 DEF Bought
  <2>5. BillsPaid'
    BY <1>0, <2>1, <2>4, BillsShrink
  <2>6. CodesApart'
    BY <1>0, <2>1, <2>2, <2>3 DEF CodesApart
  <2> QED
    BY <1>0, <2>5, <2>6 DEF SpendInv
<1>5. ASSUME NEW t \in Threads, NEW u \in Users, NEW n \in Amounts, AddPins(t, u, n)
      PROVE  SpendInv'
  <2>1. "write" \in Points \ PurchasePoints
    BY DEF Points, PurchasePoints
  <2> QED
    BY <1>5, <1>a, <2>1 DEF AddPins, rows, history
<1>6. ASSUME NEW t \in Threads, WritePins(t) PROVE SpendInv'
  BY <1>6, <1>b DEF WritePins
<1>7. ASSUME NEW t \in Threads, NEW u \in Users, BeSeller(t, u) PROVE SpendInv'
  <2>1. {"revoke", "grant"} \subseteq Points \ PurchasePoints
    BY DEF Points, RolePoints, PurchasePoints
  <2> QED
    BY <1>7, <1>a, <2>1 DEF BeSeller, rows, history
<1>8. ASSUME NEW t \in Threads, GrantSeller(t) PROVE SpendInv'
  BY <1>8, <1>b DEF GrantSeller, history
<1>9. ASSUME NEW t \in Threads, RevokeSeller(t) PROVE SpendInv'
  <2>1. /\ Goto(t, "revoke", "forfeit") /\ "forfeit" \in Points
        /\ "forfeit" \notin PurchasePoints /\ epins' = epins /\ paid' = paid
    BY <1>9 DEF RevokeSeller, Points, RolePoints, PurchasePoints, history
  <2>2. /\ at'[t] = "forfeit" /\ req' = req
        /\ \A s \in Threads \ {t} : at'[s] = at[s]
    BY <1>0, <2>1, GotoMoves
  <2>3. BillsPaid'
    BY <1>0, <2>1, <2>2, NothingBought
  <2>4. CodesApart'
    BY <1>0, <2>1, <2>2, CodesStayApart
  <2> QED
    BY <1>0, <2>3, <2>4 DEF SpendInv
<1>10. ASSUME NEW t \in Threads, ForfeitPins(t) PROVE SpendInv'
  BY <1>10, <1>b DEF ForfeitPins
<1>11. ASSUME NEW t \in Threads, Raise(t) PROVE SpendInv'
  BY <1>11, <1>b DEF Raise, rows, history
<1>12. ASSUME NEW u \in Users, NEW c \in Codes, ChargeCode(u, c) PROVE SpendInv'
  <2> DEFINE New(row) == IF row.code = c /\ row.usedBy = Nobody
                         THEN [row EXCEPT !.usedBy = u] ELSE row
  <2>1. /\ epins' = {New(row) : row \in epins}
        /\ at' = at /\ req' = req /\ paid' = paid
    BY <1>12 DEF ChargeCode, Charged, control, history
  <2>2. \A row \in epins : /\ New(row).code = row.code
                           /\ New(row).creator = row.creator
                           /\ New(row).cost = row.cost
    BY <1>0 DEF TypeInv, TypeOK, EpinRow
  <2> HIDE DEF New
  <2>3. CodesApart'
    BY <1>0, <2>1, <2>2 DEF CodesApart
  <2>4. ASSUME NEW v \in Users
        PROVE  Bill(Bought(v)') /\ Cost(Bought(v)') <= paid[v]
    <3>1. Bill(Bought(v)) /\ Cost(Bought(v)) <= paid[v] /\ paid[v] \in Nat
      BY <1>0 DEF BillsPaid, TypeInv, TypeOK
    <3>2. CASE \A row \in epins : row.creator = v => New(row) = row
      <4>1. Bought(v)' \subseteq Bought(v)
        BY <2>1, <2>2, <3>2 DEF Bought, Ordered
      <4>2. /\ Bill(Bought(v)') /\ Cost(Bought(v)') \in Nat
            /\ Cost(Bought(v)) \in Nat /\ Cost(Bought(v)') <= Cost(Bought(v))
        BY <3>1, <4>1, CostGrows
      <4> QED
        BY <3>1, <4>2
    <3>3. CASE \E row \in epins : row.creator = v /\ New(row) # row
      <4>1. PICK row \in epins : row.creator = v /\ New(row) # row
        BY <3>3
      <4>2. row.code = c /\ \A other \in epins : other # row => New(other) = other
        BY <1>0, <4>1 DEF CodesApart, New
      <4> DEFINE b == Bought(v)
                 rest == b \ {row}
                 new == New(row)
      <4>3. b' \subseteq rest \cup {new}
        <5>1. ASSUME NEW other \in epins', other.creator = v
              PROVE  other \in rest \cup {new}
          BY <2>1, <2>2, <4>1, <4>2, <5>1 DEF Bought
        <5>2. ASSUME NEW t \in Threads, at[t] = "insert", req[t].user = v
              PROVE  Ordered(t) \in rest
          <6>1. Ordered(t).code = req[t].code /\ "insert" \in PurchasePoints
            BY DEF Ordered, NewEpin, PurchasePoints
          <6>2. Ordered(t) # row
            BY <1>0, <4>1, <5>2, <6>1 DEF CodesApart
          <6> QED
            BY <5>2, <6>2 DEF Bought
        <5> QED
          BY <2>1, <5>1, <5>2 DEF Bought, Ordered
      <4>4. row \in b /\ new.cost = row.cost /\ row.cost \in Nat
        BY <1>0, <2>2, <4>1 DEF Bought, TypeInv, TypeOK, EpinRow
      <4> HIDE DEF b, new
      <4>5. /\ Bill(rest) /\ Cost(rest) \in Nat
            /\ Cost(b) = Cost(rest) + row.cost
        <5>1. Bill(rest) /\ Cost(rest) \in Nat
          BY <3>1, CostGrows DEF b
        <5>2. row \notin rest /\ rest \cup {row} = b
          BY <4>4
        <5> HIDE DEF rest
        <5> QED
          BY <4>4, <5>1, <5>2, CostAdds
      <4>6. /\ Bill(rest \cup {new})
            /\ Cost(rest \cup {new}) <= Cost(rest) + row.cost
        <5> HIDE DEF rest
        <5>1. CASE new \in rest
          <6>1. rest \cup {new} = rest
            BY <5>1
          <6>2. Cost(rest) <= Cost(rest) + row.cost
            BY <4>4, <4>5
          <6> QED
            BY <4>5, <6>1, <6>2, Zenon
        <5>2. CASE new \notin rest
          <6>1. /\ Bill(rest \cup {new})
                /\ Cost(rest \cup {new}) = Cost(rest) + new.cost
            BY <4>4, <4>5, <5>2, CostAdds
          <6> QED
            BY <4>4, <4>5, <6>1
        <5> QED
          BY <5>1, <5>2
      <4>7. /\ Bill(b') /\ Cost(b') \in Nat
            /\ Cost(b') <= Cost(rest \cup {new}) /\ Cost(rest \cup {new}) \in Nat
        <5> HIDE DEF rest
        <5> QED
          BY <4>3, <4>6, CostGrows
      <4>8. Cost(b') <= paid[v]
        BY <3>1, <4>4, <4>5, <4>6, <4>7 DEF b
      <4> QED
        BY <4>7, <4>8 DEF b
    <3> QED
      BY <3>2, <3>3
  <2>5. BillsPaid'
    BY <2>1, <2>4 DEF BillsPaid
  <2> QED
    BY <1>0, <2>3, <2>5 DEF SpendInv
<1>13. CASE UNCHANGED vars
  <2>1. BillsPaid'
    BY <1>0, <1>13, NothingBought DEF vars, rows, control, history
  <2>2. CodesApart'
    BY <1>0, <1>13, CodesStayApart DEF vars, rows, control, history
  <2> QED
    BY <1>0, <2>1, <2>2 DEF SpendInv
<1> QED
  BY <1>1, <1>2, <1>3, <1>4, <1>5, <1>6, <1>7, <1>8, <1>9, <1>10, <1>11, <1>12,
     <1>13 DEF Next, Step

(* The codes an account created never cost more than it has paid, however  *)
(* many purchases are under way and wherever they were cut off             *)
(* (preferences_controller.rb:28-31): the price is taken before the row is *)
(* inserted, and a row in flight counts as bought.                         *)
THEOREM CodesWithinPayments == Spec => []SpentWithinPaid
<1>1. SpendInv => SpentWithinPaid
  <2> SUFFICES ASSUME SpendInv, NEW u \in Users PROVE Spent(u) <= paid[u]
    BY DEF SpentWithinPaid
  <2>1. Bill(Bought(u)) /\ Cost(Bought(u)) <= paid[u] /\ paid[u] \in Nat
    BY DEF SpendInv, BillsPaid, IssueInv, TypeInv, TypeOK
  <2> DEFINE issued == {row \in epins : row.creator = u}
  <2>2. issued \in SUBSET Bought(u)
    BY DEF Bought
  <2> HIDE DEF issued
  <2>3. /\ Cost(issued) \in Nat /\ Cost(Bought(u)) \in Nat
        /\ Cost(issued) <= Cost(Bought(u))
    BY <2>1, <2>2, CostGrows
  <2>4. Spent(u) = Cost(issued)
    BY SpentIsCost DEF issued
  <2> QED
    BY <2>1, <2>3, <2>4
<1> QED
  BY SpendInit, SpendStep, <1>1, PTL DEF Spec
-----------------------------------------------------------------------------
(***************************************************************************)
(* What one request thread adds (RAILS_MAX_THREADS=1, config/puma.rb:7):   *)
(* the row a handler loaded is still the row when it writes, so credit is  *)
(* conserved, a revocation takes it all, and the handlers implement the    *)
(* ledger of CreditLedger.  The run pins_overspend shows that two threads  *)
(* are enough to lose the first and the third.                             *)
(***************************************************************************)
OneThread == \A s, t \in Threads : s = t

(* The loaded credit is the account's credit until the handler changes it. *)
PinsCurrent ==
  \A t \in Threads : at[t] \notin {"idle", "insert"} =>
    req[t].row.pins = pins[req[t].user]

(* The buyer is a seller and the code is unused until it is inserted.      *)
PurchaseCurrent ==
  \A t \in Threads : at[t] \in PurchasePoints =>
    /\ seller[req[t].user]
    /\ \A row \in epins : row.code # req[t].code

(* A revocation has taken the role when it comes to take the credit.       *)
RevocationCurrent ==
  \A t \in Threads :
    /\ at[t] \in {"revoke", "forfeit"} => req[t].user \notin Unsaveable
    /\ at[t] = "forfeit" => ~seller[req[t].user]

SerialInv ==
  /\ CreditInv /\ IssueInv
  /\ PinsCurrent /\ PurchaseCurrent /\ RevocationCurrent /\ Conservation

LEMMA SerialInit == Init => SerialInv
BY CreditInit, IssueInit
   DEF Init, SerialInv, PinsCurrent, PurchaseCurrent, RevocationCurrent,
       Conservation, PurchasePoints

LEMMA SerialStep == OneThread /\ SerialInv /\ [Next]_vars => SerialInv'
<1> SUFFICES ASSUME OneThread, SerialInv, [Next]_vars PROVE SerialInv'
  OBVIOUS
<1>0. /\ TypeInv /\ CreditInv /\ IssueInv
      /\ TypeInv' /\ CreditInv' /\ IssueInv'
  BY CreditStep, IssueStep DEF SerialInv, CreditInv
<1> DEFINE Current == PinsCurrent /\ PurchaseCurrent /\ RevocationCurrent /\ Conservation
<1> SUFFICES Current'
  BY <1>0 DEF SerialInv
<1>a. Current
  BY DEF SerialInv
<1>b. /\ \A t \in Threads : at[t] # "idle" => req[t].user \in Users /\ req[t].row \in LoadedRow
      /\ \A t \in Threads : at[t] \in PurchasePoints => req[t].code \in Codes
  BY <1>0, HeldRow DEF TypeInv, TypeOK, RequestOK, Purchase
<1> USE DEF PinsCurrent, PurchaseCurrent, RevocationCurrent, Conservation, OneThread
<1>1. ASSUME NEW t \in Threads, NEW u \in Users, NEW p \in Packages,
             NEW c \in Codes, GenerateCode(t, u, p, c)
      PROVE  Current'
  <2> DEFINE request == [user |-> u, row |-> Row(u), package |-> p, code |-> c]
  <2>1. /\ Begin(t, "lookup", request) /\ "lookup" \in Points
        /\ request.user = u /\ request.row.pins = pins[u] /\ request.code = c
    BY <1>1 DEF GenerateCode, Points, PurchasePoints, Row
  <2>2. at'[t] = "lookup" /\ req'[t] = request
    BY <1>0, <2>1, BeginMoves
  <2> HIDE DEF request
  <2> QED
    BY <1>1, <1>a, <2>1, <2>2 DEF GenerateCode, Fresh, rows, history
<1>2. ASSUME NEW t \in Threads, FindAccount(t) PROVE Current'
  <2>1. CASE Goto(t, "lookup", "save")
    <3>1. "save" \in Points /\ {"lookup", "save"} \subseteq PurchasePoints
      BY DEF Points, PurchasePoints
    <3> QED
      BY <1>0, <1>2, <1>a, <2>1, <3>1, GotoMoves DEF FindAccount, rows, history
  <2>2. CASE Answer(t, "lookup")
    BY <1>0, <1>2, <1>a, <2>2, AnswerMoves DEF FindAccount, rows, history, PurchasePoints
  <2> QED
    BY <1>2, <2>1, <2>2 DEF FindAccount
<1>3. ASSUME NEW t \in Threads, SavePins(t) PROVE Current'
  <2> DEFINE r == req[t]
  <2>1. Goto(t, "save", "insert") /\ "insert" \in Points /\ {"save", "insert"} \subseteq PurchasePoints
    BY <1>3 DEF SavePins, Points, PurchasePoints
  <2>2. at[t] = "save" /\ at'[t] = "insert" /\ req' = req
    BY <1>0, <2>1, GotoMoves
  <2>3. /\ r.user \in Users \ Unsaveable /\ r.row.pins = pins[r.user]
        /\ Price(r.package) \in Nat
    BY <1>0, <1>a, <1>b, <2>1, <2>2, CatalogueNat
       DEF IssueInv, BuyersSave, TypeInv, PackagePriced
  <2>4. /\ pins' = IF Price(r.package) # 0
                     THEN [pins EXCEPT ![r.user] = r.row.pins - Price(r.package)] ELSE pins
        /\ paid' = [paid EXCEPT ![r.user] = @ + Price(r.package)]
        /\ UNCHANGED <<seller, epins, funded, forfeited>>
    BY <1>3, <2>3 DEF SavePins
  <2>5. Conservation'
    <3> SUFFICES ASSUME NEW u \in Users
                 PROVE  funded'[u] = pins'[u] + paid'[u] + forfeited'[u]
      OBVIOUS
    <3>1. funded[u] = pins[u] + paid[u] + forfeited[u]
      BY <1>a
    <3>2. pins[u] \in Int /\ paid[u] \in Int /\ forfeited[u] \in Int
      BY <1>0 DEF TypeInv, TypeOK
    <3> QED
      BY <1>0, <2>3, <2>4, <3>1, <3>2 DEF TypeInv, TypeOK
  <2> QED
    BY <1>a, <2>1, <2>2, <2>4, <2>5
<1>4. ASSUME NEW t \in Threads, InsertEpin(t) PROVE Current'
  BY <1>0, <1>4, <1>a, AnswerMoves DEF InsertEpin, history, PurchasePoints
<1>5. ASSUME NEW t \in Threads, NEW u \in Users, NEW n \in Amounts, AddPins(t, u, n)
      PROVE  Current'
  <2> DEFINE request == [user |-> u, row |-> Row(u), amount |-> n]
  <2>1. /\ Begin(t, "write", request) /\ "write" \in Points
        /\ request.user = u /\ request.row.pins = pins[u]
    BY <1>5 DEF AddPins, Points, Row
  <2>2. at'[t] = "write" /\ req'[t] = request
    BY <1>0, <2>1, BeginMoves
  <2> HIDE DEF request
  <2> QED
    BY <1>5, <1>a, <2>1, <2>2 DEF AddPins, rows, history, PurchasePoints
<1>6. ASSUME NEW t \in Threads, WritePins(t) PROVE Current'
  <2> DEFINE r == req[t]
  <2>1. Answer(t, "write") /\ r \in TopUp
    BY <1>0, <1>6 DEF WritePins, Answer, TypeInv, TypeOK, RequestOK
  <2>2. at[t] = "write" /\ at'[t] = "idle"
    BY <1>0, <2>1, AnswerMoves
  <2>3. r.user \in Users /\ r.amount \in Nat /\ r.row.pins = pins[r.user]
    BY <1>a, <2>1, <2>2 DEF TopUp
  <2>4. Conservation'
    <3> SUFFICES ASSUME NEW u \in Users
                 PROVE  funded'[u] = pins'[u] + paid'[u] + forfeited'[u]
      OBVIOUS
    <3>1. funded[u] = pins[u] + paid[u] + forfeited[u]
      BY <1>a
    <3>2. pins[u] \in Int /\ paid[u] \in Int /\ forfeited[u] \in Int
      BY <1>0 DEF TypeInv, TypeOK
    <3> QED
      BY <1>0, <1>6, <2>3, <3>1, <3>2 DEF WritePins, TypeInv, TypeOK
  <2> QED
    BY <2>2, <2>4 DEF PurchasePoints
<1>7. ASSUME NEW t \in Threads, NEW u \in Users, BeSeller(t, u) PROVE Current'
  <2> DEFINE request == [user |-> u, row |-> Row(u)]
             point   == IF seller[u] THEN "revoke" ELSE "grant"
  <2>1. /\ Begin(t, point, request) /\ point \in Points \ PurchasePoints
        /\ request.user = u /\ request.row.pins = pins[u]
        /\ point # "forfeit" /\ point # "idle" /\ (point = "revoke" => seller[u])
    BY <1>7 DEF BeSeller, Points, RolePoints, PurchasePoints, Row
  <2>2. at'[t] = point /\ req'[t] = request
    BY <1>0, <2>1, BeginMoves
  <2>3. seller[u] => u \notin Unsaveable
    BY <1>0 DEF IssueInv, SellersSave
  <2> HIDE DEF request, point
  <2> QED
    BY <1>7, <1>a, <2>1, <2>2, <2>3 DEF BeSeller, rows, history
<1>8. ASSUME NEW t \in Threads, GrantSeller(t) PROVE Current'
  BY <1>0, <1>8, <1>a, AnswerMoves DEF GrantSeller, history, PurchasePoints
<1>9. ASSUME NEW t \in Threads, RevokeSeller(t) PROVE Current'
  <2>1. Goto(t, "revoke", "forfeit") /\ "forfeit" \in Points \ PurchasePoints
    BY <1>9 DEF RevokeSeller, Points, RolePoints, PurchasePoints
  <2>2. at[t] = "revoke" /\ at'[t] = "forfeit" /\ req' = req
    BY <1>0, <2>1, GotoMoves
  <2>3. req[t].user \in Users \ Unsaveable
    BY <1>a, <1>b, <2>2
  <2>4. ~seller'[req[t].user]
    BY <1>0, <1>9, <2>3 DEF RevokeSeller, SetSeller, TypeInv, TypeOK
  <2> QED
    BY <1>9, <1>a, <2>1, <2>2, <2>3, <2>4 DEF RevokeSeller, history
<1>10. ASSUME NEW t \in Threads, ForfeitPins(t) PROVE Current'
  <2> DEFINE v == req[t].user
  <2>1. Answer(t, "forfeit")
    BY <1>10 DEF ForfeitPins
  <2>2. at[t] = "forfeit" /\ at'[t] = "idle"
    BY <1>0, <2>1, AnswerMoves
  <2>3. v \in Users
    BY <1>b, <2>2
  <2>4. Conservation'
    <3> SUFFICES ASSUME NEW u \in Users
                 PROVE  funded'[u] = pins'[u] + paid'[u] + forfeited'[u]
      OBVIOUS
    <3>1. funded[u] = pins[u] + paid[u] + forfeited[u]
      BY <1>a
    <3>2. pins[u] \in Int /\ paid[u] \in Int /\ forfeited[u] \in Int
      BY <1>0 DEF TypeInv, TypeOK
    <3> QED
      BY <1>0, <1>10, <2>3, <3>1, <3>2 DEF ForfeitPins, TypeInv, TypeOK
  <2> QED
    BY <2>2, <2>4 DEF PurchasePoints
<1>11. ASSUME NEW t \in Threads, Raise(t) PROVE Current'
  BY <1>0, <1>11, <1>a, AnswerMoves DEF Raise, rows, history, PurchasePoints
<1>12. ASSUME NEW u \in Users, NEW c \in Codes, ChargeCode(u, c) PROVE Current'
  <2>1. \A row \in epins : [row EXCEPT !.usedBy = u].code = row.code
    BY <1>0 DEF TypeInv, TypeOK, EpinRow
  <2>2. \A new \in epins' : \E row \in epins : new.code = row.code
    BY <1>12, <2>1 DEF ChargeCode, Charged
  <2>3. at' = at /\ req' = req /\ seller' = seller
    BY <1>12 DEF ChargeCode, control
  <2>4. PurchaseCurrent'
    BY <1>a, <2>2, <2>3
  <2> QED
    BY <1>12, <1>a, <2>4 DEF ChargeCode, control, history
<1>13. CASE UNCHANGED vars
  BY <1>13, <1>a DEF vars, rows, control, history
<1> QED
  BY <1>1, <1>2, <1>3, <1>4, <1>5, <1>6, <1>7, <1>8, <1>9, <1>10, <1>11, <1>12,
     <1>13 DEF Next, Step

(* With one request thread, credit is neither created nor destroyed,       *)
(* whatever raises: generate_code, add_pins and be_seller account for all  *)
(* of it (preferences_controller.rb:28, admin_controller.rb:19-20,         *)
(* users_controller.rb:262).                                               *)
THEOREM CreditConserved == OneThread => (Spec => []Conservation)
<1> SUFFICES ASSUME OneThread PROVE Spec => []Conservation
  OBVIOUS
<1>1. SerialInv /\ [Next]_vars => SerialInv'
  BY SerialStep
<1>2. SerialInv => Conservation
  BY DEF SerialInv
<1> QED
  BY SerialInit, <1>1, <1>2, PTL DEF Spec

(* With one request thread and nothing raising, a revocation that has been *)
(* answered has taken all the credit, in spite of the ignored save results *)
(* and the skipped UPDATE (users_controller.rb:260-263).                   *)
THEOREM RevocationComplete ==
  OneThread /\ ~Faults => (Spec => RevocationTakesCredit)
<1> SUFFICES ASSUME OneThread, ~Faults PROVE Spec => RevocationTakesCredit
  OBVIOUS
<1> DEFINE Takes ==
      \A t \in Threads :
        at[t] = "forfeit" /\ at'[t] = "idle" => pins'[req[t].user] = 0
<1>1. SerialInv /\ [Next]_vars => SerialInv'
  BY SerialStep
<1>2. SerialInv /\ [Next]_vars => Takes
  <2> SUFFICES ASSUME SerialInv, [Next]_vars, NEW t \in Threads,
                      at[t] = "forfeit", at'[t] = "idle"
               PROVE  pins'[req[t].user] = 0
    OBVIOUS
  <2>0. TypeInv /\ req[t].user \in Users
    BY HeldRow DEF SerialInv, CreditInv
  <2>1. /\ req[t].user \notin Unsaveable
        /\ req[t].row.pins = pins[req[t].user]
    BY DEF SerialInv, RevocationCurrent, PinsCurrent
  <2>2. ForfeitPins(t)
    <3>1. \A s \in Threads : s = t
      BY DEF OneThread
    <3>2. at[t] \notin {"idle", "lookup", "save", "insert", "write", "grant", "revoke"}
      OBVIOUS
    <3>3. at' # at
      OBVIOUS
    <3> QED
      BY <3>1, <3>2, <3>3
         DEF Next, Step, vars, control, ChargeCode, GenerateCode, AddPins, BeSeller,
             Begin, FindAccount, SavePins, InsertEpin, WritePins, GrantSeller,
             RevokeSeller, Goto, Answer, Raise
  <2> QED
    BY <2>0, <2>1, <2>2 DEF ForfeitPins, TypeInv, TypeOK
<1>3. Spec => []SerialInv
  BY SerialInit, <1>1, PTL DEF Spec
<1>4. Spec => [][Takes]_vars
  BY <1>2, <1>3, PTL DEF Spec
<1> QED
  BY <1>4 DEF RevocationTakesCredit
-----------------------------------------------------------------------------
(***************************************************************************)
(* The refinement.  Between the payment and the insert the price counts as *)
(* the buyer's; with one thread at most one handler is there.              *)
(***************************************************************************)
balance == [u \in Users |-> pins[u] + InHand(u)]

LEMMA InHandIs ==
  ASSUME OneThread, NEW t \in Threads, NEW u
  PROVE  /\ Holds(t, u) => InHand(u) = Price(req[t].package)
         /\ ~Holds(t, u) => InHand(u) = 0
BY DEF OneThread, InHand

LEMMA InHandNext ==
  ASSUME OneThread, NEW t \in Threads, NEW u
  PROVE  /\ Holds(t, u)' => InHand(u)' = Price(req'[t].package)
         /\ ~Holds(t, u)' => InHand(u)' = 0
BY DEF OneThread, InHand, Holds

LEMMA SameCatalogue ==
  /\ Ledger!Indices = Indices
  /\ \A p \in Indices : Ledger!Price(p) = Price(p)
  /\ \A c, u, p : Ledger!NewEpin(c, u, p) = NewEpin(c, u, p)
  /\ \A table, c, u : Ledger!Charged(table, c, u) = Charged(table, c, u)
BY DEF Ledger!Indices, Indices, Ledger!prices, prices, Ledger!silks, silks,
       Ledger!Price, Price, Ledger!Silk, Silk, Ledger!At, At,
       Ledger!NewEpin, NewEpin, Ledger!Charged, Charged

LEMMA LedgerInit == Init => Ledger!Init
BY DEF Init, Ledger!Init, InHand, Holds

(* A step that moves no credit and passes through no insert is a stutter,  *)
(* as far as balances go.                                                  *)
LEMMA BalanceUnchanged ==
  ASSUME OneThread, TypeInv, NEW t \in Threads, pins' = pins,
         at[t] # "insert", at'[t] # "insert"
  PROVE  balance' = balance
<1>1. \A u \in Users : InHand(u) = 0 /\ InHand(u)' = 0
  BY InHandIs, InHandNext DEF Holds
<1> QED
  BY <1>1 DEF balance

LEMMA LedgerStep ==
  OneThread /\ SerialInv /\ SerialInv' /\ [Next]_vars => [Ledger!Next]_(Ledger!vars)
<1> SUFFICES ASSUME OneThread, SerialInv, SerialInv', [Next]_vars
             PROVE  \/ Ledger!Next
                    \/ balance' = balance /\ seller' = seller /\ epins' = epins
  BY DEF Ledger!vars, balance
<1>0. /\ TypeInv /\ CreditInv /\ IssueInv /\ TypeInv' 
      /\ PinsCurrent /\ PurchaseCurrent /\ RevocationCurrent
  BY DEF SerialInv, CreditInv
<1>b. \A t \in Threads : at[t] # "idle" => req[t].user \in Users /\ req[t].row \in LoadedRow
  BY <1>0, HeldRow
<1>c. pins \in [Users -> Int] /\ pins' \in [Users -> Int]
  BY <1>0 DEF TypeInv, TypeOK
<1>1. ASSUME NEW t \in Threads, NEW u \in Users, NEW p \in Packages,
             NEW c \in Codes, GenerateCode(t, u, p, c)
      PROVE  balance' = balance /\ seller' = seller /\ epins' = epins
  <2>1. at[t] = "idle" /\ at'[t] = "lookup" /\ UNCHANGED rows
    BY <1>0, <1>1 DEF GenerateCode, Begin, TypeInv, TypeOK
  <2> QED
    BY <1>0, <2>1, BalanceUnchanged DEF rows
<1>2. ASSUME NEW t \in Threads, FindAccount(t)
      PROVE  balance' = balance /\ seller' = seller /\ epins' = epins
  <2>1. at[t] = "lookup" /\ at'[t] # "insert" /\ UNCHANGED rows
    BY <1>0, <1>2 DEF FindAccount, Goto, Answer, TypeInv, TypeOK
  <2> QED
    BY <1>0, <2>1, BalanceUnchanged DEF rows
<1>3. ASSUME NEW t \in Threads, SavePins(t)
      PROVE  balance' = balance /\ seller' = seller /\ epins' = epins
  <2> DEFINE r == req[t]
  <2>1. at[t] = "save" /\ at'[t] = "insert" /\ req' = req
    BY <1>0, <1>3 DEF SavePins, Goto, TypeInv, TypeOK
  <2>2. /\ r.user \in Users \ Unsaveable /\ r.row.pins = pins[r.user]
        /\ Price(r.package) \in Nat
    BY <1>0, <1>b, <2>1, CatalogueNat
       DEF IssueInv, BuyersSave, TypeInv, PackagePriced, PurchasePoints, PinsCurrent
  <2>3. pins' = IF Price(r.package) # 0
                  THEN [pins EXCEPT ![r.user] = r.row.pins - Price(r.package)] ELSE pins
    BY <1>3, <2>2 DEF SavePins
  <2>4. ASSUME NEW u \in Users PROVE pins'[u] + InHand(u)' = pins[u] + InHand(u)
    <3>1. InHand(u) = 0
      BY <2>1, InHandIs DEF Holds
    <3>2. InHand(u)' = IF r.user = u THEN Price(r.package) ELSE 0
      BY <2>1, InHandNext DEF Holds
    <3> QED
      BY <1>c, <2>2, <2>3, <3>1, <3>2
  <2> QED
    BY <1>3, <2>4 DEF SavePins, balance
<1>4. ASSUME NEW t \in Threads, InsertEpin(t)
      PROVE  \E u \in Users, p \in Indices, c \in Codes : Ledger!Issue(u, p, c)
  <2> DEFINE r == req[t]
  <2>1. at[t] = "insert" /\ at'[t] = "idle" /\ pins' = pins /\ seller' = seller
    BY <1>0, <1>4 DEF InsertEpin, Answer, TypeInv, TypeOK
  <2>2. /\ r.user \in Users /\ r.package \in Indices /\ r.code \in Codes
        /\ Price(r.package) \in Nat /\ pins[r.user] >= 0
    BY <1>0, <2>1, CatalogueNat
       DEF TypeInv, TypeOK, RequestOK, Purchase, PackagePriced, PurchasePoints,
           CreditInv, PinsNonNegative
  <2>3. seller[r.user] /\ \A row \in epins : row.code # r.code
    BY <1>0, <2>1 DEF PurchaseCurrent, PurchasePoints
  <2>4. balance[r.user] = pins[r.user] + Price(r.package)
    BY <2>1, <2>2, InHandIs DEF balance, Holds
  <2>5. balance' = [balance EXCEPT ![r.user] = @ - Price(r.package)]
    <3> SUFFICES ASSUME NEW u \in Users
                 PROVE  pins'[u] + InHand(u)'
                          = IF u = r.user THEN balance[r.user] - Price(r.package)
                                          ELSE pins[u] + InHand(u)
      BY DEF balance
    <3>1. InHand(u)' = 0
      BY <2>1, InHandNext DEF Holds
    <3>2. u # r.user => InHand(u) = 0
      BY <2>1, InHandIs DEF Holds
    <3> QED
      BY <1>c, <2>1, <2>2, <2>4, <3>1, <3>2
  <2>6. balance[r.user] >= Price(r.package)
    BY <1>c, <2>2, <2>4
  <2>7. PICK u \in Users, p \in Indices, c \in Codes :
          u = r.user /\ p = r.package /\ c = r.code
    BY <2>2
  <2>8. Ledger!Issue(u, p, c)
    BY <1>4, <2>1, <2>2, <2>3, <2>5, <2>6, <2>7, SameCatalogue
       DEF Ledger!Issue, InsertEpin, balance
  <2> QED
    BY <2>8
<1>5. ASSUME NEW t \in Threads, NEW u \in Users, NEW n \in Amounts, AddPins(t, u, n)
      PROVE  balance' = balance /\ seller' = seller /\ epins' = epins
  <2>1. at[t] = "idle" /\ at'[t] = "write" /\ UNCHANGED rows
    BY <1>0, <1>5 DEF AddPins, Begin, TypeInv, TypeOK
  <2> QED
    BY <1>0, <2>1, BalanceUnchanged DEF rows
<1>6. ASSUME NEW t \in Threads, WritePins(t) PROVE \E u \in Users : Ledger!Fund(u)
  <2> DEFINE r == req[t]
  <2>1. at[t] = "write" /\ at'[t] = "idle" /\ seller' = seller /\ epins' = epins
    BY <1>0, <1>6 DEF WritePins, Answer, TypeInv, TypeOK
  <2>2. r.user \in Users /\ r.amount \in Nat /\ r.row.pins = pins[r.user]
    BY <1>0, <2>1 DEF TypeInv, TypeOK, RequestOK, TopUp, PinsCurrent
  <2>3. \A u \in Users : InHand(u) = 0 /\ InHand(u)' = 0
    BY <2>1, InHandIs, InHandNext DEF Holds
  <2>4. pins' = [pins EXCEPT ![r.user] = pins[r.user] + r.amount]
    <3>1. r.amount = 0 => pins[r.user] + r.amount = pins[r.user]
      BY <1>c, <2>2
    <3>2. [pins EXCEPT ![r.user] = pins[r.user]] = pins
      BY <1>c
    <3> QED
      BY <1>6, <2>2, <3>1, <3>2 DEF WritePins
  <2>5. balance = pins /\ balance' = pins'
    BY <1>c, <2>3 DEF balance
  <2>6. PICK u \in Users : u = r.user
    BY <2>2
  <2>7. pins' = [pins EXCEPT ![u] = pins'[u]]
    BY <1>c, <2>4, <2>6
  <2>8. pins'[u] >= pins[u]
    BY <1>c, <2>2, <2>4, <2>6
  <2>9. Ledger!Fund(u)
    BY <2>1, <2>5, <2>7, <2>8 DEF Ledger!Fund, balance
  <2> QED
    BY <2>9
<1>7. ASSUME NEW t \in Threads, NEW u \in Users, BeSeller(t, u)
      PROVE  balance' = balance /\ seller' = seller /\ epins' = epins
  <2>1. at[t] = "idle" /\ at'[t] # "insert" /\ UNCHANGED rows
    BY <1>0, <1>7 DEF BeSeller, Begin, TypeInv, TypeOK
  <2> QED
    BY <1>0, <2>1, BalanceUnchanged DEF rows
<1>8. ASSUME NEW t \in Threads, GrantSeller(t) \/ RevokeSeller(t)
      PROVE  \/ \E u \in Users, flag \in BOOLEAN : Ledger!Appoint(u, flag)
             \/ balance' = balance /\ seller' = seller /\ epins' = epins
  <2>1. /\ at[t] \in {"grant", "revoke"} /\ at'[t] \in {"idle", "forfeit"}
        /\ pins' = pins /\ epins' = epins
    BY <1>0, <1>8 DEF GrantSeller, RevokeSeller, Goto, Answer, TypeInv, TypeOK
  <2>2. balance' = balance /\ req[t].user \in Users
    BY <1>0, <1>b, <2>1, BalanceUnchanged
  <2>3. seller' = seller \/ \E flag \in BOOLEAN : seller' = [seller EXCEPT ![req[t].user] = flag]
    BY <1>8 DEF GrantSeller, RevokeSeller, SetSeller
  <2> QED
    BY <2>1, <2>2, <2>3 DEF Ledger!Appoint, balance
<1>9. ASSUME NEW t \in Threads, ForfeitPins(t)
      PROVE  \/ \E u \in Users : Ledger!Forfeit(u)
             \/ balance' = balance /\ seller' = seller /\ epins' = epins
  <2> DEFINE v == req[t].user
  <2>1. at[t] = "forfeit" /\ at'[t] = "idle" /\ seller' = seller /\ epins' = epins
    BY <1>0, <1>9 DEF ForfeitPins, Answer, TypeInv, TypeOK
  <2>2. v \in Users /\ ~seller[v]
    BY <1>0, <1>b, <2>1 DEF RevocationCurrent
  <2>3. \A u \in Users : InHand(u) = 0 /\ InHand(u)' = 0
    BY <2>1, InHandIs, InHandNext DEF Holds
  <2>4. balance = pins /\ balance' = pins'
    BY <1>c, <2>3 DEF balance
  <2>5. pins' = pins \/ pins' = [pins EXCEPT ![v] = 0]
    BY <1>9 DEF ForfeitPins
  <2> QED
    BY <2>1, <2>2, <2>4, <2>5 DEF Ledger!Forfeit, balance
<1>10. ASSUME NEW t \in Threads, Raise(t)
       PROVE  \/ \E u \in Users, p \in Indices : Ledger!LosePayment(u, p)
              \/ balance' = balance /\ seller' = seller /\ epins' = epins
  <2> DEFINE r == req[t]
  <2>1. at'[t] = "idle" /\ pins' = pins /\ seller' = seller /\ epins' = epins
    BY <1>0, <1>10 DEF Raise, Answer, rows, TypeInv, TypeOK
  <2>2. CASE at[t] # "insert"
    BY <1>0, <2>1, <2>2, BalanceUnchanged
  <2>3. CASE at[t] = "insert"
    <3>1. /\ r.user \in Users /\ r.package \in Indices
          /\ Price(r.package) \in Nat /\ pins[r.user] >= 0
      BY <1>0, <2>3, CatalogueNat
         DEF TypeInv, TypeOK, RequestOK, Purchase, PackagePriced, PurchasePoints,
             CreditInv, PinsNonNegative
    <3>2. balance[r.user] = pins[r.user] + Price(r.package)
      BY <2>3, <3>1, InHandIs DEF balance, Holds
    <3>3. balance' = [balance EXCEPT ![r.user] = @ - Price(r.package)]
      <4> SUFFICES ASSUME NEW u \in Users
                   PROVE  pins'[u] + InHand(u)'
                            = IF u = r.user THEN balance[r.user] - Price(r.package)
                                            ELSE pins[u] + InHand(u)
        BY DEF balance
      <4>1. InHand(u)' = 0
        BY <2>1, InHandNext DEF Holds
      <4>2. u # r.user => InHand(u) = 0
        BY <2>3, InHandIs DEF Holds
      <4> QED
        BY <1>c, <2>1, <3>1, <3>2, <4>1, <4>2
    <3>4. balance[r.user] >= Price(r.package)
      BY <1>c, <3>1, <3>2
    <3>5. PICK u \in Users, p \in Indices : u = r.user /\ p = r.package
      BY <3>1
    <3>6. Ledger!LosePayment(u, p)
      BY <2>1, <3>3, <3>4, <3>5, SameCatalogue DEF Ledger!LosePayment, balance
    <3> QED
      BY <3>6
  <2> QED
    BY <2>2, <2>3
<1>11. ASSUME NEW u \in Users, NEW c \in Codes, ChargeCode(u, c)
       PROVE  Ledger!Charge(u, c)
  <2>1. at' = at /\ req' = req /\ pins' = pins /\ seller' = seller
    BY <1>11 DEF ChargeCode, control
  <2>2. balance' = balance
    BY <2>1 DEF balance, InHand, Holds
  <2> QED
    BY <1>11, <2>1, <2>2, SameCatalogue DEF Ledger!Charge, ChargeCode, balance
<1>12. CASE UNCHANGED vars
  BY <1>12 DEF vars, rows, control, balance, InHand, Holds
<1> QED
  BY <1>1, <1>2, <1>3, <1>4, <1>5, <1>6, <1>7, <1>8, <1>9, <1>10, <1>11, <1>12,
     SameCatalogue DEF Next, Step, Ledger!Next

(* With one request thread the handlers implement the ledger: whatever     *)
(* raises, a request takes effect as one of its steps, a code goes only to *)
(* an account that is then a seller and pays its price, and the only       *)
(* credit lost is a payment whose insert failed                            *)
(* (preferences_controller.rb:29-31).                                      *)
THEOREM ImplementsLedger == OneThread => (Spec => LedgerSpec)
<1> SUFFICES ASSUME OneThread PROVE Spec => LedgerSpec
  OBVIOUS
<1>1. SerialInv /\ [Next]_vars => SerialInv'
  BY SerialStep
<1>2. SerialInv /\ SerialInv' /\ [Next]_vars => [Ledger!Next]_(Ledger!vars)
  BY LedgerStep
<1> QED
  BY SerialInit, LedgerInit, <1>1, <1>2, PTL DEF Spec, LedgerSpec, Ledger!Spec
=============================================================================

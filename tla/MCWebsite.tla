----------------------------- MODULE MCWebsite -----------------------------
(***************************************************************************)
(* Finite instances of Tickets and of Accounts for TLC, which have no      *)
(* tables in common but users, of which each sees other columns: a run     *)
(* chooses one at the start.  In Tickets an administrator ad and a         *)
(* customer us, either of whom may cancel the account.                     *)
(***************************************************************************)
EXTENDS Tickets, Accounts, TLC

VARIABLE part

MCInit == part \in {"tickets", "accounts"} /\ Init /\ AccountsInit

MCNext ==
  \/ part = "tickets" /\ Next /\ UNCHANGED <<accountvars, part>>
  \/ part = "accounts" /\ AccountsNext /\ UNCHANGED <<vars, part>>

MCSpec == MCInit /\ [][MCNext]_<<vars, accountvars, part>>

MCSymmetry ==
  Permutations(Ids) \cup Permutations(Names) \cup Permutations(Passwords)
    \cup Permutations(Handlers)
=============================================================================

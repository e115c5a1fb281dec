---------------------------- MODULE UniqueNames ----------------------------
(***************************************************************************)
(* What `uniqueness: true` promises of a table: a row takes a name only    *)
(* while no other row has it, in one step.                                 *)
(***************************************************************************)
CONSTANTS
  Accounts,   (* primary keys                                              *)
  Names,      (* usernames, up to the case of their letters                *)
  NoName      (* the name of a row that does not exist                     *)

ASSUME NoNameAssumption == NoName \notin Names

VARIABLE table

Init == table = [a \in Accounts |-> NoName]

Claim(a, n) ==
  /\ \A b \in Accounts \ {a} : table[b] # n
  /\ table' = [table EXCEPT ![a] = n]

Release(a) == table' = [table EXCEPT ![a] = NoName]

Next ==
  \E a \in Accounts :
    \/ Release(a)
    \/ \E n \in Names : Claim(a, n)

Spec == Init /\ [][Next]_table
=============================================================================

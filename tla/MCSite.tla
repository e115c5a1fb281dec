------------------------------- MODULE MCSite -------------------------------
(***************************************************************************)
(* Finite instances of UserSaves and of News for TLC, which share nothing: *)
(* a run chooses one at the start.  In News an administrator ad and a      *)
(* customer us, either of whom may be flagged and may cancel the account.  *)
(***************************************************************************)
EXTENDS UserSaves, News, TLC

VARIABLE part

MCInit == part \in {"saves", "pages"} /\ SaveInit /\ NewsInit

(* The site is down or all accounts are cancelled, and nobody does anything*)
(* any more.                                                               *)
Rest == UNCHANGED <<newsVars, saveVars, part>>

MCNext ==
  \/ part = "saves" /\ SaveNext /\ UNCHANGED <<newsVars, part>>
  \/ part = "pages" /\ NewsNext /\ UNCHANGED <<saveVars, part>>
  \/ part = "pages" /\ Rest

MCSpec ==
  /\ MCInit /\ [][MCNext]_<<newsVars, saveVars, part>>
  /\ \A c \in Connections : WF_saveVars(Step(c))

(* Model values of News only, of which the liveness of UserSaves does not  *)
(* speak.                                                                  *)
MCSymmetry ==
  Permutations(Threads) \cup Permutations(Articles) \cup Permutations(Comments)
    \cup Permutations(Texts) \cup Permutations(Categories)
=============================================================================

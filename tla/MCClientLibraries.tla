------------------------- MODULE MCClientLibraries -------------------------
(***************************************************************************)
(* The client libraries of FreeTDS that are modelled: a program uses one.  *)
(***************************************************************************)
EXTENDS DbProcess, CtCommand, OdbcStatements, TLC

VARIABLE library

MCInit == /\ library \in {"dblib", "ctlib", "odbc"}
          /\ DbInit /\ CtInit /\ OdInit

MCNext ==
  \/ library = "dblib" /\ DbNext /\ UNCHANGED <<ctvars, odvars, library>>
  \/ library = "ctlib" /\ CtNext /\ UNCHANGED <<dbvars, odvars, library>>
  \/ library = "odbc" /\ OdNext /\ UNCHANGED <<dbvars, ctvars, library>>

MCSpec == MCInit /\ [][MCNext]_<<dbvars, ctvars, odvars, library>>

\* Procedures differ in nothing but their names.
MCSymmetry == Permutations(Procs)
=============================================================================

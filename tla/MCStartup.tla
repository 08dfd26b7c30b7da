------------------------------ MODULE MCStartup -----------------------------
(***************************************************************************)
(* An instance of Startup for TLC.                                         *)
(***************************************************************************)
EXTENDS Startup

CONSTANTS t1, t2, apple, banana

TwoTenants == <<t1, t2>>
TwoProducts == <<apple, banana>>
=============================================================================

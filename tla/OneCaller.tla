------------------------------ MODULE OneCaller ------------------------------
(***************************************************************************)
(* The state of one operation of the client library in progress.  The      *)
(* modules that extend this one each model a family of operations; st is a *)
(* record whose field part names the family, so that one run can explore   *)
(* all of them, each from its own initial states.                          *)
(***************************************************************************)
VARIABLE st
=============================================================================

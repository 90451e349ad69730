------------------------------ MODULE MCWebApp ------------------------------
(***************************************************************************)
(* Two starts or restarts and a request to stop may overlap.               *)
(***************************************************************************)
EXTENDS WebApp
=============================================================================

------------------------------- MODULE Option --------------------------------
(***************************************************************************)
(* What Option::None and the absence of a key are in the modules of the    *)
(* tunnel between two clients.                                             *)
(***************************************************************************)

CONSTANT None
=============================================================================

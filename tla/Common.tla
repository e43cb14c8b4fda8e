-------------------------------- MODULE Common --------------------------------
(***************************************************************************)
(* What the modules of one model run share: the program's absent value.    *)
(***************************************************************************)
CONSTANT None
=============================================================================

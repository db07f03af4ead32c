-------------------------------- MODULE MCRead --------------------------------
(***************************************************************************)
(* Instances of Read for TLC: those of MCStorage, with one read.           *)
(***************************************************************************)
EXTENDS MCStorage, Read
===============================================================================

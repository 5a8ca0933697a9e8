------------------------------ MODULE MCSeahorse ------------------------------
(* Seahorse on a small instance; the cfg file gives the constants. *)
EXTENDS Seahorse
=============================================================================

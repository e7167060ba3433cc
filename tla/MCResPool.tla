----------------------------- MODULE MCResPool -----------------------------
(* The resource pool on a ring of three cells and three distinct elements. *)
EXTENDS ResPool
=============================================================================

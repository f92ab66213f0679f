------------------------------ MODULE MCRedGreen ------------------------------
(* The abstract engine over the small host. *)
EXTENDS RedGreen, SmallHost
===============================================================================

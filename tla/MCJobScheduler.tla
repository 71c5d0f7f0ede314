--------------------------- MODULE MCJobScheduler ---------------------------
(* Three workers that are model values: see the configurations.            *)
EXTENDS JobScheduler
=============================================================================

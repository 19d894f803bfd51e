----------------------------- MODULE MCRuntime -----------------------------
(***************************************************************************)
(* Instances of DpdkRuntime for TLC.  One port is the default of the       *)
(* scripts; two ports and an odd number of threads make dpdk.cc:139-146    *)
(* add a thread that main registers no callback for.                       *)
(***************************************************************************)
EXTENDS DpdkRuntime
=============================================================================

---------------------------- MODULE RulesClocked ----------------------------
(***************************************************************************)
(* RuleProgramming under traffic without a gap.  The core is called at     *)
(* every clock cycle (ap_ctrl_none, II = 1), so between two MMIO writes,   *)
(* which take many cycles each, it is called at least once, and here each  *)
(* call finds a phit waiting: every behaviour is one of RuleProgramming in *)
(* which the core neither stands still nor is ever idle.                   *)
(***************************************************************************)
EXTENDS RuleProgramming

VARIABLE called  \* has the core been called since the last MMIO write

cvars == <<rvars, called>>

ClockedInit == RulesInit /\ called = FALSE

ClockedCall == ProcessPhit /\ UNCHANGED sw /\ called' = TRUE

ClockedWrite == called /\ MmioWrite /\ called' = FALSE

\* Whatever else the software does, and the traffic on both sides.
ClockedOther ==
  /\ \/ Start \/ ParseArgs \/ Parse \/ Constructed \/ ProcessEnds
     \/ Traffic /\ UNCHANGED sw
  /\ UNCHANGED called

ClockedNext == ClockedCall \/ ClockedWrite \/ ClockedOther

ClockedSpec == ClockedInit /\ [][ClockedNext]_cvars
=============================================================================

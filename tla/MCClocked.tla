----------------------------- MODULE MCClocked -----------------------------
(* RulesClocked with the values of MCRules.                                *)
EXTENDS MCRules, RulesClocked
=============================================================================

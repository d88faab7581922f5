--------------------------- MODULE MCRuleToggle ----------------------------
(***************************************************************************)
(* Model-checking instances of RuleToggle.                                 *)
(***************************************************************************)
EXTENDS RuleToggle

=============================================================================

--------------------------- MODULE MCSetupWizard ---------------------------
(* An instance of SetupWizard for TLC: one tab. *)
EXTENDS SetupWizard
=============================================================================

--------------------------- MODULE MCConsentFence ---------------------------
(* Model-checking instance of the consent fence. *)
EXTENDS ConsentFence, TLC

=============================================================================

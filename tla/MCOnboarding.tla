----------------------------- MODULE MCOnboarding -----------------------------
(* Onboarding for three requests or runs of the seed and one more site.    *)
EXTENDS Onboarding
=============================================================================

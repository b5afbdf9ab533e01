--------------------------- MODULE MCUnlockGuard ---------------------------
(***************************************************************************)
(* Instances of UnlockGuard for TLC.                                       *)
(***************************************************************************)
EXTENDS UnlockGuard

CONSTANTS popup, approval

\* Two steps, the second one longer: the first lockout, and the clamp.
TwoSteps == <<1, 2>>
=============================================================================

--------------------------- MODULE MCSofPhaseLock ---------------------------
(* SofPhaseLock with a frame of a dozen ticks: every constant is a number, *)
(* given in the configuration.                                             *)
EXTENDS SofPhaseLock
=============================================================================

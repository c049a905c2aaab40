------------------------- MODULE MCResolutionCache -------------------------
(* ResolutionCache on small instances, see MCResolutionCache*.cfg.  The    *)
(* constants are given there; liveness is checked, so without symmetry.    *)
EXTENDS ResolutionCache
=============================================================================

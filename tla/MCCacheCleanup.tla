--------------------------- MODULE MCCacheCleanup ---------------------------
(* CacheCleanup for TLC: two files, of which only the smaller one fits.     *)
EXTENDS CacheCleanup, TLC

CONSTANTS a, b

MCSize == (a :> 1) @@ (b :> 2)
=============================================================================

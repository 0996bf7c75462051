--------------------------- MODULE MCCachedProxy ---------------------------
(* CachedProxy for TLC: the times to live.                                 *)
EXTENDS CachedProxy

MCTTL == [k \in Keys |-> 1]
=============================================================================

------------------------- MODULE MCPrefixStateCache -------------------------
(***************************************************************************)
(* Instances of PrefixStateCache for TLC. Three keys and a RAM budget of   *)
(* three units: two blocks and part of a third, so that a terminal block   *)
(* can evict two plain ones, a plain one can fail to free enough, and a    *)
(* pinned block can make room impossible.                                  *)
(***************************************************************************)
EXTENDS PrefixStateCache

CONSTANTS k1, k2, k3

MCKeys == {k1, k2, k3}
=============================================================================

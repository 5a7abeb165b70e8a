--------------------------- MODULE MCRegionRuntime ---------------------------
(* Bounds for checking RegionRuntime with calls in any order.              *)
EXTENDS RegionRuntime

MCScales == {1}

=============================================================================

---------------------------- MODULE MCPostProcess ----------------------------
(* Main and two workers, of which two are alive at a time: with two ids,   *)
(* an id is used again by a thread that starts after another has ended.    *)
EXTENDS PostProcess

=============================================================================

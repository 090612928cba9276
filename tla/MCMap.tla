-------------------------------- MODULE MCMap --------------------------------
(* Constants of the Map run: dup is set, as in every map of the library. *)
EXTENDS Map

\* Enough keys for trees of three levels and for every case of Rebalance.
Keys == 1..8

=============================================================================

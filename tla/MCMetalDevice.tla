--------------------------- MODULE MCMetalDevice ---------------------------
(***************************************************************************)
(* Instances of MetalDevice for TLC.  Threads and streams are each         *)
(* interchangeable, which only the runs without liveness may use.          *)
(***************************************************************************)
EXTENDS MetalDevice, TLC

Symmetry == Permutations(Threads) \cup Permutations(Streams)

=============================================================================

----------------------- MODULE MCMetalBufferRegistry -----------------------
(***************************************************************************)
(* Instances of MetalBufferRegistry for TLC.  Threads and buffers are      *)
(* interchangeable; addresses are not.                                     *)
(***************************************************************************)
EXTENDS MetalBufferRegistry, TLC

Symmetry == Permutations(Threads) \cup Permutations(Buffers)

=============================================================================

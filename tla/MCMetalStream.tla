--------------------------- MODULE MCMetalStream ---------------------------
(***************************************************************************)
(* Instances of MetalStream for TLC.  The threads are interchangeable: no  *)
(* action or safety property names one.                                    *)
(***************************************************************************)
EXTENDS MetalStream, TLC

ThreadSymmetry == Permutations(Threads)

=============================================================================

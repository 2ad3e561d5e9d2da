---------------------------- MODULE MCMetalEvents ----------------------------
(***************************************************************************)
(* An instance of MetalEvents for TLC.                                     *)
(***************************************************************************)
EXTENDS MetalEvents

\* A host that blocks on an event is let go (BlockHostForEvent), unless somebody
\* waits in vain.  The specification treats all threads alike, so that one of
\* them stands for each.
AHostIsUnblocked == HostIsUnblocked(CHOOSE t \in Threads : TRUE)

=============================================================================

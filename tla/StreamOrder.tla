---------------------------- MODULE StreamOrder ----------------------------
(***************************************************************************)
(* What a StreamExecutor stream promises its callers: a strictly ordered   *)
(* queue of work, in which everything enqueued on the stream runs after    *)
(* everything enqueued before it (metal_stream.h).  Operations are told    *)
(* apart by their position alone, so three counters are the whole state.   *)
(***************************************************************************)
EXTENDS Naturals

VARIABLES enqueued,  \* operations handed to the stream
          begun,     \* operations that have started
          finished   \* operations whose effects are complete

order_vars == <<enqueued, begun, finished>>

Init == enqueued = 0 /\ begun = 0 /\ finished = 0

Enqueue == /\ enqueued' = enqueued + 1
           /\ UNCHANGED <<begun, finished>>

\* An operation starts only when the one before it has finished.
Begin == /\ begun = finished
         /\ begun < enqueued
         /\ begun' = begun + 1
         /\ UNCHANGED <<enqueued, finished>>

Finish == /\ finished < begun
          /\ finished' = begun
          /\ UNCHANGED <<enqueued, begun>>

Next == Enqueue \/ Begin \/ Finish

Safety == Init /\ [][Next]_order_vars

\* What is enqueued is eventually run: the device makes progress.
Spec == Safety /\ WF_order_vars(Begin) /\ WF_order_vars(Finish)

=============================================================================

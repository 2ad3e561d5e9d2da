---------------------------- MODULE MetalStream ----------------------------
(***************************************************************************)
(* One stream of the Metal back end: SP_Stream_st and OrderedCommandBuffer *)
(* (metal_stream.h, metal_stream.mm), the MPSGraph path that commits on    *)
(* its own (RunGraph in metal_mps_graph.mm) and the host drain             *)
(* (BlockHostUntilDone in metal_stream_executor.mm).                       *)
(*                                                                         *)
(* Three parties act on a stream.  Host threads number a command buffer    *)
(* under `submit`, encode and commit it.  The GPU begins the buffers of    *)
(* the queue in commit order, lets them overlap, and ends them in any      *)
(* order.  Metal callback threads run the completion handlers, at any time *)
(* after the buffer they belong to has ended.                              *)
(***************************************************************************)
EXTENDS Naturals, Sequences, FiniteSets

CONSTANTS Threads,      \* host threads that use the stream
          NoThread,     \* the owner of a free lock
          MaxEnqueued,  \* bound on the sequence numbers handed out
          NilBuffers,   \* may the command queue return no buffer?
          MpsSplits,    \* may MPSGraph call commitAndContinue?
          Failures,     \* may a command buffer end in error?
          Synchronous   \* SynchronousMode(): TF_METAL_SYNCHRONOUS

ASSUME ThreadsAssumption == NoThread \notin Threads
ASSUME BoundAssumption == MaxEnqueued \in Nat
ASSUME SwitchAssumption ==
         {NilBuffers, MpsSplits, Failures, Synchronous} \subseteq BOOLEAN

VARIABLES submit,         \* holder of the stream's submission lock
          last_enqueued,  \* number of the last command buffer handed out
          failed,         \* sticky failure of the stream
          pc,             \* what each thread is doing
          wait_value,     \* number a thread's open buffer waits for, or 0
          signal_value,   \* number a thread's open buffer signals
          awaited,        \* what a blocked thread waits to be reached
          queue,          \* MTLCommandQueue: buffers in commit order
          scheduled,      \* how many of them the GPU has begun
          completed,      \* the ones the GPU has ended
          errors,         \* the ended ones that failed
          order_event,    \* signaledValue of the MTLSharedEvent
          working,        \* host completions whose work is running
          handled         \* buffers whose completion handler has returned

lock_vars   == <<submit, last_enqueued>>
thread_vars == <<pc, wait_value, signal_value, awaited>>
gpu_vars    == <<queue, scheduled, completed, errors, order_event>>
hand_vars   == <<failed, working, handled>>
vars        == <<lock_vars, thread_vars, gpu_vars, hand_vars>>

-----------------------------------------------------------------------------
(***************************************************************************)
(* State                                                                   *)
(***************************************************************************)

\* How a committed buffer ends: with an encoded signal of its number and a
\* handler that notes its failure ("gpu"); with a handler that works and then
\* signals ("host"); or with neither, handed over to a fresh buffer by
\* commitAndContinue ("continued").
Endings == {"gpu", "host", "continued"}

\* A committed buffer: the number it was encoded under, the value it waits
\* for before it starts (0: no wait encoded), and its ending.
CommandBuffers == [n : Nat, wait : Nat, ending : Endings]

\* A thread between two points of the code that others can interleave with.
\*   "locked".."continued"   inside an OrderedCommandBuffer, not yet committed
\*   "returning", "syncing"  RunGraph after its commit, still holding submit
\*   "completing"            in CommitAndWait
\*   "draining", "drained"   in BlockHostUntilDone, before and after its wait
Steps == {"idle", "locked", "reserved", "encoding", "external", "continued",
          "returning", "syncing", "completing", "draining", "drained"}

HoldingSteps == {"locked", "reserved", "encoding", "external", "continued",
                 "returning", "syncing"}

TypeOK ==
  /\ submit \in Threads \cup {NoThread}
  /\ last_enqueued \in Nat
  /\ failed \in BOOLEAN
  /\ pc \in [Threads -> Steps]
  /\ wait_value \in [Threads -> Nat]
  /\ signal_value \in [Threads -> Nat]
  /\ awaited \in [Threads -> Nat]
  /\ queue \in Seq(CommandBuffers)
  /\ scheduled \in Nat
  /\ scheduled <= Len(queue)
  /\ completed \subseteq 1..scheduled
  /\ errors \subseteq completed
  /\ order_event \in Nat
  /\ handled \subseteq completed
  /\ working \subseteq {i \in completed \ handled : queue[i].ending = "host"}

Init ==
  /\ submit = NoThread
  /\ last_enqueued = 0
  /\ failed = FALSE
  /\ pc = [t \in Threads |-> "idle"]
  /\ wait_value = [t \in Threads |-> 0]
  /\ signal_value = [t \in Threads |-> 0]
  /\ awaited = [t \in Threads |-> 0]
  /\ queue = << >>
  /\ scheduled = 0
  /\ completed = {}
  /\ errors = {}
  /\ order_event = 0
  /\ working = {}
  /\ handled = {}

-----------------------------------------------------------------------------
(***************************************************************************)
(* Host threads: OrderedCommandBuffer                                      *)
(***************************************************************************)

Goto(t, step) == pc' = [pc EXCEPT ![t] = step]

\* The locals of a call are gone once it has returned.
ForgetLocals(t) ==
  /\ wait_value' = [wait_value EXCEPT ![t] = 0]
  /\ signal_value' = [signal_value EXCEPT ![t] = 0]

\* The constructor's first statement.  MaxEnqueued bounds the model here.
LockSubmit(t) ==
  /\ pc[t] = "idle"
  /\ submit = NoThread
  /\ last_enqueued < MaxEnqueued
  /\ submit' = t
  /\ Goto(t, "locked")
  /\ UNCHANGED <<last_enqueued, wait_value, signal_value, awaited,
                 gpu_vars, hand_vars>>

\* Mutant: the lock is given up once the number is taken.
ReserveThenUnlock(t) ==
  /\ pc[t] = "locked"
  /\ wait_value' = [wait_value EXCEPT ![t] = last_enqueued]
  /\ signal_value' = [signal_value EXCEPT ![t] = last_enqueued + 1]
  /\ last_enqueued' = last_enqueued + 1
  /\ submit' = NoThread
  /\ Goto(t, "reserved")
  /\ UNCHANGED <<awaited, gpu_vars, hand_vars>>

\* Mutant: the wait is encoded for the number before the predecessor's.
ReserveStaleWait(t) ==
  /\ pc[t] = "locked"
  /\ wait_value' = [wait_value EXCEPT ![t] =
                      IF last_enqueued = 0 THEN 0 ELSE last_enqueued - 1]
  /\ signal_value' = [signal_value EXCEPT ![t] = last_enqueued + 1]
  /\ last_enqueued' = last_enqueued + 1
  /\ Goto(t, "reserved")
  /\ UNCHANGED <<submit, awaited, gpu_vars, hand_vars>>

\* The critical section under `mu`: wait for the last number, take the next.
Reserve(t) ==
  /\ pc[t] = "locked"
  /\ wait_value' = [wait_value EXCEPT ![t] = last_enqueued]
  /\ signal_value' = [signal_value EXCEPT ![t] = last_enqueued + 1]
  /\ last_enqueued' = last_enqueued + 1
  /\ Goto(t, "reserved")
  /\ UNCHANGED <<submit, awaited, gpu_vars, hand_vars>>

\* -commandBuffer returned a buffer.
TakeBuffer(t) ==
  /\ pc[t] = "reserved"
  /\ Goto(t, "encoding")
  /\ UNCHANGED <<lock_vars, wait_value, signal_value, awaited,
                 gpu_vars, hand_vars>>

\* Mutant: the number before the one the buffer waits for is restored.
GiveBackTooMuch(t) ==
  /\ NilBuffers
  /\ pc[t] = "reserved"
  /\ last_enqueued' = IF last_enqueued = signal_value[t]
                        THEN wait_value[t] - 1 ELSE last_enqueued
  /\ submit' = NoThread
  /\ Goto(t, "idle")
  /\ ForgetLocals(t)
  /\ UNCHANGED <<awaited, gpu_vars, hand_vars>>

\* -commandBuffer returned nil: the number goes back if it is still the last
\* one handed out, and the submission lock is released.
GiveBack(t) ==
  /\ NilBuffers
  /\ pc[t] = "reserved"
  /\ last_enqueued' = IF last_enqueued = signal_value[t]
                        THEN wait_value[t] ELSE last_enqueued
  /\ submit' = NoThread
  /\ Goto(t, "idle")
  /\ ForgetLocals(t)
  /\ UNCHANGED <<awaited, gpu_vars, hand_vars>>

\* The buffer as it is committed; a wait for 0 is never encoded.
Committed(t, ending) ==
  [n |-> signal_value[t], wait |-> wait_value[t], ending |-> ending]

\* Commit(): signal encoded, handler attached, committed, lock released.  The
\* destructor of a buffer nobody committed does the same with an empty one.
Commit(t) ==
  /\ pc[t] = "encoding"
  /\ queue' = Append(queue, Committed(t, "gpu"))
  /\ submit' = NoThread
  /\ Goto(t, "idle")
  /\ ForgetLocals(t)
  /\ UNCHANGED <<last_enqueued, awaited, scheduled, completed, errors,
                 order_event, hand_vars>>

\* CommitAndWait(): Commit(), then waitUntilCompleted on this very buffer.
CommitAndWait(t) ==
  /\ pc[t] = "encoding"
  /\ queue' = Append(queue, Committed(t, "gpu"))
  /\ submit' = NoThread
  /\ awaited' = [awaited EXCEPT ![t] = Len(queue) + 1]
  /\ Goto(t, "completing")
  /\ ForgetLocals(t)
  /\ UNCHANGED <<last_enqueued, scheduled, completed, errors, order_event,
                 hand_vars>>

\* Metal lets it return once the buffer's own handlers have run as well.
WaitUntilCompleted(t) ==
  /\ pc[t] = "completing"
  /\ awaited[t] \in handled
  /\ awaited' = [awaited EXCEPT ![t] = 0]
  /\ Goto(t, "idle")
  /\ UNCHANGED <<lock_vars, wait_value, signal_value, gpu_vars, hand_vars>>

\* CommitWithHostCompletion(): no signal on the GPU, the handler will do it.
CommitWithHostCompletion(t) ==
  /\ pc[t] = "encoding"
  /\ queue' = Append(queue, Committed(t, "host"))
  /\ submit' = NoThread
  /\ Goto(t, "idle")
  /\ ForgetLocals(t)
  /\ UNCHANGED <<last_enqueued, awaited, scheduled, completed, errors,
                 order_event, hand_vars>>

-----------------------------------------------------------------------------
(***************************************************************************)
(* Host threads: RunGraph, whose buffers MPSGraph may commit itself        *)
(***************************************************************************)

\* The buffer now belongs to MPSGraph; submit stays with the thread.
ReleaseForExternalCommit(t) ==
  /\ pc[t] = "encoding"
  /\ Goto(t, "external")
  /\ UNCHANGED <<lock_vars, wait_value, signal_value, awaited,
                 gpu_vars, hand_vars>>

\* encodeToCommandBuffer: commits what it has and goes on with a fresh
\* buffer, which carries no wait.  At most once per graph here.
CommitAndContinue(t) ==
  /\ MpsSplits
  /\ pc[t] = "external"
  /\ queue' = Append(queue, Committed(t, "continued"))
  /\ wait_value' = [wait_value EXCEPT ![t] = 0]
  /\ Goto(t, "continued")
  /\ UNCHANGED <<lock_vars, signal_value, awaited, scheduled, completed,
                 errors, order_event, hand_vars>>

\* Mutant: WaitForStream is skipped.
CommitLiveUnsynchronised(t) ==
  /\ pc[t] \in {"external", "continued"}
  /\ queue' = Append(queue, Committed(t, "gpu"))
  /\ Goto(t, "returning")
  /\ UNCHANGED <<lock_vars, wait_value, signal_value, awaited, scheduled,
                 completed, errors, order_event, hand_vars>>

\* The signal and the handler go on whichever buffer is live now.  In
\* synchronous mode WaitForStream follows; submit is held, so the number it
\* reads is this thread's own.
CommitLive(t) ==
  /\ pc[t] \in {"external", "continued"}
  /\ queue' = Append(queue, Committed(t, "gpu"))
  /\ awaited' = [awaited EXCEPT ![t] = IF Synchronous THEN last_enqueued ELSE 0]
  /\ Goto(t, IF Synchronous THEN "syncing" ELSE "returning")
  /\ UNCHANGED <<lock_vars, wait_value, signal_value, scheduled, completed,
                 errors, order_event, hand_vars>>

WaitForStream(t) ==
  /\ pc[t] = "syncing"
  /\ order_event >= awaited[t]
  /\ awaited' = [awaited EXCEPT ![t] = 0]
  /\ Goto(t, "returning")
  /\ UNCHANGED <<lock_vars, wait_value, signal_value, gpu_vars, hand_vars>>

\* The OrderedCommandBuffer goes out of scope and releases submit.
ReturnFromRunGraph(t) ==
  /\ pc[t] = "returning"
  /\ submit' = NoThread
  /\ Goto(t, "idle")
  /\ ForgetLocals(t)
  /\ UNCHANGED <<last_enqueued, awaited, gpu_vars, hand_vars>>

-----------------------------------------------------------------------------
(***************************************************************************)
(* Host threads: BlockHostUntilDone                                        *)
(***************************************************************************)

\* Reads the last number under `mu` alone; 0 means there is nothing to wait
\* for.
BlockHostUntilDone(t) ==
  /\ pc[t] = "idle"
  /\ awaited' = [awaited EXCEPT ![t] = last_enqueued]
  /\ Goto(t, IF last_enqueued > 0 THEN "draining" ELSE "drained")
  /\ UNCHANGED <<lock_vars, wait_value, signal_value, gpu_vars, hand_vars>>

\* waitUntilSignaledValue with no timeout.
DrainWait(t) ==
  /\ pc[t] = "draining"
  /\ order_event >= awaited[t]
  /\ Goto(t, "drained")
  /\ UNCHANGED <<lock_vars, wait_value, signal_value, awaited,
                 gpu_vars, hand_vars>>

\* StreamAlreadyFailed decides between an error and success; the caller sees
\* `failed` as it is in this step.
DrainReturn(t) ==
  /\ pc[t] = "drained"
  /\ awaited' = [awaited EXCEPT ![t] = 0]
  /\ Goto(t, "idle")
  /\ UNCHANGED <<lock_vars, wait_value, signal_value, gpu_vars, hand_vars>>

-----------------------------------------------------------------------------
(***************************************************************************)
(* The GPU                                                                 *)
(***************************************************************************)

\* Buffers begin in commit order, each once its encoded wait is satisfied.
\* Beginning one does not wait for those before it to end.
Schedule ==
  /\ scheduled < Len(queue)
  /\ order_event >= queue[scheduled + 1].wait
  /\ scheduled' = scheduled + 1
  /\ UNCHANGED <<lock_vars, thread_vars, queue, completed, errors,
                 order_event, hand_vars>>

\* A begun buffer ends, well or in error, and its encoded signal executes.
Complete(i) ==
  /\ i \in (1..scheduled) \ completed
  /\ completed' = completed \cup {i}
  /\ \/ errors' = errors
     \/ Failures /\ errors' = errors \cup {i}
  /\ order_event' = IF queue[i].ending = "gpu" THEN queue[i].n ELSE order_event
  /\ UNCHANGED <<lock_vars, thread_vars, queue, scheduled, hand_vars>>

-----------------------------------------------------------------------------
(***************************************************************************)
(* Metal callback threads: completion handlers                             *)
(***************************************************************************)

\* Mutant: the outcome of the buffer is dropped.
CompletionUnnoted(i) ==
  /\ i \in completed \ handled
  /\ queue[i].ending = "gpu"
  /\ handled' = handled \cup {i}
  /\ UNCHANGED <<lock_vars, thread_vars, gpu_vars, failed, working>>

\* NoteCommandBufferCompletion.
NoteCompletion(i) ==
  /\ i \in completed \ handled
  /\ queue[i].ending = "gpu"
  /\ failed' = (failed \/ i \in errors)
  /\ handled' = handled \cup {i}
  /\ UNCHANGED <<lock_vars, thread_vars, gpu_vars, working>>

\* Mutant: the sequence is signalled before the work.
SignalThenWork(i) ==
  /\ i \in completed \ (handled \cup working)
  /\ queue[i].ending = "host"
  /\ failed' = (failed \/ i \in errors)
  /\ working' = working \cup {i}
  /\ order_event' = queue[i].n
  /\ UNCHANGED <<lock_vars, thread_vars, queue, scheduled, completed, errors,
                 handled>>

\* The handler of CommitWithHostCompletion up to its work, which runs between
\* this step and the next one when the buffer did not fail.
BeginHostWork(i) ==
  /\ i \in completed \ (handled \cup working)
  /\ queue[i].ending = "host"
  /\ failed' = (failed \/ i \in errors)
  /\ working' = working \cup {i}
  /\ UNCHANGED <<lock_vars, thread_vars, gpu_vars, handled>>

\* Mutant: a failed buffer's number is never signalled.
EndHostWorkIfNoError(i) ==
  /\ i \in working
  /\ order_event' = IF i \in errors THEN order_event ELSE queue[i].n
  /\ working' = working \ {i}
  /\ handled' = handled \cup {i}
  /\ UNCHANGED <<lock_vars, thread_vars, queue, scheduled, completed, errors,
                 failed>>

\* Its last statement: signalled from the host, whether or not it failed.
EndHostWork(i) ==
  /\ i \in working
  /\ order_event' = queue[i].n
  /\ working' = working \ {i}
  /\ handled' = handled \cup {i}
  /\ UNCHANGED <<lock_vars, thread_vars, queue, scheduled, completed, errors,
                 failed>>

-----------------------------------------------------------------------------
(***************************************************************************)
(* Specification                                                           *)
(***************************************************************************)

\* What a thread does once it is inside a call: it keeps going.
Continue(t) ==
  \/ Reserve(t) \/ TakeBuffer(t) \/ GiveBack(t)
  \/ Commit(t) \/ CommitAndWait(t) \/ CommitWithHostCompletion(t)
  \/ ReleaseForExternalCommit(t) \/ CommitAndContinue(t) \/ CommitLive(t)
  \/ WaitForStream(t) \/ ReturnFromRunGraph(t)
  \/ WaitUntilCompleted(t) \/ DrainWait(t) \/ DrainReturn(t)

Thread(t) == LockSubmit(t) \/ BlockHostUntilDone(t) \/ Continue(t)

Callback(i) == NoteCompletion(i) \/ BeginHostWork(i) \/ EndHostWork(i)

Next ==
  \/ \E t \in Threads : Thread(t)
  \/ Schedule
  \/ \E i \in 1..Len(queue) : Complete(i) \/ Callback(i)

Spec == Init /\ [][Next]_vars

\* A buffer the GPU can begin or end, a handler that can run and a thread
\* inside a call are not held up forever.  Nothing is assumed about threads
\* making new calls.  Each number stands for at most two buffers.
Fairness ==
  /\ \A t \in Threads : WF_vars(Continue(t))
  /\ WF_vars(Schedule)
  /\ \A i \in 1..(2 * MaxEnqueued) :
       /\ WF_vars(i \in 1..Len(queue) /\ Complete(i))
       /\ WF_vars(i \in 1..Len(queue) /\ Callback(i))

FairSpec == Spec /\ Fairness

-----------------------------------------------------------------------------
(***************************************************************************)
(* Properties                                                              *)
(***************************************************************************)

Indices == 1..Len(queue)

\* All the effects of a buffer are in memory: it has ended, and so has the
\* host work that CommitWithHostCompletion attached to it.
Finished(i) == IF queue[i].ending = "host" THEN i \in handled
                                           ELSE i \in completed

\* Buffers are committed in the order their numbers were handed out, which is
\* what `submit` is held for (metal_stream.h, SP_Stream_st::submit): a buffer
\* committed ahead of the one it waits for would stop the queue for good.
CommitOrder == \A i, j \in Indices : i < j => queue[i].n <= queue[j].n

\* The ordering contract of the stream: no buffer begins while an earlier one
\* still has work to do, on the GPU or in its completion handler.
SerialExecution ==
  \A i, j \in Indices : i < j /\ j <= scheduled => Finished(i)

\* When BlockHostUntilDone comes out of its wait, everything numbered up to
\* the value it read is in memory, host copies included.
DrainedIsDone ==
  \A t \in Threads : pc[t] = "drained" =>
    \A i \in Indices : queue[i].n <= awaited[t] => Finished(i)

\* In synchronous mode a graph operation returns only after all of its
\* buffers, and all before them, have finished (RunGraph).
SynchronousGraphIsDone ==
  \A t \in Threads : Synchronous /\ pc[t] = "returning" =>
    \A i \in Indices : queue[i].n <= signal_value[t] => Finished(i)

\* The event counts: no step skips a number or takes one back, though it is
\* set by the GPU for some numbers and by callback threads for others.
SignalsInOrder == [][order_event' \in {order_event, order_event + 1}]_vars

\* A host thread that drains the stream gets out of its wait.
DrainReturns ==
  \A t \in Threads : pc[t] = "draining" ~> pc[t] = "drained"

\* No buffer wedges the stream: every number a committed buffer carries is
\* signalled, whether the buffer fails or not.
EveryNumberIsSignalled ==
  \A n \in 1..MaxEnqueued :
    (\E i \in Indices : queue[i].n = n) ~> order_event >= n

\* The failure of any buffer reaches the stream.
FailureIsReported == (errors # {}) ~> failed

\* The stream is the strictly ordered queue it promises to be: buffers are its
\* operations, those begun are those the GPU has begun, and the event counts
\* the finished ones.
Order == INSTANCE StreamOrder WITH enqueued <- Len(queue),
                                   begun <- scheduled,
                                   finished <- order_event
ImplementsOrder == Order!Spec

-----------------------------------------------------------------------------
(***************************************************************************)
(* Inductive invariants                                                    *)
(***************************************************************************)

\* A number has been taken and its last buffer is not committed yet.
OpenSteps == {"reserved", "encoding", "external", "continued"}

\* Why buffers are committed in order: the holder of submit is the one thread
\* with an open buffer, it has the last number, and until it splits its buffer
\* every committed one has a smaller number.
CommitInv ==
  /\ \A t \in Threads : pc[t] \in HoldingSteps <=> submit = t
  /\ \A t \in Threads : pc[t] \in OpenSteps => signal_value[t] = last_enqueued
  /\ \A t \in Threads : pc[t] = "reserved" => wait_value[t] + 1 = last_enqueued
  /\ \A i \in Indices : queue[i].n <= last_enqueued
  /\ \A t \in Threads, i \in Indices :
       pc[t] \in OpenSteps \ {"continued"} => queue[i].n < last_enqueued
  /\ CommitOrder

\* Why execution is serial when MPSGraph never splits a buffer: the buffer at
\* place i of the queue has number i and waits for i - 1; at most one buffer is
\* begun and unfinished, the one after those the event has counted.
SerialInv ==
  /\ \A i \in Indices : /\ queue[i].n = i
                        /\ queue[i].wait + 1 = i
                        /\ queue[i].ending # "continued"
  /\ \A t \in Threads : pc[t] # "continued"
  /\ \A t \in Threads : pc[t] \in OpenSteps =>
       wait_value[t] = Len(queue) /\ last_enqueued = Len(queue) + 1
  /\ (\A t \in Threads : pc[t] \notin OpenSteps) => last_enqueued = Len(queue)
  /\ order_event <= scheduled
  /\ scheduled <= order_event + 1
  /\ \A i \in Indices : Finished(i) <=> i <= order_event
  /\ \A t \in Threads : pc[t] = "drained" => awaited[t] <= order_event

\* One buffer at most signals a number, and those that do are in order.
Signals(i) == queue[i].ending # "continued"
OneSignalEach ==
  \A i, j \in Indices : i < j /\ Signals(i) /\ Signals(j) => queue[i].n < queue[j].n

\* Numbers are waited for one by one.  The fresh buffer of a split carries no
\* wait, but it begins behind the buffer it continues.
CountedInv ==
  \A i \in Indices :
    /\ queue[i].wait + 1 = queue[i].n \/ (i > 1 /\ queue[i - 1].n = queue[i].n)
    /\ i <= scheduled => queue[i].n <= order_event + 1
    /\ Signals(i) => (Finished(i) <=> queue[i].n <= order_event)

\* The number of an open buffer is ahead of the event and nobody's signal yet.
OpenInv ==
  /\ order_event <= last_enqueued
  /\ \A t \in Threads : pc[t] \in OpenSteps =>
       /\ order_event < last_enqueued
       /\ \A i \in Indices : Signals(i) => queue[i].n < last_enqueued
       /\ IF pc[t] = "continued" THEN queue # << >> /\ queue[Len(queue)].n = last_enqueued
                                 ELSE wait_value[t] + 1 = last_enqueued

\* Why the event counts, also when MPSGraph splits buffers.
SplitInv == OneSignalEach /\ CountedInv /\ OpenInv

\* Why RunGraph's wait covers its own buffers: it holds submit, so that the
\* last number it reads is still its own, and the event never goes back.
SyncInv ==
  Synchronous => \A t \in Threads :
    /\ pc[t] = "syncing" => awaited[t] = signal_value[t]
    /\ pc[t] = "returning" => signal_value[t] <= order_event

\* Why nobody waits for a number that will not come: every number is signalled
\* by some buffer or is the open one's, a buffer waits for its predecessor's
\* number or for none, and CommitAndWait and RunGraph for a buffer, or a number,
\* that there is.
OwedInv ==
  /\ \A n \in 1..last_enqueued :
       \/ \E i \in Indices : Signals(i) /\ queue[i].n = n
       \/ n = last_enqueued /\ \E t \in Threads : pc[t] \in OpenSteps
  /\ \A i \in Indices : queue[i].wait = 0 \/ queue[i].wait + 1 = queue[i].n
  /\ \A t \in Threads : pc[t] \in OpenSteps =>
       wait_value[t] = 0 \/ wait_value[t] + 1 = last_enqueued
  /\ \A t \in Threads : pc[t] = "syncing" => awaited[t] <= last_enqueued
  /\ \A t \in Threads : pc[t] = "completing" =>
       awaited[t] \in Indices /\ queue[awaited[t]].ending = "gpu"

\* The number a drain waits for is handed out, and not given back since.
DrainsAreOwed ==
  \A t \in Threads : pc[t] = "draining" => awaited[t] <= last_enqueued

\* Somebody can go on: a thread with submit, the GPU or a handler.
CanMove ==
  \/ \E t \in Threads : pc[t] \in HoldingSteps \ {"syncing"}
  \/ scheduled < Len(queue) /\ order_event >= queue[scheduled + 1].wait
  \/ \E i \in 1..scheduled : i \notin completed \/ (Signals(i) /\ i \notin handled)

\* The wait of a thread, if it is in one, is over.
MayLeave(t) ==
  /\ pc[t] \in {"draining", "syncing"} => order_event >= awaited[t]
  /\ pc[t] = "completing" => awaited[t] \in handled

\* The stream is never wedged: where nobody can go on, all that was committed
\* has run, all numbers are signalled and no thread is kept waiting, but for a
\* drain whose number was given back.
NothingWedges ==
  \/ CanMove
  \/ /\ scheduled = Len(queue) /\ order_event = last_enqueued
     /\ \A t \in Threads :
          MayLeave(t) \/ (pc[t] = "draining" /\ awaited[t] > last_enqueued)

=============================================================================

------------------------ MODULE MetalStreamProofs ------------------------
(***************************************************************************)
(* Proofs about one stream, for every set of threads and every bound.      *)
(***************************************************************************)
EXTENDS MetalStream, TLAPS

\* The variables of a stream keep their types.
THEOREM TypeCorrect == Spec => []TypeOK
<1>1. Init => TypeOK
  <2> SUFFICES ASSUME Init PROVE TypeOK
    OBVIOUS
  <2>1. << >> \in Seq(CommandBuffers) /\ Len(<< >>) = 0
    OBVIOUS
  <2>2. /\ queue \in Seq(CommandBuffers)
        /\ scheduled \in Nat /\ scheduled <= Len(queue)
    BY <2>1 DEF Init
  <2>3. /\ completed \subseteq 1..scheduled /\ errors \subseteq completed
        /\ handled \subseteq completed
        /\ working \subseteq {i \in completed \ handled : queue[i].ending = "host"}
    BY DEF Init
  <2>4. /\ pc \in [Threads -> Steps]
        /\ submit \in Threads \cup {NoThread}
        /\ failed \in BOOLEAN
    BY DEF Init, Steps
  <2>5. /\ last_enqueued \in Nat /\ order_event \in Nat
        /\ wait_value \in [Threads -> Nat]
        /\ signal_value \in [Threads -> Nat]
        /\ awaited \in [Threads -> Nat]
    BY DEF Init
  <2> QED BY <2>2, <2>3, <2>4, <2>5 DEF TypeOK
<1>2. ASSUME TypeOK, [Next]_vars
      PROVE  TypeOK'
  <2> USE <1>2 DEF TypeOK, lock_vars, thread_vars, gpu_vars, hand_vars,
                   Goto, ForgetLocals, Steps
  <2> DEFINE Host == {i \in completed \ handled : queue[i].ending = "host"}
  <2>0. /\ queue \in Seq(CommandBuffers)
        /\ Len(queue) \in Nat
        /\ \A i \in 1..Len(queue) :
             /\ queue[i] \in CommandBuffers
             /\ queue[i].n \in Nat
             /\ queue[i].wait \in Nat
        /\ completed \subseteq 1..Len(queue)
    <3>1. queue \in Seq(CommandBuffers)
      OBVIOUS
    <3>2. Len(queue) \in Nat /\ \A i \in 1..Len(queue) : queue[i] \in CommandBuffers
      BY <3>1
    <3> QED BY <3>1, <3>2 DEF CommandBuffers
  <2>A. ASSUME NEW t \in Threads, NEW e \in Endings,
               queue' = Append(queue, Committed(t, e)),
               UNCHANGED <<scheduled, completed, errors, order_event, hand_vars>>
        PROVE  /\ queue' \in Seq(CommandBuffers)
               /\ scheduled' <= Len(queue')
               /\ completed' \subseteq 1..scheduled'
               /\ working' \subseteq
                    {i \in completed' \ handled' : queue'[i].ending = "host"}
    <3>1. Committed(t, e) \in CommandBuffers
      BY DEF Committed, CommandBuffers
    <3>2. /\ queue' \in Seq(CommandBuffers)
          /\ Len(queue') = Len(queue) + 1
          /\ \A i \in 1..Len(queue) : queue'[i] = queue[i]
      BY <3>1, <2>A, <2>0
    <3>3. \A i \in completed : queue'[i] = queue[i]
      BY <3>2, <2>0
    <3> QED BY <3>2, <3>3, <2>0, <2>A
  <2>B. "gpu" \in Endings /\ "host" \in Endings /\ "continued" \in Endings
    BY DEF Endings
  <2>1. ASSUME NEW t \in Threads, LockSubmit(t) PROVE TypeOK'
    BY <2>1 DEF LockSubmit
  <2>2. ASSUME NEW t \in Threads, Reserve(t) PROVE TypeOK'
    BY <2>2 DEF Reserve
  <2>3. ASSUME NEW t \in Threads, TakeBuffer(t) PROVE TypeOK'
    BY <2>3 DEF TakeBuffer
  <2>4. ASSUME NEW t \in Threads, GiveBack(t) PROVE TypeOK'
    BY <2>4 DEF GiveBack
  <2>5. ASSUME NEW t \in Threads, Commit(t) PROVE TypeOK'
    BY <2>5, <2>A, <2>B DEF Commit
  <2>6. ASSUME NEW t \in Threads, CommitAndWait(t) PROVE TypeOK'
    BY <2>6, <2>A, <2>B, <2>0 DEF CommitAndWait
  <2>7. ASSUME NEW t \in Threads, CommitWithHostCompletion(t) PROVE TypeOK'
    BY <2>7, <2>A, <2>B DEF CommitWithHostCompletion
  <2>8. ASSUME NEW t \in Threads, ReleaseForExternalCommit(t) PROVE TypeOK'
    BY <2>8 DEF ReleaseForExternalCommit
  <2>9. ASSUME NEW t \in Threads, CommitAndContinue(t) PROVE TypeOK'
    BY <2>9, <2>A, <2>B DEF CommitAndContinue
  <2>10. ASSUME NEW t \in Threads, CommitLive(t) PROVE TypeOK'
    BY <2>10, <2>A, <2>B DEF CommitLive
  <2>11. ASSUME NEW t \in Threads, WaitForStream(t) PROVE TypeOK'
    BY <2>11 DEF WaitForStream
  <2>12. ASSUME NEW t \in Threads, ReturnFromRunGraph(t) PROVE TypeOK'
    BY <2>12 DEF ReturnFromRunGraph
  <2>13. ASSUME NEW t \in Threads, WaitUntilCompleted(t) PROVE TypeOK'
    BY <2>13 DEF WaitUntilCompleted
  <2>14. ASSUME NEW t \in Threads, BlockHostUntilDone(t) PROVE TypeOK'
    BY <2>14 DEF BlockHostUntilDone
  <2>15. ASSUME NEW t \in Threads, DrainWait(t) PROVE TypeOK'
    BY <2>15 DEF DrainWait
  <2>16. ASSUME NEW t \in Threads, DrainReturn(t) PROVE TypeOK'
    BY <2>16 DEF DrainReturn
  <2>17. ASSUME Schedule PROVE TypeOK'
    BY <2>17, <2>0 DEF Schedule
  <2>18. ASSUME NEW i \in 1..Len(queue), Complete(i) PROVE TypeOK'
    BY <2>18, <2>0 DEF Complete
  <2>19. ASSUME NEW i \in 1..Len(queue), NoteCompletion(i) PROVE TypeOK'
    BY <2>19 DEF NoteCompletion
  <2>20. ASSUME NEW i \in 1..Len(queue), BeginHostWork(i) PROVE TypeOK'
    BY <2>20 DEF BeginHostWork
  <2>21. ASSUME NEW i \in 1..Len(queue), EndHostWork(i) PROVE TypeOK'
    BY <2>21, <2>0 DEF EndHostWork
  <2>22. CASE UNCHANGED vars
    BY <2>22 DEF vars
  <2> QED
    BY <2>1, <2>2, <2>3, <2>4, <2>5, <2>6, <2>7, <2>8, <2>9, <2>10, <2>11,
       <2>12, <2>13, <2>14, <2>15, <2>16, <2>17, <2>18, <2>19, <2>20, <2>21,
       <2>22, <1>2
    DEF Next, Thread, Continue, Callback
<1> QED BY <1>1, <1>2, PTL DEF Spec

-----------------------------------------------------------------------------
\* A commit appends one buffer to the queue and leaves the others in place.
LEMMA AppendBuffer ==
  ASSUME queue \in Seq(CommandBuffers), NEW t \in Threads, NEW e \in Endings,
         signal_value[t] \in Nat, wait_value[t] \in Nat,
         queue' = Append(queue, Committed(t, e))
  PROVE  /\ Len(queue) \in Nat
         /\ Len(queue') = Len(queue) + 1
         /\ \A i \in 1..Len(queue) : queue'[i] = queue[i]
         /\ queue'[Len(queue) + 1].n = signal_value[t]
         /\ queue'[Len(queue) + 1].wait = wait_value[t]
         /\ queue'[Len(queue) + 1].ending = e
         /\ \A i \in 1..Len(queue') : i \in 1..Len(queue) \/ i = Len(queue) + 1
<1>1. Committed(t, e) \in CommandBuffers
  BY DEF Committed, CommandBuffers
<1>2. /\ Len(queue) \in Nat
      /\ Len(queue') = Len(queue) + 1
      /\ \A i \in 1..Len(queue) : queue'[i] = queue[i]
      /\ queue'[Len(queue) + 1] = Committed(t, e)
  BY <1>1
<1> QED BY <1>2 DEF Committed

\* What the entries of a well-typed queue are.
LEMMA QueueEntries ==
  ASSUME TypeOK
  PROVE  /\ Len(queue) \in Nat
         /\ \A i \in Indices : /\ i \in Nat
                               /\ queue[i].n \in Nat
                               /\ queue[i].wait \in Nat
                               /\ queue[i].ending \in Endings
<1>1. queue \in Seq(CommandBuffers)
  BY DEF TypeOK
<1>2. Len(queue) \in Nat /\ \A i \in 1..Len(queue) : queue[i] \in CommandBuffers
  BY <1>1
<1> QED BY <1>2 DEF CommandBuffers, Indices

\* Holding submit from the number to the commit keeps CommitInv.
LEMMA CommitInvStep ==
  ASSUME TypeOK, TypeOK', CommitInv, [Next]_vars
  PROVE  CommitInv'
<1> USE DEF lock_vars, thread_vars, gpu_vars, hand_vars, Goto, ForgetLocals,
            OpenSteps, HoldingSteps
<1>0. /\ pc \in [Threads -> Steps] /\ signal_value \in [Threads -> Nat]
      /\ wait_value \in [Threads -> Nat] /\ last_enqueued \in Nat
      /\ queue \in Seq(CommandBuffers) /\ Len(queue) \in Nat
      /\ \A i \in Indices : i \in Nat /\ queue[i].n \in Nat
      /\ NoThread \notin Threads
  BY QueueEntries, ThreadsAssumption DEF TypeOK
\* Steps that neither commit nor take or give back a number.
<1>1. ASSUME UNCHANGED <<submit, last_enqueued, queue>>,
             NEW t \in Threads, NEW s \in Steps, Goto(t, s),
             s \in HoldingSteps <=> pc[t] \in HoldingSteps,
             s \in OpenSteps => s \notin {"reserved", "continued"}
                               /\ pc[t] \in OpenSteps \ {"continued"}
                               /\ signal_value' = signal_value,
             \A u \in Threads \ {t} : /\ signal_value'[u] = signal_value[u]
                                      /\ wait_value'[u] = wait_value[u]
      PROVE  CommitInv'
  <2>1. \A u \in Threads : pc'[u] \in HoldingSteps <=> submit' = u
    BY <1>0, <1>1 DEF CommitInv
  <2>2. \A u \in Threads : pc'[u] \in OpenSteps =>
          signal_value'[u] = last_enqueued' /\ pc[u] \in OpenSteps
    BY <1>0, <1>1 DEF CommitInv
  <2>3. \A u \in Threads : pc'[u] = "reserved" =>
          wait_value'[u] + 1 = last_enqueued'
    BY <1>0, <1>1 DEF CommitInv
  <2>4. \A u \in Threads : pc'[u] \in OpenSteps \ {"continued"} =>
          pc[u] \in OpenSteps \ {"continued"}
    BY <1>0, <1>1
  <2> QED
    BY <1>0, <1>1, <2>1, <2>2, <2>3, <2>4 DEF CommitInv, CommitOrder, Indices
\* Steps of the GPU and of the completion handlers.
<1>2. ASSUME UNCHANGED <<lock_vars, thread_vars, queue>>
      PROVE  CommitInv'
  BY <1>2 DEF CommitInv, CommitOrder, Indices
\* Steps that commit the buffer of the holder of submit.
<1>3. ASSUME NEW t \in Threads, NEW e \in Endings, NEW s \in Steps,
             pc[t] \in {"encoding", "external", "continued"},
             queue' = Append(queue, Committed(t, e)), last_enqueued' = last_enqueued,
             Goto(t, s), s \in OpenSteps => s = "continued",
             IF s \in HoldingSteps THEN submit' = submit ELSE submit' = NoThread,
             s \in OpenSteps => signal_value' = signal_value
      PROVE  CommitInv'
  <2>1. /\ submit = t
        /\ signal_value[t] = last_enqueued
        /\ \A u \in Threads \ {t} : pc[u] \notin HoldingSteps
    BY <1>0, <1>3 DEF CommitInv
  <2>2. \A u \in Threads : pc'[u] \in HoldingSteps <=> submit' = u
    BY <1>0, <1>3, <2>1 DEF CommitInv
  <2>3. \A u \in Threads : pc'[u] \in OpenSteps => u = t /\ pc'[u] = "continued"
    BY <1>0, <1>3, <2>1
  <2>4. \A u \in Threads : pc'[u] \in OpenSteps => signal_value'[u] = last_enqueued'
    BY <1>0, <1>3, <2>1, <2>3
  <2>5. /\ Len(queue') = Len(queue) + 1
        /\ \A i \in 1..Len(queue) : queue'[i] = queue[i]
        /\ queue'[Len(queue) + 1].n = last_enqueued
        /\ \A i \in 1..Len(queue') : i \in 1..Len(queue) \/ i = Len(queue) + 1
    BY <1>0, <1>3, <2>1, AppendBuffer
  <2>6. \A i \in Indices' : queue'[i].n <= last_enqueued'
    BY <1>0, <1>3, <2>5 DEF CommitInv, Indices
  <2>7. CommitOrder'
    <3> SUFFICES ASSUME NEW i \in 1..Len(queue'), NEW j \in 1..Len(queue'), i < j
                 PROVE  queue'[i].n <= queue'[j].n
      BY DEF CommitOrder, Indices
    <3>1. i \in 1..Len(queue)
      BY <1>0, <2>5
    <3>2. CASE j \in 1..Len(queue)
      BY <3>1, <3>2, <2>5 DEF CommitInv, CommitOrder, Indices
    <3>3. CASE j = Len(queue) + 1
      BY <3>1, <3>3, <2>5, <1>0 DEF CommitInv, Indices
    <3> QED BY <3>2, <3>3, <2>5
  <2> QED
    BY <2>2, <2>3, <2>4, <2>6, <2>7 DEF CommitInv
<1>4. ASSUME NEW t \in Threads, Reserve(t) PROVE CommitInv'
  <2>1. /\ submit = t
        /\ \A u \in Threads \ {t} : pc[u] \notin HoldingSteps
    BY <1>0, <1>4 DEF CommitInv, Reserve
  <2>2. \A u \in Threads : pc'[u] \in OpenSteps => u = t
    BY <1>0, <1>4, <2>1 DEF Reserve
  <2>3. \A u \in Threads : pc'[u] \in HoldingSteps <=> submit' = u
    BY <1>0, <1>4, <2>1 DEF CommitInv, Reserve
  <2>4. /\ last_enqueued' = last_enqueued + 1 /\ queue' = queue
        /\ signal_value'[t] = last_enqueued' /\ wait_value'[t] = last_enqueued
    BY <1>0, <1>4 DEF Reserve
  <2>5. \A i \in Indices' : queue'[i].n < last_enqueued'
    BY <1>0, <2>4 DEF CommitInv, Indices
  <2> QED
    BY <1>0, <2>2, <2>3, <2>4, <2>5 DEF CommitInv, CommitOrder, Indices
<1>5. ASSUME NEW t \in Threads, GiveBack(t) PROVE CommitInv'
  <2>1. /\ submit = t
        /\ \A u \in Threads \ {t} : pc[u] \notin HoldingSteps
        /\ signal_value[t] = last_enqueued
    BY <1>0, <1>5 DEF CommitInv, GiveBack
  <2>2. \A u \in Threads : pc'[u] \notin HoldingSteps
    BY <1>0, <1>5, <2>1 DEF GiveBack
  <2>3. /\ last_enqueued' + 1 = last_enqueued
        /\ last_enqueued' \in Nat
        /\ queue' = queue /\ submit' = NoThread
    BY <1>0, <1>5, <2>1 DEF CommitInv, GiveBack
  <2>4. \A i \in Indices' : queue'[i].n <= last_enqueued'
    BY <1>0, <1>5, <2>3 DEF CommitInv, Indices, GiveBack
  <2> QED
    BY <1>0, <2>2, <2>3, <2>4 DEF CommitInv, CommitOrder, Indices
<1>6. ASSUME NEW t \in Threads, LockSubmit(t) PROVE CommitInv'
  <2>1. \A u \in Threads : pc[u] \notin HoldingSteps
    BY <1>0, <1>6 DEF CommitInv, LockSubmit
  <2>2. \A u \in Threads : pc'[u] \in HoldingSteps <=> submit' = u
    BY <1>0, <1>6, <2>1 DEF LockSubmit
  <2>3. \A u \in Threads : pc'[u] \notin OpenSteps
    BY <1>0, <1>6, <2>1 DEF LockSubmit
  <2> QED
    BY <1>0, <1>6, <2>2, <2>3 DEF CommitInv, CommitOrder, Indices, LockSubmit
<1>7. ASSUME NEW t \in Threads, ReturnFromRunGraph(t) PROVE CommitInv'
  <2>1. \A u \in Threads \ {t} : pc[u] \notin HoldingSteps
    BY <1>0, <1>7 DEF CommitInv, ReturnFromRunGraph
  <2>2. \A u \in Threads : pc'[u] \notin HoldingSteps
    BY <1>0, <1>7, <2>1 DEF ReturnFromRunGraph
  <2> QED
    BY <1>0, <1>7, <2>2 DEF CommitInv, CommitOrder, Indices, ReturnFromRunGraph
<1>8. ASSUME NEW t \in Threads,
             \/ TakeBuffer(t) \/ ReleaseForExternalCommit(t) \/ WaitForStream(t)
             \/ WaitUntilCompleted(t) \/ BlockHostUntilDone(t) \/ DrainWait(t)
             \/ DrainReturn(t)
      PROVE  CommitInv'
  BY <1>0, <1>1, <1>8
  DEF TakeBuffer, ReleaseForExternalCommit, WaitForStream, WaitUntilCompleted,
      BlockHostUntilDone, DrainWait, DrainReturn, Steps
<1>9. ASSUME NEW t \in Threads,
             \/ Commit(t) \/ CommitAndWait(t) \/ CommitWithHostCompletion(t)
             \/ CommitAndContinue(t) \/ CommitLive(t)
      PROVE  CommitInv'
  <2> USE <1>0, <1>3 DEF Steps, Endings
  <2>1. CASE Commit(t)
    BY <2>1 DEF Commit
  <2>2. CASE CommitAndWait(t)
    BY <2>2 DEF CommitAndWait
  <2>3. CASE CommitWithHostCompletion(t)
    BY <2>3 DEF CommitWithHostCompletion
  <2>4. CASE CommitAndContinue(t)
    BY <2>4 DEF CommitAndContinue
  <2>5. CASE CommitLive(t)
    BY <2>5 DEF CommitLive
  <2> QED BY <1>9, <2>1, <2>2, <2>3, <2>4, <2>5
<1>10. CASE \/ Schedule
            \/ \E i \in 1..Len(queue) : Complete(i) \/ Callback(i)
            \/ UNCHANGED vars
  BY <1>2, <1>10
  DEF Schedule, Complete, Callback, NoteCompletion, BeginHostWork, EndHostWork, vars
<1> QED
  BY <1>4, <1>5, <1>6, <1>7, <1>8, <1>9, <1>10 DEF Next, Thread, Continue

\* Buffers are committed in the order of their numbers, even when MPSGraph
\* splits one (SP_Stream_st::submit).
THEOREM CommitOrderHolds == Spec => []CommitOrder
<1>1. Init => CommitInv
  <2> SUFFICES ASSUME Init PROVE CommitInv
    OBVIOUS
  <2>1. Len(queue) = 0 /\ Indices = {}
    BY DEF Init, Indices
  <2> QED
    BY <2>1, ThreadsAssumption
    DEF Init, CommitInv, CommitOrder, HoldingSteps, OpenSteps
<1>2. TypeOK /\ TypeOK' /\ CommitInv /\ [Next]_vars => CommitInv'
  BY CommitInvStep
<1>3. CommitInv => CommitOrder
  BY DEF CommitInv
<1> QED BY <1>1, <1>2, <1>3, TypeCorrect, PTL DEF Spec

-----------------------------------------------------------------------------
\* While MPSGraph splits nothing, a buffer's place in the queue is its number,
\* and the event counter holds execution to one buffer at a time.
LEMMA SerialInvStep ==
  ASSUME TypeOK, TypeOK', CommitInv, SerialInv, ~MpsSplits, [Next]_vars
  PROVE  SerialInv'
<1> USE DEF lock_vars, thread_vars, gpu_vars, hand_vars, Goto, ForgetLocals,
            OpenSteps, HoldingSteps
<1>0. /\ pc \in [Threads -> Steps] /\ signal_value \in [Threads -> Nat]
      /\ wait_value \in [Threads -> Nat] /\ awaited \in [Threads -> Nat]
      /\ last_enqueued \in Nat /\ order_event \in Nat /\ scheduled \in Nat
      /\ queue \in Seq(CommandBuffers) /\ Len(queue) \in Nat
      /\ scheduled <= Len(queue)
      /\ completed \subseteq 1..scheduled /\ handled \subseteq completed
      /\ \A i \in Indices : i \in Nat /\ queue[i].n \in Nat /\ queue[i].wait \in Nat
  BY QueueEntries DEF TypeOK
<1>1. \A i \in Indices : queue[i].ending \in {"gpu", "host"}
  BY QueueEntries DEF SerialInv, Endings
\* A step that changes one thread's place in the code and nothing in the queue.
<1>2. ASSUME NEW t \in Threads, NEW s \in Steps, Goto(t, s),
             UNCHANGED <<last_enqueued, gpu_vars, handled>>,
             s # "continued", s \in OpenSteps <=> pc[t] \in OpenSteps,
             s \in OpenSteps => wait_value' = wait_value,
             \A u \in Threads \ {t} : /\ wait_value'[u] = wait_value[u]
                                      /\ awaited'[u] = awaited[u],
             s = "drained" => awaited'[t] <= order_event
      PROVE  SerialInv'
  <2>1. \A u \in Threads : pc'[u] \in OpenSteps <=> pc[u] \in OpenSteps
    BY <1>0, <1>2
  <2>2. \A u \in Threads : pc'[u] \in OpenSteps => wait_value'[u] = wait_value[u]
    BY <1>0, <1>2
  <2>3. \A u \in Threads : pc'[u] = "drained" => awaited'[u] <= order_event
    BY <1>0, <1>2 DEF SerialInv
  <2>4. \A u \in Threads : pc'[u] # "continued"
    BY <1>0, <1>2 DEF SerialInv
  <2> QED
    BY <1>2, <2>1, <2>2, <2>3, <2>4 DEF SerialInv, Finished, Indices
\* A step that commits the one open buffer.
<1>3. ASSUME NEW t \in Threads, NEW e \in {"gpu", "host"}, NEW s \in Steps,
             pc[t] \in {"encoding", "external", "continued"},
             queue' = Append(queue, Committed(t, e)), Goto(t, s),
             s \notin OpenSteps, s # "drained",
             UNCHANGED <<last_enqueued, scheduled, completed, order_event, handled>>,
             \A u \in Threads \ {t} : awaited'[u] = awaited[u]
      PROVE  SerialInv'
  <2>1. /\ submit = t
        /\ signal_value[t] = Len(queue) + 1 /\ wait_value[t] = Len(queue)
        /\ last_enqueued = Len(queue) + 1
        /\ \A u \in Threads \ {t} : pc[u] \notin HoldingSteps
    BY <1>0, <1>3 DEF CommitInv, SerialInv
  <2>2. \A u \in Threads : pc'[u] \notin OpenSteps
    BY <1>0, <1>3, <2>1
  <2>3. \A u \in Threads : pc'[u] = "drained" => awaited'[u] <= order_event'
    BY <1>0, <1>3 DEF SerialInv
  <2>4. /\ Len(queue') = Len(queue) + 1
        /\ \A i \in 1..Len(queue) : queue'[i] = queue[i]
        /\ queue'[Len(queue) + 1].n = Len(queue) + 1
        /\ queue'[Len(queue) + 1].wait = Len(queue)
        /\ queue'[Len(queue) + 1].ending = e
        /\ \A i \in 1..Len(queue') : i \in 1..Len(queue) \/ i = Len(queue) + 1
    <3>1. e \in Endings
      BY DEF Endings
    <3> QED BY <3>1, <1>0, <1>3, <2>1, AppendBuffer
  <2>5. \A i \in Indices' : /\ queue'[i].n = i
                            /\ queue'[i].wait + 1 = i
                            /\ queue'[i].ending # "continued"
    BY <1>0, <2>4 DEF SerialInv, Indices
  <2>6. \A i \in Indices' : Finished(i)' <=> i <= order_event'
    <3>1. Len(queue) + 1 \notin completed /\ Len(queue) + 1 \notin handled
      BY <1>0
    <3>2. ~(Len(queue) + 1 <= order_event)
      BY <1>0 DEF SerialInv
    <3> QED BY <1>0, <1>3, <3>1, <3>2, <2>4 DEF SerialInv, Finished, Indices
  <2> QED
    BY <1>0, <1>3, <2>1, <2>2, <2>3, <2>4, <2>5, <2>6 DEF SerialInv
<1>4. ASSUME NEW t \in Threads, Reserve(t) \/ GiveBack(t) PROVE SerialInv'
  <2>1. /\ submit = t
        /\ \A u \in Threads \ {t} : pc[u] \notin HoldingSteps
        /\ pc[t] = "reserved" => signal_value[t] = last_enqueued
    BY <1>0, <1>4 DEF CommitInv, Reserve, GiveBack
  <2>2. CASE Reserve(t)
    <3>1. last_enqueued = Len(queue)
      BY <1>0, <2>1, <2>2 DEF SerialInv, Reserve
    <3>2. /\ \A u \in Threads : pc'[u] \in OpenSteps => u = t
          /\ pc'[t] \in OpenSteps
          /\ wait_value'[t] = Len(queue) /\ last_enqueued' = Len(queue) + 1
          /\ \A u \in Threads : pc'[u] # "continued" /\ (pc'[u] = "drained" => pc[u] = "drained")
      BY <1>0, <2>1, <2>2, <3>1 DEF Reserve
    <3>3. UNCHANGED <<queue, scheduled, completed, order_event, handled, awaited>>
      BY <2>2 DEF Reserve
    <3>4. \A i \in Indices' : i \in Indices /\ (Finished(i)' <=> Finished(i))
      BY <3>3 DEF Finished, Indices
    <3> QED BY <1>0, <3>2, <3>3, <3>4 DEF SerialInv, Indices
  <2>3. CASE GiveBack(t)
    <3>1. /\ \A u \in Threads : pc'[u] \notin OpenSteps
          /\ last_enqueued' = Len(queue)
          /\ \A u \in Threads : pc'[u] # "continued" /\ (pc'[u] = "drained" => pc[u] = "drained")
      BY <1>0, <2>1, <2>3 DEF SerialInv, GiveBack
    <3>2. UNCHANGED <<queue, scheduled, completed, order_event, handled, awaited>>
      BY <2>3 DEF GiveBack
    <3>3. \A i \in Indices' : i \in Indices /\ (Finished(i)' <=> Finished(i))
      BY <3>2 DEF Finished, Indices
    <3> QED BY <1>0, <3>1, <3>2, <3>3 DEF SerialInv, Indices
  <2> QED BY <1>4, <2>2, <2>3
<1>5. ASSUME NEW t \in Threads,
             \/ LockSubmit(t) \/ TakeBuffer(t) \/ ReleaseForExternalCommit(t)
             \/ WaitForStream(t) \/ ReturnFromRunGraph(t) \/ WaitUntilCompleted(t)
             \/ BlockHostUntilDone(t) \/ DrainWait(t) \/ DrainReturn(t)
      PROVE  SerialInv'
  <2> USE <1>0, <1>2 DEF Steps
  <2>1. CASE \/ LockSubmit(t) \/ TakeBuffer(t) \/ ReleaseForExternalCommit(t)
    BY <2>1 DEF LockSubmit, TakeBuffer, ReleaseForExternalCommit
  <2>2. CASE WaitForStream(t) \/ WaitUntilCompleted(t)
    BY <2>2 DEF WaitForStream, WaitUntilCompleted
  <2>3. CASE ReturnFromRunGraph(t)
    BY <2>3 DEF ReturnFromRunGraph
  <2>4. CASE BlockHostUntilDone(t)
    <3>1. CASE last_enqueued > 0
      <4>1. Goto(t, "draining")
        BY <2>4, <3>1 DEF BlockHostUntilDone
      <4> QED BY <2>4, <4>1 DEF BlockHostUntilDone
    <3>2. CASE ~(last_enqueued > 0)
      <4> HIDE <1>2
      <4>1. last_enqueued = 0
        BY <3>2
      <4>2. /\ pc[t] = "idle" /\ pc' = [pc EXCEPT ![t] = "drained"]
            /\ awaited' = [awaited EXCEPT ![t] = 0]
            /\ UNCHANGED <<last_enqueued, wait_value, gpu_vars, handled>>
        BY <2>4, <4>1 DEF BlockHostUntilDone
      <4>3. awaited'[t] <= order_event
        BY <4>2
      <4> QED BY <1>2, <4>2, <4>3
    <3> QED BY <3>1, <3>2
  <2>5. CASE DrainWait(t) \/ DrainReturn(t)
    BY <2>5 DEF DrainWait, DrainReturn
  <2> QED BY <1>5, <2>1, <2>2, <2>3, <2>4, <2>5
<1>6. ASSUME NEW t \in Threads,
             \/ Commit(t) \/ CommitAndWait(t) \/ CommitWithHostCompletion(t)
             \/ CommitLive(t)
      PROVE  SerialInv'
  <2> USE <1>0, <1>3 DEF Steps
  <2>1. CASE Commit(t)
    BY <2>1 DEF Commit
  <2>2. CASE CommitAndWait(t)
    BY <2>2 DEF CommitAndWait
  <2>3. CASE CommitWithHostCompletion(t)
    BY <2>3 DEF CommitWithHostCompletion
  <2>4. CASE CommitLive(t)
    BY <2>4 DEF CommitLive
  <2> QED BY <1>6, <2>1, <2>2, <2>3, <2>4
<1>7. ASSUME NEW t \in Threads, CommitAndContinue(t) PROVE SerialInv'
  BY <1>7 DEF CommitAndContinue
<1>8. CASE Schedule
  <2>1. scheduled + 1 \in Indices
    BY <1>0, <1>8 DEF Schedule, Indices
  <2>2. scheduled <= order_event
    BY <1>0, <1>8, <2>1 DEF Schedule, SerialInv
  <2>3. \A i \in Indices' : i \in Indices /\ (Finished(i)' <=> Finished(i))
    BY <1>8 DEF Schedule, Finished, Indices
  <2> QED BY <1>0, <1>8, <2>2, <2>3 DEF Schedule, SerialInv, Indices
<1>9. ASSUME NEW i \in 1..Len(queue), Complete(i) PROVE SerialInv'
  <2>1. /\ i \in Indices /\ ~Finished(i) /\ i <= scheduled
    BY <1>0, <1>1, <1>9 DEF Complete, Finished, Indices
  <2>2. i = order_event + 1 /\ scheduled = i
    BY <1>0, <2>1 DEF SerialInv
  <2>3. \A j \in Indices : queue[j].n = j
    BY DEF SerialInv
  <2>4. CASE queue[i].ending = "gpu"
    <3>1. order_event' = i /\ completed' = completed \cup {i} /\ handled' = handled
      BY <1>9, <2>1, <2>3, <2>4 DEF Complete
    <3>2. \A j \in Indices : Finished(j)' <=> Finished(j) \/ j = i
      BY <1>9, <2>1, <2>4, <3>1 DEF Complete, Finished
    <3>3. \A j \in Indices : Finished(j)' <=> j <= order_event'
      BY <1>0, <2>2, <3>1, <3>2 DEF SerialInv
    <3>4. \A u \in Threads : pc[u] = "drained" => awaited[u] <= order_event'
      BY <1>0, <2>2, <3>1 DEF SerialInv
    <3> QED BY <1>0, <1>9, <2>2, <3>1, <3>3, <3>4 DEF Complete, SerialInv, Indices
  <2>5. CASE queue[i].ending = "host"
    <3>1. order_event' = order_event /\ completed' = completed \cup {i} /\ handled' = handled
      BY <1>9, <2>5 DEF Complete
    <3>2. \A j \in Indices : Finished(j)' <=> Finished(j)
      BY <1>9, <2>1, <2>5, <3>1 DEF Complete, Finished
    <3> QED BY <1>0, <1>9, <3>1, <3>2 DEF Complete, SerialInv, Indices
  <2> QED BY <1>1, <2>1, <2>4, <2>5
<1>10. ASSUME NEW i \in 1..Len(queue), NoteCompletion(i) \/ BeginHostWork(i)
       PROVE  SerialInv'
  <2>1. \A j \in Indices : Finished(j)' <=> Finished(j)
    BY <1>10 DEF NoteCompletion, BeginHostWork, Finished, Indices
  <2>2. UNCHANGED <<lock_vars, thread_vars, gpu_vars>>
    BY <1>10 DEF NoteCompletion, BeginHostWork
  <2> QED BY <2>1, <2>2 DEF SerialInv, Indices
<1>11. ASSUME NEW i \in 1..Len(queue), EndHostWork(i) PROVE SerialInv'
  <2>1. /\ i \in Indices /\ i \in completed /\ i \notin handled
        /\ queue[i].ending = "host"
    BY <1>11 DEF EndHostWork, TypeOK, Indices
  <2>2. i = order_event + 1 /\ scheduled = i
    BY <1>0, <2>1 DEF SerialInv, Finished
  <2>3. order_event' = i /\ handled' = handled \cup {i} /\ completed' = completed
    BY <1>11, <2>1 DEF EndHostWork, SerialInv
  <2>4. \A j \in Indices : Finished(j)' <=> Finished(j) \/ j = i
    BY <1>11, <2>1, <2>3 DEF EndHostWork, Finished
  <2> QED BY <1>0, <1>11, <2>2, <2>3, <2>4 DEF EndHostWork, SerialInv, Indices
<1>12. CASE UNCHANGED vars
  BY <1>12 DEF vars, SerialInv, Finished, Indices
<1> QED
  BY <1>4, <1>5, <1>6, <1>7, <1>8, <1>9, <1>10, <1>11, <1>12
  DEF Next, Thread, Continue, Callback

\* Initially nothing is numbered, committed or begun.
LEMMA SerialInvInit == Init => CommitInv /\ SerialInv
<1> SUFFICES ASSUME Init PROVE CommitInv /\ SerialInv
  OBVIOUS
<1>1. Len(queue) = 0 /\ Indices = {}
  BY DEF Init, Indices
<1> QED
  BY <1>1, ThreadsAssumption
  DEF Init, CommitInv, SerialInv, CommitOrder, HoldingSteps, OpenSteps

\* Everything a begun buffer follows has finished, because the event has
\* counted it.
LEMMA SerialInvImplies ==
  ASSUME TypeOK, SerialInv
  PROVE  SerialExecution /\ DrainedIsDone
<1>1. /\ scheduled \in Nat /\ order_event \in Nat /\ Len(queue) \in Nat
      /\ awaited \in [Threads -> Nat]
      /\ \A i \in Indices : i \in Nat /\ queue[i].n = i
  BY QueueEntries DEF TypeOK, SerialInv
<1>2. SerialExecution
  BY <1>1 DEF SerialExecution, SerialInv
<1>3. DrainedIsDone
  BY <1>1 DEF DrainedIsDone, SerialInv
<1> QED BY <1>2, <1>3

\* The invariants hold together along every behaviour without splits.
THEOREM SerialInvHolds ==
  ASSUME ~MpsSplits
  PROVE  Spec => [](CommitInv /\ SerialInv)
<1>1. Init => CommitInv /\ SerialInv
  BY SerialInvInit
<1>2. TypeOK /\ TypeOK' /\ CommitInv /\ SerialInv /\ [Next]_vars
        => (CommitInv /\ SerialInv)'
  BY CommitInvStep, SerialInvStep
<1> QED BY <1>1, <1>2, TypeCorrect, PTL DEF Spec

\* The ordering contract of metal_stream.h, for graphs that are not split: no
\* buffer begins while an earlier one still has work to do.
THEOREM SerialExecutionHolds ==
  ASSUME ~MpsSplits
  PROVE  Spec => []SerialExecution
<1>1. TypeOK /\ CommitInv /\ SerialInv => SerialExecution
  BY SerialInvImplies
<1> QED BY <1>1, TypeCorrect, SerialInvHolds, PTL

\* A host that comes out of the wait of BlockHostUntilDone finds everything it
\* waited for in memory.
THEOREM DrainedIsDoneHolds ==
  ASSUME ~MpsSplits
  PROVE  Spec => []DrainedIsDone
<1>1. TypeOK /\ CommitInv /\ SerialInv => DrainedIsDone
  BY SerialInvImplies
<1> QED BY <1>1, TypeCorrect, SerialInvHolds, PTL

-----------------------------------------------------------------------------
\* Every step of the stream is a step of the strictly ordered queue, or none.
LEMMA OrderStep ==
  ASSUME TypeOK, SerialInv, CommitInv, ~MpsSplits, [Next]_vars
  PROVE  [Order!Next]_(Order!order_vars)
<1> USE DEF lock_vars, thread_vars, gpu_vars, hand_vars, Order!Next,
            Order!order_vars
<1>0. /\ scheduled \in Nat /\ order_event \in Nat /\ Len(queue) \in Nat
      /\ scheduled <= Len(queue) /\ queue \in Seq(CommandBuffers)
      /\ signal_value \in [Threads -> Nat] /\ wait_value \in [Threads -> Nat]
      /\ completed \subseteq 1..scheduled /\ handled \subseteq completed
  BY QueueEntries DEF TypeOK
<1>1. ASSUME NEW t \in Threads, NEW e \in Endings,
             queue' = Append(queue, Committed(t, e)),
             UNCHANGED <<scheduled, order_event>>
      PROVE  Order!Enqueue
  BY <1>0, <1>1, AppendBuffer DEF Order!Enqueue
<1>2. ASSUME NEW t \in Threads, Thread(t)
      PROVE  [Order!Next]_(Order!order_vars)
  <2>1. CASE \/ Commit(t) \/ CommitAndWait(t) \/ CommitWithHostCompletion(t)
             \/ CommitAndContinue(t) \/ CommitLive(t)
    BY <1>1, <2>1
    DEF Commit, CommitAndWait, CommitWithHostCompletion, CommitAndContinue,
        CommitLive, Endings
  <2>2. CASE \/ LockSubmit(t) \/ Reserve(t) \/ TakeBuffer(t) \/ GiveBack(t)
             \/ ReleaseForExternalCommit(t) \/ WaitForStream(t)
             \/ ReturnFromRunGraph(t) \/ WaitUntilCompleted(t)
             \/ BlockHostUntilDone(t) \/ DrainWait(t) \/ DrainReturn(t)
    BY <2>2
    DEF LockSubmit, Reserve, TakeBuffer, GiveBack, ReleaseForExternalCommit,
        WaitForStream, ReturnFromRunGraph, WaitUntilCompleted,
        BlockHostUntilDone, DrainWait, DrainReturn
  <2> QED BY <1>2, <2>1, <2>2 DEF Thread, Continue
<1>3. CASE Schedule
  <2>1. scheduled + 1 \in Indices /\ queue[scheduled + 1].wait + 1 = scheduled + 1
    BY <1>0, <1>3 DEF Schedule, SerialInv, Indices
  <2>2. queue[scheduled + 1].wait \in Nat
    BY <2>1, QueueEntries
  <2>3. scheduled = order_event
    BY <1>0, <1>3, <2>1, <2>2 DEF Schedule, SerialInv
  <2> QED BY <1>3, <2>3 DEF Schedule, Order!Begin
\* The signal of the one unfinished buffer finishes it.
<1>4. ASSUME NEW i \in Indices, i <= scheduled, ~Finished(i),
             order_event' = queue[i].n, UNCHANGED <<queue, scheduled>>
      PROVE  Order!Finish
  BY <1>0, <1>4 DEF SerialInv, Order!Finish, Indices
<1>5. ASSUME NEW i \in 1..Len(queue), Complete(i) \/ Callback(i)
      PROVE  [Order!Next]_(Order!order_vars)
  <2>1. CASE Complete(i)
    <3>1. CASE queue[i].ending = "gpu"
      BY <1>0, <1>4, <2>1, <3>1 DEF Complete, Finished, Indices
    <3>2. CASE queue[i].ending # "gpu"
      BY <2>1, <3>2 DEF Complete
    <3> QED BY <3>1, <3>2
  <2>2. CASE EndHostWork(i)
    <3>1. /\ i \in completed /\ i \notin handled /\ queue[i].ending = "host"
      BY <2>2 DEF EndHostWork, TypeOK
    <3> QED BY <1>0, <1>4, <2>2, <3>1 DEF EndHostWork, Finished, Indices
  <2>3. CASE NoteCompletion(i) \/ BeginHostWork(i)
    BY <2>3 DEF NoteCompletion, BeginHostWork
  <2> QED BY <1>5, <2>1, <2>2, <2>3 DEF Callback
<1>6. CASE UNCHANGED vars
  BY <1>6 DEF vars
<1> QED BY <1>2, <1>3, <1>5, <1>6 DEF Next

\* An unsplit stream implements the strictly ordered queue, its safety part.
THEOREM OrderRefinement ==
  ASSUME ~MpsSplits
  PROVE  Spec => Order!Safety
<1>1. Init => Order!Init
  BY DEF Init, Order!Init
<1>2. TypeOK /\ CommitInv /\ SerialInv /\ [Next]_vars
        => [Order!Next]_(Order!order_vars)
  BY OrderStep
<1> QED BY <1>1, <1>2, TypeCorrect, SerialInvHolds, PTL DEF Spec, Order!Safety

\* The event moves only where an operation of the ordered queue finishes.
LEMMA EventStep ==
  ASSUME TypeOK, SerialInv, CommitInv, ~MpsSplits, [Next]_vars
  PROVE  order_event' \in {order_event, order_event + 1}
<1>1. [Order!Next]_(Order!order_vars)
  BY OrderStep
<1>2. order_event \in Nat /\ scheduled \in Nat /\ scheduled <= order_event + 1
  BY DEF TypeOK, SerialInv
<1> QED BY <1>1, <1>2 DEF Order!Next, Order!order_vars, Order!Enqueue,
                         Order!Begin, Order!Finish

\* In synchronous mode a thread in RunGraph waits for its own number, which the
\* event has reached when it returns.
LEMMA SyncInvStep ==
  ASSUME TypeOK, TypeOK', SerialInv, CommitInv, SyncInv, ~MpsSplits, [Next]_vars
  PROVE  SyncInv'
<1> USE DEF lock_vars, thread_vars, gpu_vars, hand_vars, Goto, ForgetLocals
<1> SUFFICES ASSUME Synchronous PROVE SyncInv'
  BY DEF SyncInv
<1>0. /\ pc \in [Threads -> Steps] /\ signal_value \in [Threads -> Nat]
      /\ awaited \in [Threads -> Nat] /\ order_event \in Nat /\ order_event' \in Nat
      /\ order_event' >= order_event
  BY SMTT(30), EventStep DEF TypeOK
<1>1. ASSUME UNCHANGED thread_vars PROVE SyncInv'
  BY <1>0, <1>1 DEF SyncInv
<1>2. ASSUME NEW t \in Threads,
             \A u \in Threads \ {t} :
               /\ pc'[u] = pc[u] /\ awaited'[u] = awaited[u]
               /\ signal_value'[u] = signal_value[u],
             pc'[t] = "syncing" => awaited'[t] = signal_value'[t],
             pc'[t] = "returning" => signal_value'[t] <= order_event'
      PROVE  SyncInv'
  <2> SUFFICES ASSUME NEW u \in Threads
               PROVE  /\ pc'[u] = "syncing" => awaited'[u] = signal_value'[u]
                      /\ pc'[u] = "returning" => signal_value'[u] <= order_event'
    BY DEF SyncInv
  <2>1. CASE u = t
    BY <1>2, <2>1
  <2>2. CASE u # t
    <3>1. /\ pc'[u] = pc[u] /\ awaited'[u] = awaited[u]
          /\ signal_value'[u] = signal_value[u] /\ signal_value[u] \in Nat
      BY <1>0, <1>2, <2>2
    <3> QED BY <1>0, <3>1 DEF SyncInv
  <2> QED BY <2>1, <2>2
<1>3. ASSUME NEW t \in Threads, Thread(t) PROVE SyncInv'
  <2>1. CASE CommitLive(t)
    <3>1. signal_value[t] = last_enqueued
      BY <2>1 DEF CommitLive, CommitInv, OpenSteps
    <3> QED BY <1>0, <1>2, <2>1, <3>1 DEF CommitLive
  <2>2. CASE WaitForStream(t)
    <3>1. signal_value[t] <= order_event
      BY <1>0, <2>2 DEF WaitForStream, SyncInv
    <3>2. /\ \A u \in Threads \ {t} : pc'[u] = pc[u] /\ awaited'[u] = awaited[u]
          /\ pc'[t] = "returning"
          /\ UNCHANGED <<signal_value, order_event>>
      BY <1>0, <2>2 DEF WaitForStream
    <3> QED BY <1>2, <3>1, <3>2
  <2>3. CASE \/ LockSubmit(t) \/ Reserve(t) \/ TakeBuffer(t) \/ GiveBack(t)
             \/ ReleaseForExternalCommit(t) \/ CommitAndContinue(t)
    BY <1>0, <1>2, <2>3
    DEF LockSubmit, Reserve, TakeBuffer, GiveBack, ReleaseForExternalCommit,
        CommitAndContinue
  <2>4. CASE \/ Commit(t) \/ CommitAndWait(t) \/ CommitWithHostCompletion(t)
             \/ ReturnFromRunGraph(t)
    BY <1>0, <1>2, <2>4
    DEF Commit, CommitAndWait, CommitWithHostCompletion, ReturnFromRunGraph
  <2>5. CASE \/ WaitUntilCompleted(t) \/ BlockHostUntilDone(t)
             \/ DrainWait(t) \/ DrainReturn(t)
    BY <1>0, <1>2, <2>5
    DEF WaitUntilCompleted, BlockHostUntilDone, DrainWait, DrainReturn
  <2> QED BY <1>3, <2>1, <2>2, <2>3, <2>4, <2>5 DEF Thread, Continue
<1>4. CASE Schedule
  BY <1>1, <1>4 DEF Schedule
<1>5. ASSUME NEW i \in 1..Len(queue), Complete(i) \/ Callback(i) PROVE SyncInv'
  BY <1>1, <1>5
  DEF Complete, Callback, NoteCompletion, BeginHostWork, EndHostWork
<1>6. CASE UNCHANGED vars
  BY <1>1, <1>6 DEF vars
<1> QED BY <1>3, <1>4, <1>5, <1>6 DEF Next

\* In synchronous mode RunGraph returns only once its buffers, and all before
\* them, have finished, when no graph is split.
THEOREM SynchronousGraphIsDoneHolds ==
  ASSUME ~MpsSplits
  PROVE  Spec => []SynchronousGraphIsDone
<1>1. Init => SyncInv
  BY DEF Init, SyncInv
<1>2. TypeOK /\ TypeOK' /\ CommitInv /\ SerialInv /\ SyncInv /\ [Next]_vars
        => SyncInv'
  BY SyncInvStep
<1>3. TypeOK /\ SerialInv /\ SyncInv => SynchronousGraphIsDone
  <2> SUFFICES ASSUME TypeOK, SerialInv, SyncInv, Synchronous,
                      NEW t \in Threads, pc[t] = "returning",
                      NEW i \in Indices, queue[i].n <= signal_value[t]
               PROVE  Finished(i)
    BY DEF SynchronousGraphIsDone
  <2>1. /\ i \in Nat /\ queue[i].n = i /\ order_event \in Nat
        /\ signal_value[t] \in Nat /\ signal_value[t] <= order_event
    BY QueueEntries DEF TypeOK, SerialInv, SyncInv
  <2> QED BY <2>1 DEF SerialInv
<1> QED BY <1>1, <1>2, <1>3, TypeCorrect, SerialInvHolds, PTL DEF Spec

-----------------------------------------------------------------------------
(***************************************************************************)
(* Graphs that MPSGraph splits                                             *)
(***************************************************************************)

\* What of the types the proofs below need.
LEMMA SplitTypes ==
  ASSUME TypeOK
  PROVE  /\ pc \in [Threads -> Steps] /\ signal_value \in [Threads -> Nat]
         /\ wait_value \in [Threads -> Nat]
         /\ last_enqueued \in Nat /\ order_event \in Nat /\ scheduled \in Nat
         /\ queue \in Seq(CommandBuffers) /\ Len(queue) \in Nat
         /\ scheduled <= Len(queue)
         /\ completed \subseteq 1..scheduled /\ handled \subseteq completed
         /\ \A i \in Indices : /\ i \in Nat /\ queue[i].n \in Nat /\ queue[i].wait \in Nat
                               /\ queue[i].ending \in Endings
  BY QueueEntries DEF TypeOK

\* Steps that touch neither the queue, the buffers' progress nor the event.
LEMMA QueueRests ==
  ASSUME UNCHANGED <<queue, scheduled, completed, handled, order_event>>
  PROVE  /\ OneSignalEach => OneSignalEach'
         /\ CountedInv => CountedInv'
  BY DEF OneSignalEach, CountedInv, Signals, Finished, Indices

\* A step of a thread that opens no buffer and commits none.
LEMMA SplitThreadStep ==
  ASSUME TypeOK, SplitInv, NEW t \in Threads,
         UNCHANGED <<queue, scheduled, completed, handled, order_event, last_enqueued>>,
         \A u \in Threads \ {t} : pc'[u] = pc[u] /\ wait_value'[u] = wait_value[u],
         pc'[t] \in OpenSteps => /\ pc[t] \in OpenSteps \ {"continued"}
                                 /\ pc'[t] # "continued"
                                 /\ wait_value'[t] = wait_value[t]
  PROVE  SplitInv'
<1>1. OneSignalEach' /\ CountedInv'
  BY QueueRests DEF SplitInv
<1>2. order_event' <= last_enqueued'
  BY DEF SplitInv, OpenInv
<1>3. ASSUME NEW u \in Threads, pc'[u] \in OpenSteps
      PROVE  /\ order_event' < last_enqueued'
             /\ \A i \in Indices' : Signals(i)' => queue'[i].n < last_enqueued'
             /\ IF pc'[u] = "continued"
                  THEN queue' # << >> /\ queue'[Len(queue')].n = last_enqueued'
                  ELSE wait_value'[u] + 1 = last_enqueued'
  <2>1. pc[u] \in OpenSteps /\ (pc'[u] = "continued" <=> pc[u] = "continued")
        /\ wait_value'[u] = wait_value[u]
    BY <1>3
  <2> QED BY <2>1 DEF SplitInv, OpenInv, Signals, Indices
<1> QED BY <1>1, <1>2, <1>3 DEF SplitInv, OpenInv

\* A buffer is committed: it signals a number the event has not reached and no
\* other buffer signals, or it is continued and signals none.
LEMMA SplitCommit ==
  ASSUME TypeOK, CommitInv, SplitInv, NEW t \in Threads, NEW e \in Endings,
         pc[t] \in {"encoding", "external", "continued"},
         queue' = Append(queue, Committed(t, e)),
         UNCHANGED <<last_enqueued, scheduled, completed, order_event, handled>>,
         \A u \in Threads \ {t} : pc'[u] = pc[u],
         IF e = "continued" THEN pc[t] = "external" /\ pc'[t] = "continued"
                            ELSE pc'[t] \notin OpenSteps
  PROVE  SplitInv'
<1>0. PICK last : last = Len(queue) + 1
  OBVIOUS
<1>1. /\ signal_value[t] = last_enqueued
      /\ \A u \in Threads \ {t} : pc[u] \notin OpenSteps
      /\ pc[t] \in OpenSteps
  BY DEF CommitInv, HoldingSteps, OpenSteps
<1>2. /\ Len(queue') = last /\ last \in Nat /\ Len(queue) \in Nat
      /\ \A i \in Indices : queue'[i] = queue[i] /\ i \in Indices' /\ i < last
      /\ queue'[last].n = last_enqueued
      /\ queue'[last].wait = wait_value[t]
      /\ queue'[last].ending = e
      /\ \A i \in Indices' : i \in Nat /\ (i \in Indices \/ i = last)
      /\ last \in Indices' /\ last \notin Indices
  <2>1. /\ Len(queue) \in Nat
        /\ Len(queue') = Len(queue) + 1
        /\ \A i \in 1..Len(queue) : queue'[i] = queue[i]
        /\ queue'[Len(queue) + 1].n = signal_value[t]
        /\ queue'[Len(queue) + 1].wait = wait_value[t]
        /\ queue'[Len(queue) + 1].ending = e
        /\ \A i \in 1..Len(queue') : i \in 1..Len(queue) \/ i = Len(queue) + 1
    BY SplitTypes, AppendBuffer
  <2> QED BY <1>0, <1>1, <2>1 DEF Indices
<1>3. /\ \A i \in Indices : (Signals(i)' <=> Signals(i)) /\ (Finished(i)' <=> Finished(i))
      /\ Signals(last)' <=> e # "continued"
      /\ ~Finished(last)'
  <2>1. last \notin completed /\ last \notin handled
    BY <1>2, SplitTypes DEF Indices
  <2> QED BY <1>2, <2>1 DEF Signals, Finished
<1>4. \A i \in Indices : Signals(i) => queue[i].n < last_enqueued
  BY <1>1 DEF SplitInv, OpenInv
<1>5. OneSignalEach'
  <2> SUFFICES ASSUME NEW i \in Indices', NEW j \in Indices', i < j,
                      Signals(i)', Signals(j)'
               PROVE  queue'[i].n < queue'[j].n
    BY DEF OneSignalEach
  <2>1. i \in Indices
    BY <1>2, SplitTypes DEF Indices
  <2>2. CASE j \in Indices
    BY <1>2, <1>3, <2>1, <2>2 DEF SplitInv, OneSignalEach
  <2>3. CASE j = last
    BY <1>2, <1>3, <1>4, <2>1, <2>3
  <2> QED BY <1>2, <2>2, <2>3
<1>6. ASSUME NEW i \in Indices'
      PROVE  /\ queue'[i].wait + 1 = queue'[i].n \/ (i > 1 /\ queue'[i - 1].n = queue'[i].n)
             /\ i <= scheduled' => queue'[i].n <= order_event' + 1
             /\ Signals(i)' => (Finished(i)' <=> queue'[i].n <= order_event')
  <2>1. CASE i \in Indices
    <3>1. queue'[i] = queue[i] /\ (i > 1 => queue'[i - 1] = queue[i - 1])
      BY <1>2, <2>1 DEF Indices
    <3> QED BY <1>3, <2>1, <3>1 DEF SplitInv, CountedInv
  <2>2. CASE i = last
    <3>1. ~(i <= scheduled')
      BY <1>2, <2>2, SplitTypes
    <3>2. ~(queue'[i].n <= order_event')
      BY <1>1, <1>2, <2>2, SplitTypes DEF SplitInv, OpenInv
    <3>3. queue'[i].wait + 1 = queue'[i].n \/ (i > 1 /\ queue'[i - 1].n = queue'[i].n)
      <4>1. CASE pc[t] # "continued"
        BY <1>1, <1>2, <2>2, <4>1 DEF SplitInv, OpenInv
      <4>2. CASE pc[t] = "continued"
        <5>1. queue # << >> /\ queue[Len(queue)].n = last_enqueued
          BY <1>1, <4>2 DEF SplitInv, OpenInv
        <5>2. Len(queue) > 0
          BY <5>1, SplitTypes
        <5>3. Len(queue) \in Indices /\ i - 1 = Len(queue) /\ i > 1
          BY <1>0, <1>2, <2>2, <5>2 DEF Indices
        <5> QED BY <1>2, <2>2, <5>1, <5>3
      <4> QED BY <4>1, <4>2
    <3> QED BY <1>3, <2>2, <3>1, <3>2, <3>3
  <2> QED BY <1>2, <2>1, <2>2
<1>7. CountedInv'
  BY <1>6 DEF CountedInv
<1>8. OpenInv'
  <2>1. \A u \in Threads : pc'[u] \in OpenSteps =>
          u = t /\ e = "continued" /\ pc'[u] = "continued"
    BY <1>1
  <2>2. queue' # << >> /\ queue'[Len(queue')].n = last_enqueued
    BY <1>2
  <2>3. e = "continued" => \A i \in Indices' : Signals(i)' => queue'[i].n < last_enqueued
    BY <1>2, <1>3, <1>4
  <2> QED BY <1>1, <2>1, <2>2, <2>3 DEF SplitInv, OpenInv
<1> QED BY <1>5, <1>7, <1>8 DEF SplitInv

\* The one buffer that can signal next is that of the number after the event's;
\* its signal counts it.
LEMMA SplitSignal ==
  ASSUME TypeOK, CommitInv, SplitInv, NEW i \in Indices, i <= scheduled,
         Signals(i), ~Finished(i), order_event' = queue[i].n,
         UNCHANGED <<lock_vars, thread_vars, queue, scheduled>>,
         \A j \in Indices : Signals(j) => (Finished(j)' <=> Finished(j) \/ j = i)
  PROVE  SplitInv' /\ order_event' = order_event + 1
<1> USE DEF lock_vars, thread_vars
<1>1. order_event' = order_event + 1
  BY SplitTypes DEF SplitInv, CountedInv
<1>2. OneSignalEach'
  BY DEF SplitInv, OneSignalEach, Signals, Indices
<1>3. \A j \in Indices : Signals(j) /\ j # i => queue[j].n # queue[i].n
  <2> SUFFICES ASSUME NEW j \in Indices, Signals(j), j # i
               PROVE  queue[j].n # queue[i].n
    OBVIOUS
  <2>1. j < i \/ i < j
    BY SplitTypes
  <2> QED BY <2>1, SplitTypes DEF SplitInv, OneSignalEach
<1>4. CountedInv'
  <2> SUFFICES ASSUME NEW j \in Indices
               PROVE  /\ \/ queue[j].wait + 1 = queue[j].n
                         \/ j > 1 /\ queue[j - 1].n = queue[j].n
                      /\ j <= scheduled => queue[j].n <= order_event' + 1
                      /\ Signals(j) => (Finished(j)' <=> queue[j].n <= order_event')
    BY DEF CountedInv, Signals, Indices
  <2>1. /\ \/ queue[j].wait + 1 = queue[j].n
           \/ j > 1 /\ queue[j - 1].n = queue[j].n
        /\ j <= scheduled => queue[j].n <= order_event + 1
        /\ Signals(j) => (Finished(j) <=> queue[j].n <= order_event)
        /\ queue[j].n \in Nat /\ order_event \in Nat
    BY SplitTypes DEF SplitInv, CountedInv
  <2> QED BY <1>1, <1>3, <2>1
<1>5. queue[i].n <= last_enqueued /\ queue' = queue
  BY DEF CommitInv
<1>6. OpenInv'
  BY <1>5 DEF SplitInv, OpenInv, Signals, Indices
<1> QED BY <1>1, <1>2, <1>4, <1>6 DEF SplitInv

\* Every step keeps the invariant, and moves the event by one or not at all.
LEMMA SplitInvStep ==
  ASSUME TypeOK, CommitInv, SplitInv, [Next]_vars
  PROVE  SplitInv' /\ order_event' \in {order_event, order_event + 1}
<1> USE DEF lock_vars, thread_vars, gpu_vars, hand_vars, Goto, ForgetLocals
<1>1. ASSUME NEW t \in Threads,
             \/ LockSubmit(t) \/ TakeBuffer(t) \/ ReleaseForExternalCommit(t)
             \/ WaitForStream(t) \/ ReturnFromRunGraph(t) \/ WaitUntilCompleted(t)
             \/ BlockHostUntilDone(t) \/ DrainWait(t) \/ DrainReturn(t)
      PROVE  SplitInv' /\ order_event' = order_event
  <2>1. /\ UNCHANGED <<queue, scheduled, completed, handled, order_event, last_enqueued>>
        /\ \A u \in Threads \ {t} : pc'[u] = pc[u] /\ wait_value'[u] = wait_value[u]
        /\ pc'[t] \in OpenSteps => /\ pc[t] \in OpenSteps \ {"continued"}
                                   /\ pc'[t] # "continued"
                                   /\ wait_value'[t] = wait_value[t]
    BY <1>1, SplitTypes
    DEF LockSubmit, TakeBuffer, ReleaseForExternalCommit, WaitForStream,
        ReturnFromRunGraph, WaitUntilCompleted, BlockHostUntilDone, DrainWait,
        DrainReturn, OpenSteps
  <2> QED BY <2>1, SplitThreadStep
<1>2. ASSUME NEW t \in Threads, Reserve(t) PROVE SplitInv' /\ order_event' = order_event
  <2>1. /\ submit = t
        /\ \A u \in Threads \ {t} : pc[u] \notin OpenSteps /\ pc'[u] = pc[u]
        /\ pc'[t] = "reserved"
        /\ wait_value'[t] = last_enqueued /\ last_enqueued' = last_enqueued + 1
        /\ UNCHANGED <<queue, scheduled, completed, handled, order_event>>
    BY <1>2, SplitTypes DEF Reserve, CommitInv, HoldingSteps, OpenSteps
  <2>2. OneSignalEach' /\ CountedInv'
    BY <2>1, QueueRests DEF SplitInv
  <2>3. \A i \in Indices : queue[i].n <= last_enqueued
    BY DEF CommitInv
  <2>4. \A i \in Indices : queue[i].n < last_enqueued'
    BY <2>1, <2>3, SplitTypes
  <2>5. order_event' < last_enqueued'
    BY <2>1, SplitTypes DEF SplitInv, OpenInv
  <2>6. OpenInv'
    BY <2>1, <2>4, <2>5, SplitTypes DEF OpenInv, Indices
  <2> QED BY <2>1, <2>2, <2>6 DEF SplitInv
<1>3. ASSUME NEW t \in Threads, GiveBack(t) PROVE SplitInv' /\ order_event' = order_event
  <2>1. /\ \A u \in Threads : pc'[u] \notin OpenSteps
        /\ pc[t] \in OpenSteps
        /\ UNCHANGED <<queue, scheduled, completed, handled, order_event>>
    BY <1>3, SplitTypes DEF GiveBack, CommitInv, HoldingSteps, OpenSteps
  <2>2. last_enqueued' + 1 = last_enqueued /\ last_enqueued' \in Nat
    BY <1>3, SplitTypes DEF GiveBack, CommitInv, OpenSteps
  <2>3. OneSignalEach' /\ CountedInv'
    BY <2>1, QueueRests DEF SplitInv
  <2>4. order_event' <= last_enqueued'
    BY <2>1, <2>2, SplitTypes DEF SplitInv, OpenInv
  <2> QED BY <2>1, <2>3, <2>4 DEF SplitInv, OpenInv
<1>4. ASSUME NEW t \in Threads,
             \/ Commit(t) \/ CommitAndWait(t) \/ CommitWithHostCompletion(t)
             \/ CommitAndContinue(t) \/ CommitLive(t)
      PROVE  SplitInv' /\ order_event' = order_event
  <2> USE SplitTypes DEF Endings, OpenSteps
  <2>1. CASE Commit(t)
    BY <2>1, SplitCommit DEF Commit
  <2>2. CASE CommitAndWait(t)
    BY <2>2, SplitCommit DEF CommitAndWait
  <2>3. CASE CommitWithHostCompletion(t)
    BY <2>3, SplitCommit DEF CommitWithHostCompletion
  <2>4. CASE CommitAndContinue(t)
    BY <2>4, SplitCommit DEF CommitAndContinue
  <2>5. CASE CommitLive(t)
    BY <2>5, SplitCommit DEF CommitLive
  <2> QED BY <1>4, <2>1, <2>2, <2>3, <2>4, <2>5
<1>5. CASE Schedule
  <2> DEFINE i == scheduled + 1
  <2>1. /\ scheduled' = i /\ i \in Indices /\ order_event >= queue[i].wait
        /\ UNCHANGED <<lock_vars, thread_vars, queue, completed, handled, order_event>>
    BY <1>5, SplitTypes DEF Schedule, Indices
  <2>2. queue[i].n <= order_event + 1
    <3>1. CASE queue[i].wait + 1 = queue[i].n
      BY <2>1, <3>1, SplitTypes
    <3>2. CASE i > 1 /\ queue[i - 1].n = queue[i].n
      <4>1. i - 1 = scheduled /\ scheduled \in Indices
        BY <2>1, <3>2, SplitTypes DEF Indices
      <4> QED BY <3>2, <4>1, SplitTypes DEF SplitInv, CountedInv
    <3> QED BY <2>1, <3>1, <3>2 DEF SplitInv, CountedInv
  <2>3. \A j \in Indices : j <= scheduled' => j <= scheduled \/ j = i
    BY <2>1, SplitTypes
  <2>4. \A j \in Indices : (Signals(j)' <=> Signals(j)) /\ (Finished(j)' <=> Finished(j))
    BY <2>1 DEF Signals, Finished
  <2> HIDE DEF i
  <2>5. CountedInv'
    BY <2>1, <2>2, <2>3, <2>4 DEF SplitInv, CountedInv, Indices
  <2>6. OneSignalEach' /\ OpenInv'
    BY <2>1 DEF SplitInv, OneSignalEach, OpenInv, Signals, Indices
  <2> QED BY <2>1, <2>5, <2>6 DEF SplitInv
\* What ends or is handled without a signal changes nothing that counts.
<1>6. ASSUME UNCHANGED <<lock_vars, thread_vars, queue, scheduled, order_event>>,
             \A j \in Indices : Signals(j) => (Finished(j)' <=> Finished(j))
      PROVE  SplitInv' /\ order_event' = order_event
  <2>1. CountedInv'
    BY <1>6 DEF SplitInv, CountedInv, Signals, Indices
  <2>2. OneSignalEach' /\ OpenInv'
    BY <1>6 DEF SplitInv, OneSignalEach, OpenInv, Signals, Indices
  <2> QED BY <1>6, <2>1, <2>2 DEF SplitInv
<1>7. ASSUME NEW i \in 1..Len(queue), Complete(i)
      PROVE  SplitInv' /\ order_event' \in {order_event, order_event + 1}
  <2>1. /\ i \in Indices /\ i <= scheduled /\ i \notin completed
        /\ completed' = completed \cup {i}
        /\ UNCHANGED <<lock_vars, thread_vars, queue, scheduled, handled>>
    BY <1>7, SplitTypes DEF Complete, Indices
  <2>2. CASE queue[i].ending = "gpu"
    <3>1. /\ Signals(i) /\ ~Finished(i) /\ order_event' = queue[i].n
          /\ \A j \in Indices : Signals(j) => (Finished(j)' <=> Finished(j) \/ j = i)
      BY <1>7, <2>1, <2>2 DEF Complete, Signals, Finished
    <3> QED BY <2>1, <3>1, SplitSignal
  <2>3. CASE queue[i].ending # "gpu"
    <3>1. /\ order_event' = order_event
          /\ \A j \in Indices : Signals(j) => (Finished(j)' <=> Finished(j))
      <4>1. Signals(i) => queue[i].ending = "host"
        BY <2>1, <2>3, SplitTypes DEF Signals, Endings
      <4> QED BY <1>7, <2>1, <2>3, <4>1 DEF Complete, Finished
    <3> QED BY <1>6, <2>1, <3>1
  <2> QED BY <2>2, <2>3
<1>8. ASSUME NEW i \in 1..Len(queue), NoteCompletion(i) \/ BeginHostWork(i)
      PROVE  SplitInv' /\ order_event' = order_event
  <2>1. \A j \in Indices : Finished(j)' <=> Finished(j)
    BY <1>8 DEF NoteCompletion, BeginHostWork, Finished
  <2> QED BY <1>6, <1>8, <2>1 DEF NoteCompletion, BeginHostWork
<1>9. ASSUME NEW i \in 1..Len(queue), EndHostWork(i)
      PROVE  SplitInv' /\ order_event' \in {order_event, order_event + 1}
  <2>1. /\ i \in Indices /\ i \in completed /\ i \notin handled
        /\ queue[i].ending = "host" /\ i <= scheduled
        /\ handled' = handled \cup {i} /\ order_event' = queue[i].n
        /\ UNCHANGED <<lock_vars, thread_vars, queue, scheduled, completed>>
    BY <1>9, SplitTypes DEF EndHostWork, TypeOK, Indices
  <2>2. /\ Signals(i) /\ ~Finished(i)
        /\ \A j \in Indices : Signals(j) => (Finished(j)' <=> Finished(j) \/ j = i)
    BY <2>1 DEF Signals, Finished
  <2> QED BY <2>1, <2>2, SplitSignal
<1>10. CASE UNCHANGED vars
  BY <1>6, <1>10 DEF vars, Finished
<1> QED
  BY <1>1, <1>2, <1>3, <1>4, <1>5, <1>7, <1>8, <1>9, <1>10
  DEF Next, Thread, Continue, Callback

\* The event's count and the numbers of the queue agree, split or not.
THEOREM SplitInvHolds == Spec => [](CommitInv /\ SplitInv)
<1>1. Init => CommitInv /\ SplitInv
  <2> SUFFICES ASSUME Init PROVE SplitInv
    BY SerialInvInit
  <2>1. Indices = {} /\ order_event = 0 /\ last_enqueued = 0
    BY DEF Init, Indices
  <2>2. \A t \in Threads : pc[t] \notin OpenSteps
    BY DEF Init, OpenSteps
  <2> QED BY <2>1, <2>2 DEF SplitInv, OneSignalEach, CountedInv, OpenInv
<1>2. TypeOK /\ TypeOK' /\ CommitInv /\ SplitInv /\ [Next]_vars => (CommitInv /\ SplitInv)'
  BY CommitInvStep, SplitInvStep
<1> QED BY <1>1, <1>2, TypeCorrect, PTL DEF Spec

\* The event skips no number and takes none back, whoever sets it: the GPU, a
\* completion handler, with graphs split or not and numbers given back.
THEOREM SignalsInOrderHolds == Spec => SignalsInOrder
<1>1. TypeOK /\ CommitInv /\ SplitInv /\ [Next]_vars
        => [order_event' \in {order_event, order_event + 1}]_vars
  BY SplitInvStep
<1> QED BY <1>1, TypeCorrect, SplitInvHolds, PTL DEF Spec, SignalsInOrder

-----------------------------------------------------------------------------
(***************************************************************************)
(* Nobody waits for ever                                                   *)
(***************************************************************************)

\* A step of a thread that opens no buffer, commits none and begins no wait but
\* a drain's.
LEMMA OwedThreadStep ==
  ASSUME OwedInv, NEW t \in Threads, UNCHANGED <<queue, last_enqueued>>,
         \A u \in Threads \ {t} :
           pc'[u] = pc[u] /\ wait_value'[u] = wait_value[u] /\ awaited'[u] = awaited[u],
         pc'[t] \in OpenSteps <=> pc[t] \in OpenSteps,
         pc[t] \in OpenSteps => wait_value'[t] = wait_value[t],
         pc'[t] \notin {"syncing", "completing"}
  PROVE  OwedInv'
<1>1. \A u \in Threads : pc'[u] \in OpenSteps =>
        pc[u] \in OpenSteps /\ wait_value'[u] = wait_value[u]
  OBVIOUS
<1>2. \A u \in Threads : pc[u] \in OpenSteps => pc'[u] \in OpenSteps
  OBVIOUS
<1>3. \A u \in Threads : pc'[u] \in {"syncing", "completing"} =>
        pc'[u] = pc[u] /\ awaited'[u] = awaited[u]
  OBVIOUS
<1> QED BY <1>1, <1>2, <1>3 DEF OwedInv, Signals, Indices

\* A buffer is committed: it signals the open number, or leaves it open.
LEMMA OwedCommit ==
  ASSUME TypeOK, CommitInv, OwedInv, NEW t \in Threads, NEW e \in Endings,
         pc[t] \in {"encoding", "external", "continued"},
         queue' = Append(queue, Committed(t, e)),
         UNCHANGED last_enqueued,
         \A u \in Threads \ {t} : pc'[u] = pc[u] /\ awaited'[u] = awaited[u],
         IF e = "continued" THEN pc'[t] = "continued" /\ wait_value'[t] = 0
                            ELSE pc'[t] \notin OpenSteps,
         pc'[t] = "syncing" => awaited'[t] = last_enqueued,
         pc'[t] = "completing" => e = "gpu" /\ awaited'[t] = Len(queue) + 1
  PROVE  OwedInv'
<1>0. PICK last : last = Len(queue) + 1
  OBVIOUS
<1>1. /\ signal_value[t] = last_enqueued
      /\ \A u \in Threads \ {t} : pc[u] \notin OpenSteps
      /\ pc[t] \in OpenSteps
  BY DEF CommitInv, HoldingSteps, OpenSteps
<1>2. /\ \A i \in Indices : queue'[i] = queue[i] /\ i \in Indices'
      /\ queue'[last].n = last_enqueued
      /\ queue'[last].wait = wait_value[t]
      /\ queue'[last].ending = e
      /\ \A i \in Indices' : i \in Indices \/ i = last
      /\ last \in Indices'
  <2>1. /\ Len(queue) \in Nat
        /\ Len(queue') = Len(queue) + 1
        /\ \A i \in 1..Len(queue) : queue'[i] = queue[i]
        /\ queue'[Len(queue) + 1].n = signal_value[t]
        /\ queue'[Len(queue) + 1].wait = wait_value[t]
        /\ queue'[Len(queue) + 1].ending = e
        /\ \A i \in 1..Len(queue') : i \in 1..Len(queue) \/ i = Len(queue) + 1
    BY SplitTypes, AppendBuffer
  <2> QED BY <1>0, <1>1, <2>1 DEF Indices
<1>3. ASSUME NEW n \in 1..last_enqueued
      PROVE  \/ \E i \in Indices' : Signals(i)' /\ queue'[i].n = n
             \/ n = last_enqueued /\ \E u \in Threads : pc'[u] \in OpenSteps
  <2>1. CASE \E i \in Indices : Signals(i) /\ queue[i].n = n
    BY <1>2, <2>1 DEF Signals
  <2>2. CASE n = last_enqueued /\ e # "continued"
    BY <1>2, <2>2 DEF Signals
  <2>3. CASE n = last_enqueued /\ e = "continued"
    BY <2>3 DEF OpenSteps
  <2> QED BY <2>1, <2>2, <2>3 DEF OwedInv
<1>4. ASSUME NEW i \in Indices'
      PROVE  queue'[i].wait = 0 \/ queue'[i].wait + 1 = queue'[i].n
  <2>1. CASE i \in Indices
    BY <1>2, <2>1 DEF OwedInv
  <2>2. CASE i = last
    <3>1. wait_value[t] = 0 \/ wait_value[t] + 1 = last_enqueued
      BY <1>1 DEF OwedInv
    <3> QED BY <1>2, <2>2, <3>1
  <2> QED BY <1>2, <2>1, <2>2
<1>5. ASSUME NEW u \in Threads, pc'[u] \in OpenSteps PROVE wait_value'[u] = 0
  BY <1>1, <1>5
<1>6. ASSUME NEW u \in Threads, pc'[u] = "syncing" PROVE awaited'[u] <= last_enqueued
  BY <1>6, SplitTypes DEF OwedInv
<1>7. ASSUME NEW u \in Threads, pc'[u] = "completing"
      PROVE  awaited'[u] \in Indices' /\ queue'[awaited'[u]].ending = "gpu"
  <2>1. CASE u = t
    BY <1>0, <1>2, <1>7, <2>1
  <2>2. CASE u # t
    <3>1. pc[u] = "completing" /\ awaited'[u] = awaited[u]
      BY <1>7, <2>2
    <3>2. PICK k : k = awaited[u]
      OBVIOUS
    <3>3. k \in Indices /\ queue[k].ending = "gpu"
      BY <3>1, <3>2 DEF OwedInv
    <3>4. k \in Indices' /\ queue'[k].ending = "gpu"
      BY <1>2, <3>3
    <3> QED BY <3>1, <3>2, <3>4
  <2> QED BY <2>1, <2>2
<1> QED BY <1>3, <1>4, <1>5, <1>6, <1>7 DEF OwedInv

\* Every step keeps the numbers that are waited for accounted for.
LEMMA OwedInvStep ==
  ASSUME TypeOK, CommitInv, OwedInv, [Next]_vars
  PROVE  OwedInv'
<1> USE DEF lock_vars, thread_vars, gpu_vars, hand_vars, Goto, ForgetLocals
<1>0. awaited \in [Threads -> Nat]
  BY DEF TypeOK
<1>1. ASSUME NEW t \in Threads,
             \/ LockSubmit(t) \/ TakeBuffer(t) \/ ReleaseForExternalCommit(t)
             \/ WaitForStream(t) \/ ReturnFromRunGraph(t) \/ WaitUntilCompleted(t)
             \/ BlockHostUntilDone(t) \/ DrainWait(t) \/ DrainReturn(t)
      PROVE  OwedInv'
  <2>1. /\ UNCHANGED <<queue, last_enqueued>>
        /\ \A u \in Threads \ {t} :
             pc'[u] = pc[u] /\ wait_value'[u] = wait_value[u] /\ awaited'[u] = awaited[u]
        /\ pc'[t] \in OpenSteps <=> pc[t] \in OpenSteps
        /\ pc[t] \in OpenSteps => wait_value'[t] = wait_value[t]
        /\ pc'[t] \notin {"syncing", "completing"}
    BY <1>0, <1>1, SplitTypes
    DEF LockSubmit, TakeBuffer, ReleaseForExternalCommit, WaitForStream,
        ReturnFromRunGraph, WaitUntilCompleted, BlockHostUntilDone, DrainWait,
        DrainReturn, OpenSteps
  <2> QED BY <2>1, OwedThreadStep
<1>2. ASSUME NEW t \in Threads, Reserve(t) PROVE OwedInv'
  <2>1. /\ \A u \in Threads \ {t} : pc[u] \notin OpenSteps /\ pc'[u] = pc[u]
        /\ pc[t] \notin OpenSteps /\ pc'[t] = "reserved"
        /\ wait_value'[t] = last_enqueued /\ last_enqueued' = last_enqueued + 1
        /\ UNCHANGED <<queue, awaited>>
    BY <1>2, SplitTypes DEF Reserve, CommitInv, HoldingSteps, OpenSteps
  <2>2. ASSUME NEW n \in 1..last_enqueued'
        PROVE  \/ \E i \in Indices : Signals(i) /\ queue[i].n = n
               \/ n = last_enqueued' /\ pc'[t] \in OpenSteps
    <3>1. CASE n \in 1..last_enqueued
      <4>1. \A u \in Threads : pc[u] \notin OpenSteps
        BY <2>1
      <4> QED BY <3>1, <4>1 DEF OwedInv
    <3>2. CASE n \notin 1..last_enqueued
      <4>1. n = last_enqueued'
        BY <2>1, <3>2, SplitTypes
      <4> QED BY <2>1, <4>1 DEF OpenSteps
    <3> QED BY <3>1, <3>2
  <2>3. \A u \in Threads : pc'[u] \in {"syncing", "completing"} => pc'[u] = pc[u]
    BY <2>1
  <2>4. \A u \in Threads : pc'[u] = "syncing" => awaited[u] <= last_enqueued'
    BY <1>0, <2>1, <2>3, SplitTypes DEF OwedInv
  <2> QED BY <2>1, <2>2, <2>3, <2>4 DEF OwedInv, Signals, Indices
<1>3. ASSUME NEW t \in Threads, GiveBack(t) PROVE OwedInv'
  <2>1. /\ \A u \in Threads : pc'[u] \notin OpenSteps \cup {"syncing"}
        /\ \A u \in Threads \ {t} : pc'[u] = pc[u]
        /\ pc'[t] = "idle"
        /\ UNCHANGED <<queue, awaited>>
    BY <1>3, SplitTypes DEF GiveBack, CommitInv, HoldingSteps, OpenSteps
  <2>2. last_enqueued' + 1 = last_enqueued /\ last_enqueued' \in Nat
    BY <1>3, SplitTypes DEF GiveBack, CommitInv, OpenSteps
  <2>3. ASSUME NEW n \in 1..last_enqueued'
        PROVE  \E i \in Indices : Signals(i) /\ queue[i].n = n
    <3>1. n \in 1..last_enqueued /\ n # last_enqueued
      BY <2>2
    <3> QED BY <3>1 DEF OwedInv
  <2>4. \A u \in Threads : pc'[u] = "completing" => pc[u] = "completing"
    BY <2>1
  <2> QED BY <2>1, <2>3, <2>4 DEF OwedInv, Signals, Indices
<1>4. ASSUME NEW t \in Threads,
             \/ Commit(t) \/ CommitAndWait(t) \/ CommitWithHostCompletion(t)
             \/ CommitAndContinue(t) \/ CommitLive(t)
      PROVE  OwedInv'
  <2> USE SplitTypes, <1>0 DEF Endings, OpenSteps
  <2>1. CASE Commit(t)
    BY <2>1, OwedCommit DEF Commit
  <2>2. CASE CommitAndWait(t)
    BY <2>2, OwedCommit DEF CommitAndWait
  <2>3. CASE CommitWithHostCompletion(t)
    BY <2>3, OwedCommit DEF CommitWithHostCompletion
  <2>4. CASE CommitAndContinue(t)
    BY <2>4, OwedCommit DEF CommitAndContinue
  <2>5. CASE CommitLive(t)
    BY <2>5, OwedCommit DEF CommitLive
  <2> QED BY <1>4, <2>1, <2>2, <2>3, <2>4, <2>5
<1>5. CASE UNCHANGED <<lock_vars, thread_vars, queue>>
  BY <1>5 DEF OwedInv, Signals, Indices
<1> QED
  BY <1>1, <1>2, <1>3, <1>4, <1>5
  DEF Next, Thread, Continue, Callback, Schedule, Complete, NoteCompletion,
      BeginHostWork, EndHostWork, vars

\* When all that has begun is over and no buffer is open, the event has reached
\* the numbers that buffers begun signal, and the next buffer may begin.
LEMMA NextMayBegin ==
  ASSUME TypeOK, CommitInv, SplitInv, OwedInv,
         \A i \in 1..scheduled : i \in completed /\ (Signals(i) => i \in handled),
         scheduled < Len(queue)
  PROVE  order_event >= queue[scheduled + 1].wait
<1>1. PICK k \in Indices : k = scheduled + 1
  BY SplitTypes DEF Indices
<1>2. queue[k].wait \in Nat /\ queue[k].n \in Nat /\ order_event \in Nat
      /\ queue[k].n <= last_enqueued /\ last_enqueued \in Nat
  BY SplitTypes DEF CommitInv
<1>3. CASE queue[k].wait = 0
  BY <1>1, <1>2, <1>3
<1>4. CASE queue[k].wait # 0
  <2>1. queue[k].wait + 1 = queue[k].n
    BY <1>4 DEF OwedInv
  <2>2. queue[k].wait \in 1..last_enqueued /\ queue[k].wait # last_enqueued
    BY <1>2, <1>4, <2>1
  <2>3. PICK j \in Indices : Signals(j) /\ queue[j].n = queue[k].wait
    BY <2>2 DEF OwedInv
  <2>4. j < k
    <3>1. ~(queue[k].n <= queue[j].n)
      BY <1>2, <2>1, <2>3
    <3>2. k # j /\ ~(k < j)
      BY <1>2, <2>1, <2>3, <3>1 DEF CommitInv, CommitOrder
    <3> QED BY <3>2, SplitTypes
  <2>5. j \in 1..scheduled
    BY <1>1, <2>4, SplitTypes DEF Indices
  <2>6. Finished(j)
    BY <2>3, <2>5 DEF Finished
  <2>7. queue[j].n <= order_event
    BY <2>3, <2>6 DEF SplitInv, CountedInv
  <2> QED BY <1>1, <2>3, <2>7
<1> QED BY <1>3, <1>4

\* The numbering, the count and what is owed, together.
LEMMA OwedInvHolds == Spec => [](CommitInv /\ SplitInv /\ OwedInv)
<1>1. Init => OwedInv
  <2> SUFFICES ASSUME Init PROVE OwedInv
    OBVIOUS
  <2>1. Indices = {} /\ last_enqueued = 0
    BY DEF Init, Indices
  <2>2. \A t \in Threads : pc[t] = "idle"
    BY DEF Init
  <2> QED BY <2>1, <2>2 DEF OwedInv, OpenSteps
<1>2. TypeOK /\ CommitInv /\ OwedInv /\ [Next]_vars => OwedInv'
  BY OwedInvStep
<1> QED BY <1>1, <1>2, TypeCorrect, SplitInvHolds, PTL DEF Spec

\* The stream is never wedged, with graphs split or not, buffers failing or not
\* and numbers given back: only a drain that read a number given back since is
\* kept waiting (SP_Stream_st, OrderedCommandBuffer, BlockHostUntilDone).
THEOREM NothingWedgesHolds == Spec => []NothingWedges
<1>1. TypeOK /\ CommitInv /\ SplitInv /\ OwedInv => NothingWedges
  <2> SUFFICES ASSUME TypeOK, CommitInv, SplitInv, OwedInv, ~CanMove
               PROVE  /\ scheduled = Len(queue) /\ order_event = last_enqueued
                      /\ \A t \in Threads : \/ MayLeave(t)
                                            \/ pc[t] = "draining" /\ awaited[t] > last_enqueued
    BY DEF NothingWedges
  <2>1. \A i \in 1..scheduled : i \in completed /\ (Signals(i) => i \in handled)
    BY DEF CanMove
  <2>2. scheduled = Len(queue)
    BY <2>1, NextMayBegin, SplitTypes DEF CanMove
  <2>3. \A t \in Threads : pc[t] \notin OpenSteps
    BY DEF CanMove, OpenSteps, HoldingSteps
  <2>4. order_event = last_enqueued
    <3>1. order_event <= last_enqueued
      BY DEF SplitInv, OpenInv
    <3>2. CASE last_enqueued = 0
      BY <3>1, <3>2, SplitTypes
    <3>3. CASE last_enqueued # 0
      <4>1. last_enqueued \in 1..last_enqueued
        BY <3>3, SplitTypes
      <4>2. PICK j \in Indices : Signals(j) /\ queue[j].n = last_enqueued
        BY <2>3, <4>1 DEF OwedInv
      <4>3. Finished(j)
        BY <2>1, <2>2, <4>2 DEF Finished, Indices
      <4>4. last_enqueued <= order_event
        BY <4>2, <4>3 DEF SplitInv, CountedInv
      <4> QED BY <3>1, <4>4, SplitTypes
    <3> QED BY <3>2, <3>3
  <2>5. ASSUME NEW t \in Threads
        PROVE  MayLeave(t) \/ (pc[t] = "draining" /\ awaited[t] > last_enqueued)
    <3>1. awaited[t] \in Nat
      BY DEF TypeOK
    <3>2. pc[t] = "syncing" => order_event >= awaited[t]
      BY <2>4, <3>1, SplitTypes DEF OwedInv
    <3>3. pc[t] = "draining" => order_event >= awaited[t] \/ awaited[t] > last_enqueued
      BY <2>4, <3>1, SplitTypes
    <3>4. pc[t] = "completing" => awaited[t] \in handled
      BY <2>1, <2>2 DEF OwedInv, Signals, Indices
    <3> QED BY <3>2, <3>3, <3>4 DEF MayLeave
  <2> QED BY <2>2, <2>4, <2>5
<1> QED BY <1>1, OwedInvHolds, TypeCorrect, PTL

\* Where queues return buffers no number is given back, and so no drain is kept
\* waiting (BlockHostUntilDone).
THEOREM DrainsAreOwedHolds ==
  ASSUME ~NilBuffers
  PROVE  Spec => []DrainsAreOwed
<1>1. Init => DrainsAreOwed
  BY DEF Init, DrainsAreOwed
<1>2. TypeOK /\ DrainsAreOwed /\ [Next]_vars => DrainsAreOwed'
  <2> SUFFICES ASSUME TypeOK, DrainsAreOwed, [Next]_vars, NEW t \in Threads,
                      pc'[t] = "draining"
               PROVE  awaited'[t] <= last_enqueued'
    BY DEF DrainsAreOwed
  <2> USE DEF lock_vars, thread_vars, gpu_vars, hand_vars, Goto, ForgetLocals
  <2>1. /\ last_enqueued \in Nat /\ last_enqueued' \in Nat /\ awaited[t] \in Nat
        /\ last_enqueued <= last_enqueued'
        /\ \/ pc[t] = "draining" /\ awaited'[t] = awaited[t]
           \/ awaited'[t] = last_enqueued
    <3>0. /\ pc \in [Threads -> Steps] /\ awaited \in [Threads -> Nat]
          /\ last_enqueued \in Nat
      BY DEF TypeOK
    <3>1. CASE \E u \in Threads : Thread(u)
      BY <3>0, <3>1
      DEF Thread, Continue, LockSubmit, Reserve, TakeBuffer, GiveBack, Commit,
          CommitAndWait, WaitUntilCompleted, CommitWithHostCompletion,
          ReleaseForExternalCommit, CommitAndContinue, CommitLive, WaitForStream,
          ReturnFromRunGraph, BlockHostUntilDone, DrainWait, DrainReturn
    <3>2. CASE UNCHANGED <<lock_vars, thread_vars>>
      BY <3>0, <3>2
    <3> QED BY <3>1, <3>2
        DEF Next, Schedule, Complete, Callback, NoteCompletion, BeginHostWork,
            EndHostWork, vars
  <2> QED BY <2>1 DEF DrainsAreOwed
<1> QED BY <1>1, <1>2, TypeCorrect, PTL DEF Spec

=============================================================================

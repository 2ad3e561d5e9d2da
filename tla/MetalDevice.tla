---------------------------- MODULE MetalDevice ----------------------------
(***************************************************************************)
(* The streams of one device: their creation and destruction, and the      *)
(* calls that drain all of them (MetalDeviceState in metal_stream.mm;      *)
(* CreateStream, DestroyStream, SyncCopy and SynchronizeAllActivity in     *)
(* metal_stream_executor.mm).                                              *)
(*                                                                         *)
(* A stream is taken at the level of StreamOrder: the operation with       *)
(* number n is the n-th that finishes.  What is kept of                    *)
(* OrderedCommandBuffer is that a number is handed out some time before    *)
(* its buffer is committed, and may be given back; what is kept of the     *)
(* completion handlers is that one of a failed buffer writes to the        *)
(* stream, some time after the GPU has signalled the buffer's number.      *)
(***************************************************************************)
EXTENDS Naturals

CONSTANTS Threads, Streams,
          NoStream, NoThread,
          MaxEnqueued,   \* bound on the numbers handed out per stream
          Failing,       \* the streams whose buffers may end in error
          NilBuffers     \* may a command queue return no buffer?

ASSUME NobodyAssumption == NoStream \notin Streams /\ NoThread \notin Threads
ASSUME EnqueuedAssumption == MaxEnqueued \in Nat
ASSUME FailingAssumption == Failing \subseteq Streams
ASSUME SwitchAssumption == NilBuffers \in BOOLEAN

VARIABLES phase,     \* per stream: the life of its SP_Stream_st
          streams,   \* MetalDeviceState::streams; its order plays no part
          last_enqueued, \* per stream: the last number handed out
          submit,    \* per stream: holder of the submission lock
          committed, \* per stream: the last number committed to its queue
          finished,  \* per stream: order_event.signaledValue
          failed,    \* per stream: sticky failure
          late,      \* handlers of failed buffers that have yet to run
          call,      \* per thread: the call it is in
          revoked    \* history: threads whose awaited number was given back

stream_vars == <<phase, streams>>
number_vars == <<last_enqueued, submit, committed>>
gpu_vars    == <<finished, failed, late>>
work_vars   == <<number_vars, gpu_vars>>
call_vars   == <<call, revoked>>
vars        == <<stream_vars, work_vars, call_vars>>

-----------------------------------------------------------------------------
Phases == {"none", "live", "deleted"}

\* "draining", "awaiting": in BlockUntilIdle, between streams and at stream
\* `at`; "drained": out of it; "destroying", "deleting": in DestroyStream,
\* before and after RemoveStream; "undefined": the thread has touched a stream
\* that was deleted, and what it does from there on is not followed.
Steps == {"idle", "draining", "awaiting", "drained", "destroying", "deleting",
          "undefined"}

\* `rest` is what is left of the snapshot; `owed` the numbers committed when
\* the call began, remembered for the properties alone.
Nothing == [s \in Streams |-> 0]
Calls == [step : Steps, at : Streams \cup {NoStream}, target : Nat,
          rest : SUBSET Streams, owed : [Streams -> Nat]]
Idle == [step |-> "idle", at |-> NoStream, target |-> 0, rest |-> {}, owed |-> Nothing]
Destruction(s, target) ==
  [step |-> "destroying", at |-> s, target |-> target, rest |-> {}, owed |-> Nothing]
Drain(rest, owed) ==
  [step |-> "draining", at |-> NoStream, target |-> 0, rest |-> rest, owed |-> owed]

TypeOK ==
  /\ phase \in [Streams -> Phases]
  /\ streams \subseteq Streams
  /\ last_enqueued \in [Streams -> Nat]
  /\ submit \in [Streams -> Threads \cup {NoThread}]
  /\ committed \in [Streams -> Nat]
  /\ finished \in [Streams -> Nat]
  /\ failed \in [Streams -> BOOLEAN]
  /\ late \subseteq Streams \X Nat
  /\ call \in [Threads -> Calls]
  /\ revoked \subseteq Threads

Init ==
  /\ phase = [s \in Streams |-> "none"]
  /\ streams = {}
  /\ last_enqueued = [s \in Streams |-> 0]
  /\ submit = [s \in Streams |-> NoThread]
  /\ committed = [s \in Streams |-> 0]
  /\ finished = [s \in Streams |-> 0]
  /\ failed = [s \in Streams |-> FALSE]
  /\ late = {}
  /\ call = [t \in Threads |-> Idle]
  /\ revoked = {}

-----------------------------------------------------------------------------
(***************************************************************************)
(* What core keeps to                                                      *)
(***************************************************************************)

Destroying(s) == \E t \in Threads : /\ call[t].step \in {"destroying", "deleting"}
                                    /\ call[t].at = s

\* Core uses no stream it has begun to destroy, and destroys none in use.
Usable(s) == phase[s] = "live" /\ ~Destroying(s)

Free(t) == call[t].step = "idle" /\ \A s \in Streams : submit[s] # t

LastEnqueued(s) == last_enqueued[s]

-----------------------------------------------------------------------------
(***************************************************************************)
(* Streams                                                                 *)
(***************************************************************************)

\* CreateStream: the stream is in the list before core has it.
CreateStream(t, s) ==
  /\ Free(t)
  /\ phase[s] = "none"
  /\ phase' = [phase EXCEPT ![s] = "live"]
  /\ streams' = streams \cup {s}
  /\ UNCHANGED <<work_vars, call_vars>>

\* Any operation on the stream: the constructor of its OrderedCommandBuffer
\* takes the submission lock and a number...
Reserve(t, s) ==
  /\ Free(t)
  /\ Usable(s)
  /\ submit[s] = NoThread
  /\ LastEnqueued(s) < MaxEnqueued
  /\ submit' = [submit EXCEPT ![s] = t]
  /\ last_enqueued' = [last_enqueued EXCEPT ![s] = @ + 1]
  /\ UNCHANGED <<stream_vars, committed, gpu_vars, call_vars>>

\* ...and the buffer that will signal it is committed...
Commit(t, s) ==
  /\ submit[s] = t
  /\ committed' = [committed EXCEPT ![s] = LastEnqueued(s)]
  /\ submit' = [submit EXCEPT ![s] = NoThread]
  /\ UNCHANGED <<stream_vars, last_enqueued, gpu_vars, call_vars>>

Awaiting(s, n) == {t \in Threads : /\ call[t].step = "awaiting"
                                   /\ call[t].at = s /\ call[t].target = n}

\* ...unless the queue has no buffer: then the number is given back, also when
\* a drain has read it in the meantime.
GiveBack(t, s) ==
  /\ NilBuffers
  /\ submit[s] = t
  /\ last_enqueued' = [last_enqueued EXCEPT ![s] = @ - 1]
  /\ submit' = [submit EXCEPT ![s] = NoThread]
  /\ revoked' = revoked \cup Awaiting(s, LastEnqueued(s))
  /\ UNCHANGED <<stream_vars, committed, gpu_vars, call>>

\* Mutant: nothing is waited for.
DestroyUndrained(t, s) ==
  /\ Free(t)
  /\ Usable(s)
  /\ submit[s] = NoThread
  /\ call' = [call EXCEPT ![t] = Destruction(s, 0)]
  /\ UNCHANGED <<stream_vars, work_vars, revoked>>

\* Mutant: a number nobody has been handed is waited for.
DestroyAwaitsNext(t, s) ==
  /\ Free(t)
  /\ Usable(s)
  /\ submit[s] = NoThread
  /\ call' = [call EXCEPT ![t] = Destruction(s, LastEnqueued(s) + 1)]
  /\ UNCHANGED <<stream_vars, work_vars, revoked>>

\* DestroyStream reads what it must wait for...
DestroyStream(t, s) ==
  /\ Free(t)
  /\ Usable(s)
  /\ submit[s] = NoThread
  /\ call' = [call EXCEPT ![t] = Destruction(s, LastEnqueued(s))]
  /\ UNCHANGED <<stream_vars, work_vars, revoked>>

\* Mutant: the stream stays in the list.
ForgetToRemove(t) ==
  /\ call[t].step = "destroying"
  /\ finished[call[t].at] >= call[t].target
  /\ call' = [call EXCEPT ![t].step = "deleting"]
  /\ UNCHANGED <<stream_vars, work_vars, revoked>>

\* ...waits, and takes the stream off the list.
RemoveStream(t) ==
  /\ call[t].step = "destroying"
  /\ finished[call[t].at] >= call[t].target
  /\ streams' = streams \ {call[t].at}
  /\ call' = [call EXCEPT ![t].step = "deleting"]
  /\ UNCHANGED <<phase, work_vars, revoked>>

DeleteStream(t) ==
  /\ call[t].step = "deleting"
  /\ phase' = [phase EXCEPT ![call[t].at] = "deleted"]
  /\ call' = [call EXCEPT ![t] = Idle]
  /\ UNCHANGED <<streams, work_vars, revoked>>

-----------------------------------------------------------------------------
(***************************************************************************)
(* Draining the device                                                     *)
(***************************************************************************)

\* BlockUntilIdle takes its snapshot under the device's lock.
BlockUntilIdle(t) ==
  /\ Free(t)
  /\ call' = [call EXCEPT ![t] = Drain(streams, committed)]
  /\ UNCHANGED <<stream_vars, work_vars, revoked>>

\* Mutant: the last operation is not waited for.
ReadTargetShort(t, s) ==
  /\ call[t].step = "draining"
  /\ s \in call[t].rest
  /\ phase[s] # "deleted"
  /\ IF LastEnqueued(s) <= 1
       THEN call' = [call EXCEPT ![t].rest = @ \ {s}]
       ELSE call' = [call EXCEPT ![t].step = "awaiting", ![t].at = s,
                                 ![t].target = LastEnqueued(s) - 1]
  /\ UNCHANGED <<stream_vars, work_vars, revoked>>

\* Under the stream's own lock: its last number, committed or not; 0 is not
\* waited for.
ReadTarget(t, s) ==
  /\ call[t].step = "draining"
  /\ s \in call[t].rest
  /\ phase[s] # "deleted"
  /\ IF LastEnqueued(s) = 0
       THEN call' = [call EXCEPT ![t].rest = @ \ {s}]
       ELSE call' = [call EXCEPT ![t].step = "awaiting", ![t].at = s,
                                 ![t].target = LastEnqueued(s)]
  /\ UNCHANGED <<stream_vars, work_vars, revoked>>

Await(t) ==
  /\ call[t].step = "awaiting"
  /\ phase[call[t].at] # "deleted"
  /\ finished[call[t].at] >= call[t].target
  /\ call' = [call EXCEPT ![t].step = "draining", ![t].rest = @ \ {call[t].at},
                          ![t].at = NoStream, ![t].target = 0]
  /\ revoked' = revoked \ {t}
  /\ UNCHANGED <<stream_vars, work_vars>>

\* The device's lock is not held, so a stream of the snapshot may have been
\* deleted by the time it is read or waited for.
TouchDeleted(t) ==
  /\ \/ /\ call[t].step = "draining"
        /\ \E s \in call[t].rest : phase[s] = "deleted"
     \/ call[t].step = "awaiting" /\ phase[call[t].at] = "deleted"
  /\ call' = [call EXCEPT ![t].step = "undefined"]
  /\ UNCHANGED <<stream_vars, work_vars, revoked>>

FinishDrain(t) ==
  /\ call[t].step = "draining"
  /\ call[t].rest = {}
  /\ call' = [call EXCEPT ![t].step = "drained"]
  /\ UNCHANGED <<stream_vars, work_vars, revoked>>

\* The memcpy of SyncCopy; SynchronizeAllActivity just returns.
ReturnDrained(t) ==
  /\ call[t].step = "drained"
  /\ call' = [call EXCEPT ![t] = Idle]
  /\ UNCHANGED <<stream_vars, work_vars, revoked>>

-----------------------------------------------------------------------------
(***************************************************************************)
(* The GPU and the handlers                                                *)
(***************************************************************************)

Upcoming(s) == finished[s] + 1

\* The next operation finishes.  If it fails, a handler that signals the number
\* itself (CommitWithHostCompletion) notes that first; that of a buffer the GPU
\* signals for (Commit) does so later.
Run(s) ==
  /\ finished[s] < committed[s]
  /\ finished' = [finished EXCEPT ![s] = Upcoming(s)]
  /\ \/ UNCHANGED <<failed, late>>
     \/ /\ s \in Failing
        /\ late' = late \cup {<<s, Upcoming(s)>>}
        /\ UNCHANGED failed
     \/ /\ s \in Failing
        /\ failed' = [failed EXCEPT ![s] = TRUE]
        /\ UNCHANGED late
  /\ UNCHANGED <<stream_vars, number_vars, call_vars>>

NoteFailure(s, n) ==
  /\ <<s, n>> \in late
  /\ phase[s] # "deleted"
  /\ late' = late \ {<<s, n>>}
  /\ failed' = [failed EXCEPT ![s] = TRUE]
  /\ UNCHANGED <<stream_vars, number_vars, finished, call_vars>>

-----------------------------------------------------------------------------
Continue(t) ==
  \/ RemoveStream(t) \/ DeleteStream(t)
  \/ \E s \in Streams : Commit(t, s) \/ GiveBack(t, s) \/ ReadTarget(t, s)
  \/ Await(t) \/ TouchDeleted(t) \/ FinishDrain(t) \/ ReturnDrained(t)

Begin(t) ==
  \/ \E s \in Streams : CreateStream(t, s) \/ DestroyStream(t, s) \/ Reserve(t, s)
  \/ BlockUntilIdle(t)

Next ==
  \/ \E t \in Threads : Begin(t) \/ Continue(t)
  \/ \E s \in Streams : Run(s)
  \/ \E s \in Streams, n \in 1..MaxEnqueued : NoteFailure(s, n)

Spec == Init /\ [][Next]_vars

\* A thread inside a call goes on and the GPU runs what is there.
Fairness == /\ \A t \in Threads : WF_vars(Continue(t))
            /\ \A s \in Streams : WF_vars(Run(s))

FairSpec == Spec /\ Fairness

-----------------------------------------------------------------------------
(***************************************************************************)
(* Properties                                                              *)
(***************************************************************************)

\* When a synchronous copy starts copying, everything committed to any stream
\* before the call has finished, while other threads went on enqueuing,
\* creating and destroying streams ("drain the whole device before copying").
SyncCopySeesEarlierWork ==
  \A t \in Threads : call[t].step = "drained" =>
    \A s \in Streams : finished[s] >= call[t].owed[s]

\* No stream is deleted with work outstanding (DestroyStream).
DeletedIsDrained ==
  \A s \in Streams : phase[s] = "deleted" =>
    finished[s] = LastEnqueued(s) /\ submit[s] = NoThread

\* The device lists no stream that was deleted, so a drain that touches one
\* took its snapshot before the stream was taken off (RemoveStream precedes
\* the delete of DestroyStream; BlockUntilIdle takes a copy of the list).
ListedStreamsExist == \A s \in streams : phase[s] = "live"

\* A drain touches no deleted stream.  This does NOT hold: BlockUntilIdle walks
\* its snapshot without the lock, and "must not block stream creation or
\* teardown".
DrainTouchesNoDeleted == \A t \in Threads : call[t].step # "undefined"

\* A completion handler that writes to its stream finds it (DestroyStream).
HandlerTouchesNoDeleted == \A h \in late : phase[h[1]] # "deleted"

\* A drain of the device and the destruction of a stream come to an end, though
\* other threads keep enqueuing, save for a drain whose number was given back
\* by the buffer that had it, or that touched a deleted stream.
DrainsEnd ==
  \A t \in Threads :
    call[t].step \in {"draining", "awaiting", "destroying"} ~>
      call[t].step \in {"drained", "deleting", "undefined"} \/ t \in revoked

-----------------------------------------------------------------------------
(***************************************************************************)
(* Inductive invariant                                                     *)
(***************************************************************************)

InDrain(t) == call[t].step \in {"draining", "awaiting"}

\* What the steps of a drain and of a destruction have established so far.
CallInv(t) ==
  LET c == call[t] IN
  /\ InDrain(t) => \A s \in Streams \ c.rest : finished[s] >= c.owed[s]
  /\ InDrain(t) => \A s \in Streams : c.owed[s] <= committed[s]
  /\ c.step = "awaiting" => /\ c.at \in c.rest /\ c.target >= c.owed[c.at]
                            /\ c.target <= LastEnqueued(c.at) \/ t \in revoked
  /\ c.step \in {"destroying", "deleting"} =>
       c.at \in Streams /\ phase[c.at] = "live" /\ submit[c.at] = NoThread
  /\ c.step = "destroying" => c.target = committed[c.at] /\ c.at \in streams
  /\ c.step = "deleting" => finished[c.at] = committed[c.at] /\ c.at \notin streams

\* Numbers are committed in turn, under the submission lock of a live stream.
NumberInv ==
  \A s \in Streams :
    /\ finished[s] <= committed[s]
    /\ LastEnqueued(s) = IF submit[s] = NoThread THEN committed[s]
                                                 ELSE committed[s] + 1
    /\ submit[s] # NoThread => phase[s] = "live"
    /\ phase[s] = "none" => committed[s] = 0

\* Why a drain sees it all: a stream that is not in the list has nothing
\* outstanding, for it is new or it was drained before it was taken off.
DeviceInv ==
  /\ NumberInv
  /\ \A s \in Streams \ streams :
       finished[s] = committed[s] /\ submit[s] = NoThread
  /\ \A s \in Streams \ streams : phase[s] = "live" =>
       \E t \in Threads : call[t].step = "deleting" /\ call[t].at = s
  /\ \A t, u \in Threads :
       /\ t # u
       /\ {call[t].step, call[u].step} \subseteq {"destroying", "deleting"}
       => call[t].at # call[u].at
  /\ \A t \in Threads : CallInv(t)
  /\ ListedStreamsExist
  /\ SyncCopySeesEarlierWork
  /\ DeletedIsDrained

\* A drain or a destruction is held up by work that is there at most: the
\* number it waits for is committed, or the thread that took it holds the
\* submission lock, or it was given back; or the stream is gone.  That of a
\* destruction is committed, on a stream that is there.
HeldUpByWorkOnly ==
  \A t \in Threads : LET c == call[t] IN
    /\ c.step = "awaiting" =>
         \/ phase[c.at] = "deleted" \/ t \in revoked
         \/ c.target <= committed[c.at]
         \/ c.target = committed[c.at] + 1 /\ submit[c.at] # NoThread
    /\ c.step = "destroying" =>
         phase[c.at] = "live" /\ c.target <= committed[c.at]

=============================================================================

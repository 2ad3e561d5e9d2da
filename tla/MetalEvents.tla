---------------------------- MODULE MetalEvents ----------------------------
(***************************************************************************)
(* Events and dependencies between the streams of one device: RecordEvent, *)
(* WaitForEvent, BlockHostForEvent and CreateStreamDependency              *)
(* (metal_stream_executor.mm).                                             *)
(*                                                                         *)
(* A stream is taken at the level MetalStream is shown to implement        *)
(* (StreamOrder): the buffers of a stream run one at a time, in the order  *)
(* of their numbers.  What remains visible of OrderedCommandBuffer is that *)
(* a number is handed out some time before its buffer is committed, and    *)
(* may be given back.                                                      *)
(***************************************************************************)
EXTENDS Naturals, Sequences

CONSTANTS Streams, Events, Threads,
          Nothing,      \* neither a stream, an event nor a thread
          MaxBuffers,   \* bound on the numbers handed out per stream
          MaxClock,     \* bound on the numbers handed out in all
          MaxRecords,   \* bound on the times an event is recorded
          NilBuffers,   \* the streams whose queue may return no buffer
          Failures      \* may a buffer end in error?

ASSUME NothingAssumption == Nothing \notin Streams \cup Events \cup Threads
ASSUME KindsAssumption == Streams \cap Events = {}
ASSUME LimitsAssumption == {MaxBuffers, MaxClock, MaxRecords} \subseteq Nat
ASSUME NilBuffersAssumption == NilBuffers \subseteq Streams
ASSUME FailuresAssumption == Failures \in BOOLEAN

VARIABLES last_enqueued,  \* per stream: the last number handed out
          submit,         \* per stream: holder of the submission lock
          buffers,        \* per stream: committed buffers, in number order
          finished,       \* per stream: order_event.signaledValue
          failed,         \* per stream: sticky failure
          target,         \* per event: the value of its last record, 0: none
          signaled,       \* per event: event.signaledValue
          reached,        \* records <<event, value>> the GPU has executed
          call,           \* per thread: the call it is in
          clock, stamp,   \* history: when each number was handed out
          shared,         \* history: events recorded on two streams, or by
                          \* two calls at once
          lost            \* history: events a record of which got no buffer,
                          \* streams a number of which was given back after
                          \* another stream had read it

stream_vars  == <<last_enqueued, submit, buffers, finished, failed>>
event_vars   == <<target, signaled, reached>>
order_vars   == <<clock, stamp>>
flaw_vars    == <<shared, lost>>
history_vars == <<order_vars, flaw_vars>>
vars == <<stream_vars, event_vars, call, history_vars>>

-----------------------------------------------------------------------------
\* What a buffer does besides its stream's own ordering: nothing the others
\* can see, signal an event, wait for an event, wait for another stream.
Work == [kind |-> "work", on |-> Nothing, value |-> 0]
Record(e, v) == [kind |-> "record", on |-> e, value |-> v]
Wait(e, v) == [kind |-> "wait", on |-> e, value |-> v]
After(s, v) == [kind |-> "after", on |-> s, value |-> v]

Buffers ==
  {Work} \cup [kind : {"record", "wait"}, on : Events, value : Nat]
         \cup [kind : {"after"}, on : Streams, value : Nat]

\* "constructing": values read, OrderedCommandBuffer not yet entered;
\* "encoding": holding submit and a number; "blocked": in BlockHostForEvent.
Idle == [step |-> "idle", stream |-> Nothing, buffer |-> Work]

Calls ==
  {Idle}
    \cup [step : {"constructing", "encoding"}, stream : Streams, buffer : Buffers]
    \cup [step : {"blocked"}, stream : {Nothing}, buffer : Buffers]

TypeOK ==
  /\ last_enqueued \in [Streams -> Nat]
  /\ submit \in [Streams -> Threads \cup {Nothing}]
  /\ buffers \in [Streams -> Seq(Buffers)]
  /\ finished \in [Streams -> Nat]
  /\ failed \in [Streams -> BOOLEAN]
  /\ target \in [Events -> Nat]
  /\ signaled \in [Events -> Nat]
  /\ reached \subseteq Events \X Nat
  /\ call \in [Threads -> Calls]
  /\ clock \in Nat
  /\ stamp \in [Streams -> Seq(Nat)]
  /\ shared \subseteq Events
  /\ lost \subseteq Events \cup Streams

Init ==
  /\ last_enqueued = [s \in Streams |-> 0]
  /\ submit = [s \in Streams |-> Nothing]
  /\ buffers = [s \in Streams |-> << >>]
  /\ finished = [s \in Streams |-> 0]
  /\ failed = [s \in Streams |-> FALSE]
  /\ target = [e \in Events |-> 0]
  /\ signaled = [e \in Events |-> 0]
  /\ reached = {}
  /\ call = [t \in Threads |-> Idle]
  /\ clock = 0
  /\ stamp = [s \in Streams |-> << >>]
  /\ shared = {}
  /\ lost = {}

-----------------------------------------------------------------------------
(***************************************************************************)
(* Callers                                                                 *)
(***************************************************************************)

Recording(e) == {t \in Threads : /\ call[t].step # "idle"
                                 /\ call[t].buffer.kind = "record"
                                 /\ call[t].buffer.on = e}

RecordedOn(e) == {s \in Streams : \E i \in 1..Len(buffers[s]) :
                    buffers[s][i].kind = "record" /\ buffers[s][i].on = e}

\* A second recorder of an event is remembered; callers may well have two.
NoteSecondRecorder(s, e) ==
  shared' = IF Recording(e) = {} /\ RecordedOn(e) \subseteq {s}
              THEN shared ELSE shared \cup {e}

Construct(t, s, b) ==
  call' = [call EXCEPT ![t] = [step |-> "constructing", stream |-> s, buffer |-> b]]

\* Any other operation of the executor or of a kernel.
Enqueue(t, s) ==
  /\ call[t] = Idle
  /\ Construct(t, s, Work)
  /\ UNCHANGED <<stream_vars, event_vars, history_vars>>

\* Mutant: the buffer signals the value the event had before.
RecordPostIncrement(t, s, e) ==
  /\ call[t] = Idle
  /\ ~failed[s]
  /\ target[e] < MaxRecords
  /\ target' = [target EXCEPT ![e] = @ + 1]
  /\ Construct(t, s, Record(e, target[e]))
  /\ NoteSecondRecorder(s, e)
  /\ UNCHANGED <<stream_vars, signaled, reached, order_vars, lost>>

\* Mutant: a stream that looks idle is taken to have reached the event.
RecordSignalsIdle(t, s, e) ==
  /\ call[t] = Idle
  /\ ~failed[s]
  /\ target[e] < MaxRecords
  /\ target' = [target EXCEPT ![e] = @ + 1]
  /\ signaled' = IF last_enqueued[s] = finished[s]
                   THEN [signaled EXCEPT ![e] = target[e] + 1] ELSE signaled
  /\ Construct(t, s, Record(e, target[e] + 1))
  /\ NoteSecondRecorder(s, e)
  /\ UNCHANGED <<stream_vars, reached, order_vars, lost>>

\* RecordEvent up to its OrderedCommandBuffer: the event's next value is taken
\* under the event's own lock, before the buffer has its place in the stream.
RecordEvent(t, s, e) ==
  /\ call[t] = Idle
  /\ ~failed[s]
  /\ target[e] < MaxRecords
  /\ target' = [target EXCEPT ![e] = @ + 1]
  /\ Construct(t, s, Record(e, target[e] + 1))
  /\ NoteSecondRecorder(s, e)
  /\ UNCHANGED <<stream_vars, signaled, reached, order_vars, lost>>

\* Mutant: the wait is for the record before the last one.
WaitForPrevious(t, s, e) ==
  /\ call[t] = Idle
  /\ ~failed[s]
  /\ target[e] # 0
  /\ Construct(t, s, Wait(e, target[e] - 1))
  /\ UNCHANGED <<stream_vars, event_vars, history_vars>>

\* WaitForEvent, likewise; an event never recorded is not waited for.
WaitForEvent(t, s, e) ==
  /\ call[t] = Idle
  /\ ~failed[s]
  /\ target[e] # 0
  /\ Construct(t, s, Wait(e, target[e]))
  /\ UNCHANGED <<stream_vars, event_vars, history_vars>>

\* Mutant: the dependency is on the next buffer of the other stream.
DependOnNext(t, dependent, other) ==
  /\ call[t] = Idle
  /\ ~failed[other]
  /\ Construct(t, dependent, After(other, last_enqueued[other] + 1))
  /\ UNCHANGED <<stream_vars, event_vars, history_vars>>

\* CreateStreamDependency looks for a failure of `other` alone.
CreateStreamDependency(t, dependent, other) ==
  /\ call[t] = Idle
  /\ ~failed[other]
  /\ last_enqueued[other] # 0
  /\ Construct(t, dependent, After(other, last_enqueued[other]))
  /\ UNCHANGED <<stream_vars, event_vars, history_vars>>

BlockHostForEvent(t, e) ==
  /\ call[t] = Idle
  /\ target[e] # 0
  /\ call' = [call EXCEPT ![t] = [step |-> "blocked", stream |-> Nothing,
                                  buffer |-> Wait(e, target[e])]]
  /\ UNCHANGED <<stream_vars, event_vars, history_vars>>

-----------------------------------------------------------------------------
(***************************************************************************)
(* OrderedCommandBuffer                                                    *)
(***************************************************************************)

\* Mutant: the number is not taken under the submission lock.
ReserveUnlocked(t) ==
  LET s == call[t].stream IN
  /\ call[t].step = "constructing"
  /\ last_enqueued[s] < MaxBuffers /\ clock < MaxClock
  /\ last_enqueued' = [last_enqueued EXCEPT ![s] = @ + 1]
  /\ clock' = clock + 1
  /\ stamp' = [stamp EXCEPT ![s] = Append(@, clock)]
  /\ call' = [call EXCEPT ![t].step = "encoding"]
  /\ UNCHANGED <<submit, buffers, finished, failed, event_vars, flaw_vars>>

\* The constructor: submit is taken, then the next number.
Reserve(t) ==
  LET s == call[t].stream IN
  /\ call[t].step = "constructing"
  /\ submit[s] = Nothing
  /\ last_enqueued[s] < MaxBuffers /\ clock < MaxClock
  /\ submit' = [submit EXCEPT ![s] = t]
  /\ last_enqueued' = [last_enqueued EXCEPT ![s] = @ + 1]
  /\ clock' = clock + 1
  /\ stamp' = [stamp EXCEPT ![s] = Append(@, clock)]
  /\ call' = [call EXCEPT ![t].step = "encoding"]
  /\ UNCHANGED <<buffers, finished, failed, event_vars, flaw_vars>>

Commit(t) ==
  LET s == call[t].stream IN
  /\ call[t].step = "encoding"
  /\ buffers' = [buffers EXCEPT ![s] = Append(@, call[t].buffer)]
  /\ submit' = [submit EXCEPT ![s] = Nothing]
  /\ call' = [call EXCEPT ![t] = Idle]
  /\ UNCHANGED <<last_enqueued, finished, failed, event_vars, history_vars>>

\* Whether a dependency on number n of stream s is under way or encoded.
DependedOn(s, n) ==
  \/ \E t \in Threads : call[t].buffer = After(s, n)
  \/ \E r \in Streams : \E i \in 1..Len(buffers[r]) : buffers[r][i] = After(s, n)

\* No buffer: the number is given back and the call fails.  An event's value
\* that was taken for it is not, and who depends on the number is not told.
GiveBack(t) ==
  LET s == call[t].stream IN
  /\ call[t].step = "encoding"
  /\ s \in NilBuffers
  /\ last_enqueued' = [last_enqueued EXCEPT ![s] = @ - 1]
  /\ stamp' = [stamp EXCEPT ![s] = SubSeq(@, 1, Len(@) - 1)]
  /\ submit' = [submit EXCEPT ![s] = Nothing]
  /\ call' = [call EXCEPT ![t] = Idle]
  /\ lost' = lost \cup {e \in Events : t \in Recording(e)}
                  \cup (IF DependedOn(s, last_enqueued[s]) THEN {s} ELSE {})
  /\ UNCHANGED <<buffers, finished, failed, event_vars, clock, shared>>

Unblock(t) ==
  /\ call[t].step = "blocked"
  /\ signaled[call[t].buffer.on] >= call[t].buffer.value
  /\ call' = [call EXCEPT ![t] = Idle]
  /\ UNCHANGED <<stream_vars, event_vars, history_vars>>

-----------------------------------------------------------------------------
(***************************************************************************)
(* The GPU                                                                 *)
(***************************************************************************)

Upcoming(s) == buffers[s][finished[s] + 1]

\* The wait a buffer carries besides the one for its predecessor.
Ready(b) == CASE b.kind = "wait"  -> signaled[b.on] >= b.value
              [] b.kind = "after" -> finished[b.on] >= b.value
              [] OTHER            -> TRUE

\* The stream's next buffer runs, well or in error, and advances the stream.
\* A signal below the event's value leaves the value alone.
Run(s) ==
  /\ finished[s] < Len(buffers[s])
  /\ Ready(Upcoming(s))
  /\ finished' = [finished EXCEPT ![s] = @ + 1]
  /\ IF Upcoming(s).kind = "record"
       THEN /\ signaled' = [signaled EXCEPT ![Upcoming(s).on] =
                              IF @ < Upcoming(s).value THEN Upcoming(s).value ELSE @]
            /\ reached' = reached \cup {<<Upcoming(s).on, Upcoming(s).value>>}
       ELSE UNCHANGED <<signaled, reached>>
  /\ \/ failed' = failed
     \/ Failures /\ failed' = [failed EXCEPT ![s] = TRUE]
  /\ UNCHANGED <<last_enqueued, submit, buffers, target, call, history_vars>>

-----------------------------------------------------------------------------
Continue(t) == Reserve(t) \/ Commit(t) \/ GiveBack(t) \/ Unblock(t)

Begin(t) ==
  \/ \E s \in Streams : Enqueue(t, s)
  \/ \E s \in Streams, e \in Events : RecordEvent(t, s, e) \/ WaitForEvent(t, s, e)
  \/ \E s, o \in Streams : CreateStreamDependency(t, s, o)
  \/ \E e \in Events : BlockHostForEvent(t, e)

Next == \/ \E t \in Threads : Begin(t) \/ Continue(t)
        \/ \E s \in Streams : Run(s)

Spec == Init /\ [][Next]_vars

\* A thread inside a call goes on and the GPU runs what is ready.
Fairness == /\ \A t \in Threads : WF_vars(Continue(t))
            /\ \A s \in Streams : WF_vars(Run(s))

FairSpec == Spec /\ Fairness

-----------------------------------------------------------------------------
(***************************************************************************)
(* Properties                                                              *)
(***************************************************************************)

\* A buffer's place in its stream is its number: at most one number is out
\* without a buffer, and it belongs to the holder of the submission lock.
PlacesMatchNumbers ==
  \A s \in Streams :
    /\ finished[s] <= Len(buffers[s])
    /\ Len(stamp[s]) = last_enqueued[s]
    /\ submit[s] = Nothing => last_enqueued[s] = Len(buffers[s])
    /\ submit[s] # Nothing => last_enqueued[s] = Len(buffers[s]) + 1
    /\ \A t \in Threads :
         submit[s] = t <=> call[t].step = "encoding" /\ call[t].stream = s

\* A dependency points back: the buffer it waits for had its number before the
\* waiting buffer had its own, unless that number was given back in between.
\* Hence no two streams wait for each other.
DependenciesPointBack ==
  \A s \in Streams : \A i \in 1..Len(buffers[s]) :
    LET b == buffers[s][i] IN
    b.kind = "after" /\ b.on \notin lost =>
      /\ b.value \in 1..Len(stamp[b.on])
      /\ i \in 1..Len(stamp[s])
      /\ stamp[b.on][b.value] < stamp[s][i]

\* Why they do: numbers are stamped in the order they are handed out, a call
\* reads the number it depends on before it takes its own, and the buffer it
\* commits carries both.
DependencyInv ==
  /\ PlacesMatchNumbers
  /\ \A s \in Streams : \A i \in 1..Len(stamp[s]) : stamp[s][i] < clock
  /\ \A t \in Threads :
       /\ call[t].step \in {"constructing", "encoding"}
       /\ call[t].buffer.kind = "after" /\ call[t].buffer.on \notin lost
       => call[t].buffer.value \in 1..Len(stamp[call[t].buffer.on])
  /\ \A t \in Threads :
       /\ call[t].step = "encoding"
       /\ call[t].buffer.kind = "after" /\ call[t].buffer.on \notin lost
       => stamp[call[t].buffer.on][call[t].buffer.value]
            < stamp[call[t].stream][Len(stamp[call[t].stream])]
  /\ DependenciesPointBack

\* A wait on an event lets nothing through before a record of the event with
\* its value or a later one has executed; and, unless the event had a second
\* recorder or a record that got no buffer, not before the very record it was
\* made for: the event is then a point in a stream's sequence.
WaitSeesItsRecord ==
  \A s \in Streams : \A i \in 1..finished[s] :
    LET b == buffers[s][i] IN
    b.kind = "wait" =>
      /\ \E v \in b.value..target[b.on] : <<b.on, v>> \in reached
      /\ b.on \notin shared \cup lost => <<b.on, b.value>> \in reached

\* GetEventStatus answers "complete" only when the last record has executed,
\* and with it, unless the event had a second recorder or a record that got no
\* buffer, every record before it.
CompleteMeansReached ==
  \A e \in Events : target[e] # 0 /\ signaled[e] >= target[e] =>
    /\ <<e, target[e]>> \in reached
    /\ e \notin shared \cup lost => \A v \in 1..target[e] : <<e, v>> \in reached

IsRecord(s, i, e) ==
  i \in 1..Len(buffers[s]) /\ buffers[s][i].kind = "record" /\ buffers[s][i].on = e

\* The record of e with the value v had no number at the moment n: it got one
\* later, or a call still has it.
RecordedLate(e, v, n) ==
  \/ \E t \in Recording(e) : call[t].buffer.value = v
  \/ \E r \in Streams : \E j \in 1..Len(buffers[r]) :
       IsRecord(r, j, e) /\ buffers[r][j].value = v /\ stamp[r][j] >= n

\* What may be waited for in vain from the moment n on: a number that was given
\* back, an event a record of which got no buffer, and a record that was made
\* in time but got its number only after the wait.
InVain(b, n) ==
  \/ b.on \in lost
  \/ b.kind = "wait" /\ RecordedLate(b.on, b.value, n)

Unfinished == {s \in Streams : finished[s] < Len(buffers[s])}

\* Somebody waits in vain: then what is behind may wait for ever.
SomeWaitInVain ==
  \/ \E s \in Unfinished : /\ ~Ready(Upcoming(s))
                            /\ InVain(Upcoming(s), stamp[s][finished[s] + 1])
  \/ \E t \in Threads : /\ call[t].step = "blocked" /\ InVain(call[t].buffer, clock)
                        /\ signaled[call[t].buffer.on] < call[t].buffer.value

\* No combination of events and dependencies stops a stream for good, two
\* recorders of an event included, unless somebody waits in vain.  (As the
\* numbers are bounded, all buffers run if and only if each of them does.)
EveryBufferRuns == Unfinished # {} ~> Unfinished = {} \/ SomeWaitInVain

\* A host that blocks on an event is let go, unless somebody waits in vain.
HostIsUnblocked(t) ==
  call[t].step = "blocked" ~> call[t].step # "blocked" \/ SomeWaitInVain

\* Every record of e, committed or under way, has a value the event has had.
RangeInv(e) ==
  /\ \A s \in Streams : \A i \in 1..Len(buffers[s]) : IsRecord(s, i, e) =>
       buffers[s][i].value \in 1..target[e]
  /\ \A t \in Recording(e) :
       /\ call[t].step \in {"constructing", "encoding"}
       /\ call[t].buffer.value \in 1..target[e]

\* No value of e is without its record, if none of them got no buffer: a call
\* has it, or it is in a stream.
PlacedInv(e) ==
  \A v \in 1..target[e] :
    \/ \E t \in Recording(e) : call[t].buffer.value = v
    \/ \E s \in Streams : \E i \in 1..Len(buffers[s]) :
         IsRecord(s, i, e) /\ buffers[s][i].value = v

\* With one recorder: the call that records e, of which there is one at most,
\* has the event's last value and is for the one stream e is recorded on...
RecorderInv(e) ==
  /\ \A t, u \in Recording(e) : t = u
  /\ \A t \in Recording(e) : /\ call[t].buffer.value = target[e]
                             /\ RecordedOn(e) \subseteq {call[t].stream}
  /\ \A s, r \in RecordedOn(e) : s = r

\* ...and the records of e are in that stream in the order of their values.
ValuesInv(e) ==
  /\ \A s \in Streams : \A i \in 1..Len(buffers[s]) :
       IsRecord(s, i, e) /\ Recording(e) # {} => buffers[s][i].value < target[e]
  /\ \A s \in Streams : \A i, j \in 1..Len(buffers[s]) :
       i < j /\ IsRecord(s, i, e) /\ IsRecord(s, j, e) =>
         buffers[s][i].value < buffers[s][j].value

\* The event's value is that of a record that has run, and none that has run is
\* above it.
SignalInv(e) ==
  /\ \A s \in Streams : \A i \in 1..finished[s] : IsRecord(s, i, e) =>
       /\ <<e, buffers[s][i].value>> \in reached
       /\ buffers[s][i].value <= signaled[e]
  /\ signaled[e] # 0 =>
       \E s \in Streams : \E i \in 1..finished[s] :
         IsRecord(s, i, e) /\ buffers[s][i].value = signaled[e]

\* Why an event is a point in a stream's sequence, while it has one recorder:
\* what is signalled comes after all that was recorded before.
EventInv ==
  /\ \A e \in Events : RangeInv(e) /\ SignalInv(e)
  /\ \A e \in Events \ lost : PlacedInv(e)
  /\ \A e \in Events \ shared : RecorderInv(e) /\ ValuesInv(e)
  /\ \A s \in Streams : finished[s] <= Len(buffers[s])
  /\ \A t \in Threads : call[t].buffer.kind = "wait" =>
       call[t].buffer.value \in 1..target[call[t].buffer.on]
  /\ \A s \in Streams : \A i \in 1..Len(buffers[s]) : buffers[s][i].kind = "wait" =>
       buffers[s][i].value \in 1..target[buffers[s][i].on]
  /\ WaitSeesItsRecord

\* Numbers are stamped in the order they are handed out, and a blocked host
\* waits for an event.
OrderInv ==
  /\ \A s \in Streams : \A i, j \in 1..Len(stamp[s]) :
       i < j => stamp[s][i] < stamp[s][j]
  /\ \A t \in Threads : call[t].step = "blocked" => call[t].buffer.kind = "wait"

\* Nobody waits for ever for want of a step that could be taken: a call that
\* holds a number has only to commit, else some stream's next buffer can run,
\* else all buffers have run and every host that blocks on an event may go;
\* or somebody waits in vain.
NothingStalls ==
  \/ \E t \in Threads : call[t].step = "encoding"
  \/ \E s \in Unfinished : Ready(Upcoming(s))
  \/ /\ Unfinished = {}
     /\ \A t \in Threads : call[t].step = "blocked" =>
          signaled[call[t].buffer.on] >= call[t].buffer.value
  \/ SomeWaitInVain

=============================================================================

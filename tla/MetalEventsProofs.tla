------------------------- MODULE MetalEventsProofs -------------------------
(***************************************************************************)
(* Proofs about the dependencies between streams, for every number of      *)
(* streams, events and threads and every bound.                            *)
(***************************************************************************)
EXTENDS MetalEvents, WellFoundedInduction, TLAPS

\* The buffers callers construct, and what a call tells of its thread.
LEMMA Constructed ==
  ASSUME NEW v \in Nat
  PROVE  /\ Work \in Buffers
         /\ \A e \in Events : Record(e, v) \in Buffers /\ Wait(e, v) \in Buffers
         /\ \A s \in Streams : After(s, v) \in Buffers
  BY DEF Work, Record, Wait, After, Buffers

\* The records the actions assign to a thread's call are calls.
LEMMA CallShapes ==
  /\ Idle \in Calls
  /\ \A s \in Streams, b \in Buffers, p \in {"constructing", "encoding"} :
       [step |-> p, stream |-> s, buffer |-> b] \in Calls
  /\ \A b \in Buffers :
       [step |-> "blocked", stream |-> Nothing, buffer |-> b] \in Calls
  BY DEF Calls, Idle

\* A call that constructs or encodes names its stream and its buffer, and going
\* on to encode changes nothing else.
LEMMA OpenCall ==
  ASSUME NEW c \in Calls, c.step \in {"constructing", "encoding"}
  PROVE  /\ c.stream \in Streams
         /\ c.buffer \in Buffers
         /\ [c EXCEPT !.step = "encoding"] =
              [step |-> "encoding", stream |-> c.stream, buffer |-> c.buffer]
  BY DEF Calls, Idle

\* The variables of the streams and events keep their types.  A number given
\* back is one that was handed out, since its holder has the submission lock.
LEMMA TypeStep == ASSUME TypeOK, PlacesMatchNumbers, [Next]_vars PROVE TypeOK'
<1> USE DEF TypeOK, stream_vars, event_vars, history_vars, order_vars, flaw_vars
<1>0. /\ \A s \in Streams : buffers[s] \in Seq(Buffers) /\ stamp[s] \in Seq(Nat)
      /\ \A t \in Threads : call[t] \in Calls
      /\ Idle \in Calls
  BY CallShapes
<1>1. ASSUME NEW t \in Threads, Begin(t) PROVE TypeOK'
  <2>1. ASSUME NEW s \in Streams, NEW b \in Buffers, Construct(t, s, b)
        PROVE  call' \in [Threads -> Calls]
    BY <2>1, CallShapes DEF Construct
  <2>2. ASSUME NEW s \in Streams, Enqueue(t, s) PROVE TypeOK'
    BY <2>1, <2>2, Constructed DEF Enqueue
  <2>3. ASSUME NEW s \in Streams, NEW e \in Events, RecordEvent(t, s, e)
        PROVE  TypeOK'
    <3>1. Record(e, target[e] + 1) \in Buffers
      BY Constructed
    <3> QED BY <2>1, <2>3, <3>1 DEF RecordEvent, NoteSecondRecorder
  <2>4. ASSUME NEW s \in Streams, NEW e \in Events, WaitForEvent(t, s, e)
        PROVE  TypeOK'
    BY <2>1, <2>4, Constructed DEF WaitForEvent
  <2>5. ASSUME NEW s \in Streams, NEW o \in Streams,
               CreateStreamDependency(t, s, o)
        PROVE  TypeOK'
    BY <2>1, <2>5, Constructed DEF CreateStreamDependency
  <2>6. ASSUME NEW e \in Events, BlockHostForEvent(t, e) PROVE TypeOK'
    <3>1. [step |-> "blocked", stream |-> Nothing, buffer |-> Wait(e, target[e])]
            \in Calls
      BY Constructed, CallShapes
    <3> QED BY <3>1, <2>6 DEF BlockHostForEvent
  <2> QED BY <1>1, <2>2, <2>3, <2>4, <2>5, <2>6 DEF Begin
<1>2. ASSUME NEW t \in Threads, Reserve(t) PROVE TypeOK'
  <2>0. call[t] \in Calls /\ call[t].step = "constructing"
    BY <1>0, <1>2 DEF Reserve
  <2>1. /\ call[t].stream \in Streams /\ call[t].buffer \in Buffers
        /\ [call[t] EXCEPT !.step = "encoding"] \in Calls
    <3> HIDE DEF TypeOK
    <3>1. call[t].stream \in Streams /\ call[t].buffer \in Buffers
      BY <2>0, OpenCall
    <3>2. [call[t] EXCEPT !.step = "encoding"] =
            [step |-> "encoding", stream |-> call[t].stream, buffer |-> call[t].buffer]
      BY <2>0, OpenCall
    <3> QED BY <3>1, <3>2, CallShapes
  <2>2. call' \in [Threads -> Calls]
    BY <2>1, <1>2 DEF Reserve
  <2>4. Append(stamp[call[t].stream], clock) \in Seq(Nat)
    BY <2>1, <1>0
  <2>5. stamp' \in [Streams -> Seq(Nat)]
    BY <1>2, <2>1, <2>4 DEF Reserve
  <2>6. /\ submit' \in [Streams -> Threads \cup {Nothing}]
        /\ last_enqueued' \in [Streams -> Nat] /\ clock' \in Nat
    BY <1>2, <2>1 DEF Reserve
  <2> QED BY <1>2, <2>2, <2>5, <2>6 DEF Reserve
<1>3. ASSUME NEW t \in Threads, Commit(t) PROVE TypeOK'
  <2>1. call[t].stream \in Streams /\ call[t].buffer \in Buffers
    BY <1>0, <1>3, OpenCall DEF Commit
  <2>2. Append(buffers[call[t].stream], call[t].buffer) \in Seq(Buffers)
    BY <2>1, <1>0
  <2>3. buffers' \in [Streams -> Seq(Buffers)]
    BY <1>3, <2>1, <2>2 DEF Commit
  <2>4. /\ submit' \in [Streams -> Threads \cup {Nothing}]
        /\ call' \in [Threads -> Calls]
    BY <1>0, <1>3, <2>1 DEF Commit
  <2> QED BY <1>3, <2>3, <2>4 DEF Commit
<1>4. ASSUME NEW t \in Threads, Unblock(t) PROVE TypeOK'
  BY <1>0, <1>4 DEF Unblock
<1>7. ASSUME NEW t \in Threads, GiveBack(t) PROVE TypeOK'
  <2> DEFINE s == call[t].stream
  <2>1. s \in Streams /\ call[t].step = "encoding"
    BY <1>0, <1>7, OpenCall DEF GiveBack
  <2>2. submit[s] = t /\ t # Nothing
    BY <2>1, NothingAssumption DEF PlacesMatchNumbers
  <2>3. last_enqueued[s] = Len(buffers[s]) + 1 /\ Len(stamp[s]) = last_enqueued[s]
    BY <2>1, <2>2 DEF PlacesMatchNumbers
  <2>4. last_enqueued[s] - 1 \in Nat /\ SubSeq(stamp[s], 1, Len(stamp[s]) - 1) \in Seq(Nat)
    <3>1. buffers[s] \in Seq(Buffers) /\ stamp[s] \in Seq(Nat)
      BY <1>0, <2>1
    <3>2. Len(buffers[s]) \in Nat
      BY <3>1
    <3>3. \A i \in 1..(Len(stamp[s]) - 1) : stamp[s][i] \in Nat
      BY SMTT(30), <3>1
    <3> QED BY <2>3, <3>1, <3>2, <3>3
  <2>5. /\ last_enqueued' = [last_enqueued EXCEPT ![s] = last_enqueued[s] - 1]
        /\ stamp' = [stamp EXCEPT ![s] = SubSeq(stamp[s], 1, Len(stamp[s]) - 1)]
        /\ submit' = [submit EXCEPT ![s] = Nothing]
        /\ call' = [call EXCEPT ![t] = Idle]
    BY <1>7, <2>1 DEF GiveBack
  <2> HIDE DEF s
  <2>6. /\ last_enqueued' \in [Streams -> Nat]
        /\ submit' \in [Streams -> Threads \cup {Nothing}]
        /\ call' \in [Threads -> Calls]
    BY <1>0, <2>4, <2>5
  <2>7. stamp' \in [Streams -> Seq(Nat)]
    BY <2>4, <2>5
  <2> QED BY <1>7, <2>6, <2>7 DEF GiveBack
<1>5. ASSUME NEW s \in Streams, Run(s) PROVE TypeOK'
  <2>1. Upcoming(s) \in Buffers
    <3>1. finished[s] \in Nat /\ finished[s] < Len(buffers[s])
      BY <1>5 DEF Run
    <3>2. finished[s] + 1 \in 1..Len(buffers[s])
      BY <3>1, <1>0
    <3> QED BY <3>2, <1>0 DEF Upcoming
  <2>2. Upcoming(s).kind = "record" =>
          Upcoming(s).on \in Events /\ Upcoming(s).value \in Nat
    BY <2>1 DEF Buffers, Work
  <2>3. /\ finished' = [finished EXCEPT ![s] = @ + 1]
        /\ failed' = failed \/ failed' = [failed EXCEPT ![s] = TRUE]
        /\ UNCHANGED <<last_enqueued, submit, buffers, target, call, clock, stamp,
                      shared, lost>>
    BY <1>5 DEF Run
  <2>4. finished' \in [Streams -> Nat] /\ failed' \in [Streams -> BOOLEAN]
    <3>1. finished' \in [Streams -> Nat]
      BY <2>3
    <3>2. failed' \in [Streams -> BOOLEAN]
      BY <2>3
    <3> QED BY <3>1, <3>2
  <2>5. signaled' \in [Events -> Nat] /\ reached' \subseteq Events \X Nat
    <3>1. CASE Upcoming(s).kind = "record"
      <4> DEFINE e == Upcoming(s).on
                 v == Upcoming(s).value
      <4>1. e \in Events /\ v \in Nat
        BY <2>2, <3>1
      <4>2. /\ signaled' = [signaled EXCEPT ![e] = IF @ < v THEN v ELSE @]
            /\ reached' = reached \cup {<<e, v>>}
        BY <1>5, <3>1 DEF Run
      <4> HIDE DEF e, v
      <4> QED BY <4>1, <4>2
    <3>2. CASE Upcoming(s).kind # "record"
      BY <1>5, <3>2 DEF Run
    <3> QED BY <3>1, <3>2
  <2> QED BY <2>3, <2>4, <2>5
<1>6. CASE UNCHANGED vars
  BY <1>6 DEF vars
<1> QED BY <1>1, <1>2, <1>3, <1>4, <1>5, <1>6, <1>7 DEF Next, Continue

-----------------------------------------------------------------------------
\* What appending a buffer or a stamp does to a sequence.
LEMMA AppendFacts ==
  ASSUME NEW S, NEW q \in Seq(S), NEW e \in S
  PROVE  /\ Len(q) \in Nat
         /\ Len(Append(q, e)) = Len(q) + 1
         /\ \A i \in 1..Len(q) : Append(q, e)[i] = q[i]
         /\ Append(q, e)[Len(q) + 1] = e
         /\ \A i \in 1..Len(Append(q, e)) : i \in 1..Len(q) \/ i = Len(q) + 1
  OBVIOUS

\* An open dependency names a stream.
LEMMA AfterNamesStream ==
  ASSUME NEW b \in Buffers, b.kind = "after"
  PROVE  b.on \in Streams /\ b.value \in Nat
  BY DEF Buffers, Work

\* Which parts of the state the numbering of a stream is about, and their types.
LEMMA PlaceTypes ==
  ASSUME TypeOK
  PROVE  /\ \A s \in Streams : /\ buffers[s] \in Seq(Buffers) /\ Len(buffers[s]) \in Nat
                               /\ stamp[s] \in Seq(Nat) /\ Len(stamp[s]) \in Nat
                               /\ finished[s] \in Nat /\ last_enqueued[s] \in Nat
                               /\ submit[s] \in Threads \cup {Nothing}
         /\ \A t \in Threads : call[t] \in Calls
         /\ clock \in Nat
         /\ Nothing \notin Threads /\ DOMAIN call = Threads
<1>1. \A s \in Streams : buffers[s] \in Seq(Buffers) /\ stamp[s] \in Seq(Nat)
  BY DEF TypeOK
<1>2. ASSUME NEW s \in Streams PROVE Len(buffers[s]) \in Nat /\ Len(stamp[s]) \in Nat
  <2>1. buffers[s] \in Seq(Buffers) /\ stamp[s] \in Seq(Nat)
    BY <1>1
  <2> QED BY <2>1
<1> QED BY <1>1, <1>2, NothingAssumption DEF TypeOK

\* A call that takes or leaves a stream's lock leaves the others as they were,
\* and the one it is in numbered as its places are.
LEMMA PlacesOfOne ==
  ASSUME TypeOK, PlacesMatchNumbers, NEW t \in Threads, NEW s \in Streams,
         NEW c, call' = [call EXCEPT ![t] = c],
         NEW holder, submit' = [submit EXCEPT ![s] = holder],
         \/ holder = t /\ c.step = "encoding" /\ c.stream = s
         \/ holder = Nothing /\ c.step # "encoding",
         submit[s] \in {t, Nothing},
         call[t].step = "encoding" => call[t].stream = s,
         UNCHANGED finished,
         \A r \in Streams : r # s =>
           /\ buffers'[r] = buffers[r] /\ stamp'[r] = stamp[r]
           /\ last_enqueued'[r] = last_enqueued[r],
         finished[s] <= Len(buffers'[s]),
         Len(stamp'[s]) = last_enqueued'[s],
         holder = t => last_enqueued'[s] = Len(buffers'[s]) + 1,
         holder = Nothing => last_enqueued'[s] = Len(buffers'[s])
  PROVE  PlacesMatchNumbers'
<1>1. /\ \A u \in Threads : u # t => call'[u] = call[u]
      /\ call'[t] = c
      /\ \A r \in Streams : r # s => submit'[r] = submit[r]
      /\ submit'[s] = holder
  BY PlaceTypes DEF TypeOK
<1>2. t # Nothing
  BY NothingAssumption
<1>3. ASSUME NEW r \in Streams, NEW u \in Threads
      PROVE  submit'[r] = u <=> call'[u].step = "encoding" /\ call'[u].stream = r
  <2>1. submit[r] = u <=> call[u].step = "encoding" /\ call[u].stream = r
    BY DEF PlacesMatchNumbers
  <2>2. u # Nothing
    BY NothingAssumption
  <2>3. CASE u = t
    BY <1>1, <1>2, <2>1, <2>3
  <2>4. CASE u # t
    <3>1. call'[u] = call[u]
      BY <1>1, <2>4
    <3>2. r = s => submit[r] # u /\ submit'[r] # u
      BY <1>1, <2>2, <2>4
    <3> QED BY <1>1, <2>1, <3>1, <3>2
  <2> QED BY <2>3, <2>4
<1>4. ASSUME NEW r \in Streams
      PROVE  /\ finished'[r] <= Len(buffers'[r])
             /\ Len(stamp'[r]) = last_enqueued'[r]
             /\ submit'[r] = Nothing => last_enqueued'[r] = Len(buffers'[r])
             /\ submit'[r] # Nothing => last_enqueued'[r] = Len(buffers'[r]) + 1
  <2>1. CASE r = s
    BY <1>1, <1>2, <2>1
  <2>2. CASE r # s
    <3>1. /\ buffers'[r] = buffers[r] /\ stamp'[r] = stamp[r]
          /\ last_enqueued'[r] = last_enqueued[r] /\ submit'[r] = submit[r]
          /\ finished'[r] = finished[r]
      BY <1>1, <2>2
    <3> QED BY <3>1 DEF PlacesMatchNumbers
  <2> QED BY <2>1, <2>2
<1> QED BY <1>3, <1>4 DEF PlacesMatchNumbers

\* A call that is not encoding, before or after, does not touch the numbering.
LEMMA PlacesUntouched ==
  ASSUME TypeOK, PlacesMatchNumbers, NEW t \in Threads, NEW c,
         call' = [call EXCEPT ![t] = c],
         call[t].step # "encoding", c.step # "encoding",
         UNCHANGED <<last_enqueued, submit, buffers, finished, stamp>>
  PROVE  PlacesMatchNumbers'
<1>1. \A u \in Threads : call'[u] = IF u = t THEN c ELSE call[u]
  BY PlaceTypes
<1>2. \A r \in Streams, u \in Threads :
        (call'[u].step = "encoding" /\ call'[u].stream = r)
          <=> (call[u].step = "encoding" /\ call[u].stream = r)
  BY <1>1
<1> QED BY <1>2 DEF PlacesMatchNumbers

\* Every step keeps the places of a stream's buffers and their numbers
\* together: a number is out without a buffer only while its holder has the
\* submission lock, and is given back before the lock is.
LEMMA PlacesStep ==
  ASSUME TypeOK, PlacesMatchNumbers, [Next]_vars PROVE PlacesMatchNumbers'
<1> USE DEF stream_vars, event_vars, history_vars, order_vars, flaw_vars
<1>1. ASSUME NEW t \in Threads, Begin(t) PROVE PlacesMatchNumbers'
  <2>1. Idle.step # "encoding"
    BY DEF Idle
  <2>2. ASSUME NEW s \in Streams, NEW b, Construct(t, s, b), call[t] = Idle,
               UNCHANGED <<stream_vars, order_vars>>
        PROVE  PlacesMatchNumbers'
    <3> DEFINE c == [step |-> "constructing", stream |-> s, buffer |-> b]
    <3>1. c.step # "encoding" /\ call' = [call EXCEPT ![t] = c]
      BY <2>2 DEF Construct
    <3> HIDE DEF c
    <3> QED BY <2>1, <2>2, <3>1, PlacesUntouched
  <2>3. ASSUME NEW e \in Events, BlockHostForEvent(t, e) PROVE PlacesMatchNumbers'
    <3> DEFINE c == [step |-> "blocked", stream |-> Nothing,
                     buffer |-> Wait(e, target[e])]
    <3>1. c.step # "encoding" /\ call' = [call EXCEPT ![t] = c]
      BY <2>3 DEF BlockHostForEvent
    <3> HIDE DEF c
    <3> QED BY <2>1, <2>3, <3>1, PlacesUntouched DEF BlockHostForEvent
  <2> QED BY <1>1, <2>2, <2>3
        DEF Begin, Enqueue, RecordEvent, WaitForEvent, CreateStreamDependency
<1>2. ASSUME NEW t \in Threads, Unblock(t) PROVE PlacesMatchNumbers'
  <2>1. Idle.step # "encoding"
    BY DEF Idle
  <2> QED BY <1>2, <2>1, PlacesUntouched DEF Unblock
<1>3. ASSUME NEW t \in Threads, Reserve(t) PROVE PlacesMatchNumbers'
  <2> DEFINE s == call[t].stream
             c == [step |-> "encoding", stream |-> s, buffer |-> call[t].buffer]
  <2>1. /\ s \in Streams /\ call[t].step = "constructing"
        /\ [call[t] EXCEPT !.step = "encoding"] = c
    BY <1>3, PlaceTypes, OpenCall DEF Reserve
  <2>2. /\ submit[s] = Nothing
        /\ last_enqueued' = [last_enqueued EXCEPT ![s] = last_enqueued[s] + 1]
        /\ submit' = [submit EXCEPT ![s] = t]
        /\ stamp' = [stamp EXCEPT ![s] = Append(stamp[s], clock)]
        /\ call' = [call EXCEPT ![t] = c]
        /\ UNCHANGED <<buffers, finished>>
        /\ c.step = "encoding" /\ c.stream = s
    BY <1>3, <2>1 DEF Reserve
  <2> HIDE DEF s, c
  <2>3. /\ \A r \in Streams : r # s =>
             stamp'[r] = stamp[r] /\ last_enqueued'[r] = last_enqueued[r]
        /\ stamp'[s] = Append(stamp[s], clock)
        /\ last_enqueued'[s] = last_enqueued[s] + 1
    BY <2>1, <2>2 DEF TypeOK
  <2>4. Len(stamp'[s]) = Len(stamp[s]) + 1
    BY <2>1, <2>3, PlaceTypes, AppendFacts
  <2>5. /\ last_enqueued[s] = Len(buffers[s]) /\ Len(stamp[s]) = last_enqueued[s]
        /\ finished[s] <= Len(buffers[s])
    BY <2>1, <2>2 DEF PlacesMatchNumbers
  <2>6. /\ \A r \in Streams : r # s =>
             /\ buffers'[r] = buffers[r] /\ stamp'[r] = stamp[r]
             /\ last_enqueued'[r] = last_enqueued[r]
        /\ finished[s] <= Len(buffers'[s])
        /\ Len(stamp'[s]) = last_enqueued'[s]
        /\ last_enqueued'[s] = Len(buffers'[s]) + 1
        /\ finished' = finished
        /\ call[t].step # "encoding" /\ t # Nothing
    BY <2>1, <2>2, <2>3, <2>4, <2>5, PlaceTypes
  <2> QED BY <2>1, <2>2, <2>6, PlacesOfOne
\* Who encodes has the lock of its stream, and with it one number more than the
\* stream has places.
<1>4. ASSUME NEW t \in Threads, call[t].step = "encoding"
      PROVE  /\ call[t].stream \in Streams
             /\ submit[call[t].stream] = t
             /\ last_enqueued[call[t].stream] = Len(buffers[call[t].stream]) + 1
             /\ Len(stamp[call[t].stream]) = last_enqueued[call[t].stream]
             /\ finished[call[t].stream] <= Len(buffers[call[t].stream])
  <2>1. call[t].stream \in Streams
    BY <1>4, PlaceTypes, OpenCall
  <2>2. submit[call[t].stream] = t /\ t # Nothing
    BY <1>4, <2>1, NothingAssumption DEF PlacesMatchNumbers
  <2> QED BY <2>1, <2>2 DEF PlacesMatchNumbers
<1>5. ASSUME NEW t \in Threads, Commit(t) PROVE PlacesMatchNumbers'
  <2> DEFINE s == call[t].stream
             b == call[t].buffer
  <2>1. /\ s \in Streams /\ submit[s] = t
        /\ last_enqueued[s] = Len(buffers[s]) + 1 /\ Len(stamp[s]) = last_enqueued[s]
        /\ finished[s] <= Len(buffers[s])
    BY <1>4, <1>5 DEF Commit
  <2>2. /\ buffers' = [buffers EXCEPT ![s] = Append(buffers[s], b)]
        /\ submit' = [submit EXCEPT ![s] = Nothing]
        /\ call' = [call EXCEPT ![t] = Idle]
        /\ UNCHANGED <<last_enqueued, finished, stamp>>
        /\ call[t].step = "encoding" => call[t].stream = s
        /\ b \in Buffers
    BY <1>5, PlaceTypes, OpenCall DEF Commit
  <2> HIDE DEF s, b
  <2>3. /\ \A r \in Streams : r # s => buffers'[r] = buffers[r]
        /\ buffers'[s] = Append(buffers[s], b)
    BY <2>1, <2>2 DEF TypeOK
  <2>4. Len(buffers'[s]) = Len(buffers[s]) + 1 /\ Len(buffers[s]) \in Nat
    BY <2>1, <2>2, <2>3, PlaceTypes, AppendFacts
  <2>5. Idle.step # "encoding" /\ t # Nothing
    BY NothingAssumption DEF Idle
  <2>6. finished[s] <= Len(buffers'[s])
    BY <2>1, <2>4, PlaceTypes
  <2>7. /\ \A r \in Streams : r # s =>
             /\ buffers'[r] = buffers[r] /\ stamp'[r] = stamp[r]
             /\ last_enqueued'[r] = last_enqueued[r]
        /\ Len(stamp'[s]) = last_enqueued'[s]
        /\ last_enqueued'[s] = Len(buffers'[s])
        /\ finished' = finished
    BY <2>1, <2>2, <2>3, <2>4, PlaceTypes
  <2> QED BY <2>1, <2>2, <2>5, <2>6, <2>7, PlacesOfOne
<1>6. ASSUME NEW t \in Threads, GiveBack(t) PROVE PlacesMatchNumbers'
  <2> DEFINE s == call[t].stream
  <2>1. /\ s \in Streams /\ submit[s] = t
        /\ last_enqueued[s] = Len(buffers[s]) + 1 /\ Len(stamp[s]) = last_enqueued[s]
        /\ finished[s] <= Len(buffers[s])
    BY <1>4, <1>6 DEF GiveBack
  <2>2. /\ last_enqueued' = [last_enqueued EXCEPT ![s] = last_enqueued[s] - 1]
        /\ stamp' = [stamp EXCEPT ![s] = SubSeq(stamp[s], 1, Len(stamp[s]) - 1)]
        /\ submit' = [submit EXCEPT ![s] = Nothing]
        /\ call' = [call EXCEPT ![t] = Idle]
        /\ UNCHANGED <<buffers, finished>>
        /\ call[t].step = "encoding" => call[t].stream = s
    BY <1>6 DEF GiveBack
  <2> HIDE DEF s
  <2>3. /\ \A r \in Streams : r # s =>
             stamp'[r] = stamp[r] /\ last_enqueued'[r] = last_enqueued[r]
        /\ stamp'[s] = SubSeq(stamp[s], 1, Len(stamp[s]) - 1)
        /\ last_enqueued'[s] = last_enqueued[s] - 1
    BY <2>1, <2>2 DEF TypeOK
  <2>4. Len(buffers[s]) \in Nat /\ stamp[s] \in Seq(Nat)
    BY <2>1, PlaceTypes
  <2>5. Len(stamp'[s]) = last_enqueued'[s] /\ last_enqueued'[s] = Len(buffers'[s])
    BY <2>1, <2>2, <2>3, <2>4
  <2>6. Idle.step # "encoding" /\ t # Nothing
    BY NothingAssumption DEF Idle
  <2>7. /\ \A r \in Streams : r # s =>
             /\ buffers'[r] = buffers[r] /\ stamp'[r] = stamp[r]
             /\ last_enqueued'[r] = last_enqueued[r]
        /\ finished[s] <= Len(buffers'[s])
        /\ finished' = finished
    BY <2>1, <2>2, <2>3
  <2> QED BY <2>1, <2>2, <2>5, <2>6, <2>7, PlacesOfOne
<1>7. ASSUME NEW s \in Streams, Run(s) PROVE PlacesMatchNumbers'
  <2>1. /\ UNCHANGED <<last_enqueued, submit, buffers, call, stamp>>
        /\ finished' = [finished EXCEPT ![s] = finished[s] + 1]
        /\ finished[s] < Len(buffers[s])
    BY <1>7 DEF Run
  <2>2. \A r \in Streams : finished[r] <= Len(buffers[r])
    BY DEF PlacesMatchNumbers
  <2>3. \A r \in Streams : finished'[r] <= Len(buffers[r])
    BY <2>1, <2>2, PlaceTypes DEF TypeOK
  <2> QED BY <2>1, <2>3 DEF PlacesMatchNumbers
<1>8. CASE UNCHANGED vars
  BY <1>8 DEF vars, PlacesMatchNumbers
<1> QED BY <1>1, <1>2, <1>3, <1>5, <1>6, <1>7, <1>8 DEF Next, Continue

\* No number is out and no place taken at the start.
LEMMA PlacesInit == Init => PlacesMatchNumbers
<1> SUFFICES ASSUME Init PROVE PlacesMatchNumbers
  OBVIOUS
<1>1. /\ \A s \in Streams : /\ finished[s] = 0 /\ last_enqueued[s] = 0
                            /\ Len(buffers[s]) = 0 /\ Len(stamp[s]) = 0
                            /\ submit[s] = Nothing
      /\ \A t \in Threads : call[t].step # "encoding" /\ t # Nothing
  BY NothingAssumption DEF Init, Idle
<1>2. \A s \in Streams, t \in Threads :
        submit[s] = t <=> call[t].step = "encoding" /\ call[t].stream = s
  BY <1>1
<1>3. ASSUME NEW s \in Streams PROVE finished[s] <= Len(buffers[s])
  <2>1. finished[s] = 0 /\ Len(buffers[s]) = 0
    BY <1>1
  <2> HIDE <1>1
  <2> QED BY <2>1
<1> QED BY <1>1, <1>2, <1>3 DEF PlacesMatchNumbers

\* The two facts need each other: a number is given back only if it was handed
\* out, which the places of the stream tell.
LEMMA TypesAndPlaces == Spec => [](TypeOK /\ PlacesMatchNumbers)
<1>1. Init => TypeOK
  <2>1. << >> \in Seq(Buffers) /\ << >> \in Seq(Nat)
    OBVIOUS
  <2> QED BY <2>1, CallShapes DEF Init, TypeOK
<1>2. TypeOK /\ PlacesMatchNumbers /\ [Next]_vars => TypeOK' /\ PlacesMatchNumbers'
  BY TypeStep, PlacesStep
<1> QED BY <1>1, <1>2, PlacesInit, PTL DEF Spec

\* Type correctness, also when a command queue returns no buffer: numbers,
\* places and event values are those RecordEvent, WaitForEvent and
\* OrderedCommandBuffer compute.
THEOREM TypeCorrect == Spec => []TypeOK
BY TypesAndPlaces, PTL

\* A buffer's number is its place in its stream, also after numbers were given
\* back: OrderedCommandBuffer holds submit from the number to the commit.
THEOREM PlacesMatchNumbersHolds == Spec => []PlacesMatchNumbers
BY TypesAndPlaces, PTL

\* Every step keeps the numbering of each stream and the order in which
\* dependencies were read and numbers handed out (CreateStreamDependency).
LEMMA DependencyInvStep ==
  ASSUME TypeOK, TypeOK', DependencyInv, [Next]_vars
  PROVE  DependencyInv'
<1> USE DEF stream_vars, event_vars, history_vars, order_vars, flaw_vars
<1>0. /\ \A s \in Streams :
           /\ buffers[s] \in Seq(Buffers) /\ Len(buffers[s]) \in Nat
           /\ stamp[s] \in Seq(Nat) /\ Len(stamp[s]) \in Nat
           /\ \A i \in 1..Len(stamp[s]) : stamp[s][i] \in Nat
           /\ \A i \in 1..Len(buffers[s]) : buffers[s][i] \in Buffers
           /\ submit[s] \in Threads \cup {Nothing}
           /\ finished[s] \in Nat /\ last_enqueued[s] \in Nat
      /\ \A t \in Threads : call[t] \in Calls
      /\ clock \in Nat
      /\ Nothing \notin Threads
      /\ DOMAIN call = Threads
  <2>1. /\ \A s \in Streams : buffers[s] \in Seq(Buffers) /\ stamp[s] \in Seq(Nat)
        /\ \A t \in Threads : call[t] \in Calls
    BY DEF TypeOK
  <2>2. \A s \in Streams :
          /\ Len(buffers[s]) \in Nat /\ Len(stamp[s]) \in Nat
          /\ \A i \in 1..Len(stamp[s]) : stamp[s][i] \in Nat
          /\ \A i \in 1..Len(buffers[s]) : buffers[s][i] \in Buffers
    BY <2>1
  <2> QED BY <2>1, <2>2, NothingAssumption DEF TypeOK
<1>9. PlacesMatchNumbers'
  BY PlacesStep DEF DependencyInv
\* A call begins: it may hold a number another stream has reached.
<1>1. ASSUME NEW t \in Threads, NEW c \in Calls, call[t].step # "encoding",
             c.step # "encoding", call' = [call EXCEPT ![t] = c],
             c.step = "constructing" /\ c.buffer.kind = "after" =>
               c.buffer.value \in 1..Len(stamp[c.buffer.on]),
             UNCHANGED <<stream_vars, order_vars, lost>>
      PROVE  DependencyInv'
  <2>1. \A u \in Threads : call'[u] = IF u = t THEN c ELSE call[u]
    BY <1>0, <1>1
  <2>3. DependenciesPointBack'
    BY <1>1 DEF DependencyInv, DependenciesPointBack
  <2> QED BY <1>1, <2>1, <1>9, <2>3 DEF DependencyInv
<1>2. ASSUME NEW t \in Threads, Begin(t) PROVE DependencyInv'
  <2>0. ASSUME NEW s \in Streams, NEW b \in Buffers, Construct(t, s, b),
               call[t] = Idle, UNCHANGED <<stream_vars, order_vars, lost>>,
               b.kind = "after" => b.value \in 1..Len(stamp[b.on])
        PROVE  DependencyInv'
    <3> DEFINE c == [step |-> "constructing", stream |-> s, buffer |-> b]
    <3>1. c \in Calls
      BY CallShapes
    <3>2. c.step = "constructing" /\ c.buffer = b
      OBVIOUS
    <3>3. call[t].step # "encoding" /\ call' = [call EXCEPT ![t] = c]
      BY <2>0 DEF Construct, Idle
    <3> HIDE DEF c
    <3> QED BY <1>1, <2>0, <3>1, <3>2, <3>3
  <2>1. ASSUME NEW s \in Streams, Enqueue(t, s) PROVE DependencyInv'
    <3>1. Work \in Buffers /\ Work.kind # "after"
      BY Constructed DEF Work
    <3> QED BY <2>0, <2>1, <3>1 DEF Enqueue
  <2>2. ASSUME NEW s \in Streams, NEW e \in Events, RecordEvent(t, s, e)
        PROVE  DependencyInv'
    <3>1. target[e] \in Nat
      BY DEF TypeOK
    <3>2. /\ Record(e, target[e] + 1) \in Buffers
          /\ Record(e, target[e] + 1).kind # "after"
      BY <3>1, Constructed DEF Record
    <3> QED BY <2>0, <2>2, <3>2 DEF RecordEvent
  <2>3. ASSUME NEW s \in Streams, NEW e \in Events, WaitForEvent(t, s, e)
        PROVE  DependencyInv'
    <3>1. target[e] \in Nat
      BY DEF TypeOK
    <3>2. Wait(e, target[e]) \in Buffers /\ Wait(e, target[e]).kind # "after"
      BY <3>1, Constructed DEF Wait
    <3> QED BY <2>0, <2>3, <3>2 DEF WaitForEvent
  <2>4. ASSUME NEW s \in Streams, NEW o \in Streams,
               CreateStreamDependency(t, s, o)
        PROVE  DependencyInv'
    <3>1. /\ last_enqueued[o] \in Nat /\ last_enqueued[o] # 0
          /\ last_enqueued[o] = Len(stamp[o])
      BY <1>0, <2>4 DEF CreateStreamDependency, DependencyInv, PlacesMatchNumbers
    <3>2. last_enqueued[o] \in 1..Len(stamp[o])
      BY <3>1
    <3>3. /\ After(o, last_enqueued[o]) \in Buffers
          /\ After(o, last_enqueued[o]).value = last_enqueued[o]
          /\ After(o, last_enqueued[o]).on = o
      BY <3>1, Constructed DEF After
    <3> QED BY <2>0, <2>4, <3>2, <3>3 DEF CreateStreamDependency
  <2>5. ASSUME NEW e \in Events, BlockHostForEvent(t, e) PROVE DependencyInv'
    <3> DEFINE c == [step |-> "blocked", stream |-> Nothing,
                     buffer |-> Wait(e, target[e])]
    <3>1. target[e] \in Nat
      BY DEF TypeOK
    <3>2. c \in Calls
      BY <3>1, Constructed, CallShapes
    <3>3. c.step = "blocked"
      OBVIOUS
    <3>4. call[t].step # "encoding" /\ call' = [call EXCEPT ![t] = c]
      BY <2>5 DEF BlockHostForEvent, Idle
    <3> HIDE DEF c
    <3> QED BY <1>1, <2>5, <3>2, <3>3, <3>4 DEF BlockHostForEvent
  <2> QED BY <1>2, <2>1, <2>2, <2>3, <2>4, <2>5 DEF Begin
<1>3. ASSUME NEW t \in Threads, Unblock(t) PROVE DependencyInv'
  <2>1. Idle \in Calls /\ Idle.step = "idle"
    BY CallShapes DEF Idle
  <2> QED BY <1>1, <1>3, <2>1 DEF Unblock
\* A number is handed out: its stamp is later than every other.
<1>4. ASSUME NEW t \in Threads, Reserve(t) PROVE DependencyInv'
  <2> DEFINE s == call[t].stream
             b == call[t].buffer
             c == [step |-> "encoding", stream |-> s, buffer |-> b]
  <2>1. /\ s \in Streams /\ b \in Buffers /\ call[t].step = "constructing"
        /\ [call[t] EXCEPT !.step = "encoding"] = c
    BY <1>0, <1>4, OpenCall DEF Reserve
  <2>2. /\ submit[s] = Nothing
        /\ last_enqueued' = [last_enqueued EXCEPT ![s] = @ + 1]
        /\ submit' = [submit EXCEPT ![s] = t]
        /\ stamp' = [stamp EXCEPT ![s] = Append(stamp[s], clock)]
        /\ call' = [call EXCEPT ![t] = c]
        /\ clock' = clock + 1
        /\ UNCHANGED <<buffers, finished, lost>>
    BY <1>0, <1>4, <2>1 DEF Reserve
  <2>3. /\ \A u \in Threads : u # t => call'[u] = call[u]
        /\ call'[t] = c
        /\ c.step = "encoding" /\ c.stream = s /\ c.buffer = b
    BY <1>0, <2>2
  <2>4. /\ \A r \in Streams : r # s => /\ stamp'[r] = stamp[r]
                                       /\ submit'[r] = submit[r]
                                       /\ last_enqueued'[r] = last_enqueued[r]
        /\ stamp'[s] = Append(stamp[s], clock)
        /\ submit'[s] = t
        /\ last_enqueued'[s] = last_enqueued[s] + 1
    BY <2>1, <2>2 DEF TypeOK
  <2> HIDE DEF s, b, c
  <2>5. /\ Len(stamp'[s]) = Len(stamp[s]) + 1
        /\ Len(stamp[s]) \in Nat
        /\ \A i \in 1..Len(stamp[s]) : stamp'[s][i] = stamp[s][i]
        /\ stamp'[s][Len(stamp[s]) + 1] = clock
        /\ \A i \in 1..Len(stamp'[s]) : i \in 1..Len(stamp[s]) \/ i = Len(stamp[s]) + 1
    <3>1. stamp[s] \in Seq(Nat) /\ clock \in Nat
      BY <1>0, <2>1
    <3> QED BY <3>1, <2>4, AppendFacts
  <2>6. ASSUME NEW r \in Streams, NEW i \in 1..Len(stamp[r])
        PROVE  i \in 1..Len(stamp'[r]) /\ stamp'[r][i] = stamp[r][i]
    <3>1. r # s => stamp'[r] = stamp[r]
      BY <2>4
    <3>2. r = s => i \in 1..Len(stamp[s])
      OBVIOUS
    <3> QED BY <2>5, <3>1, <3>2
  <2>8. ASSUME NEW r \in Streams, NEW i \in 1..Len(stamp'[r])
        PROVE  stamp'[r][i] < clock'
    <3>1. CASE i \in 1..Len(stamp[r])
      <4>1. stamp[r][i] < clock /\ stamp[r][i] \in Nat
        BY <1>0, <3>1 DEF DependencyInv
      <4> QED BY <1>0, <2>2, <2>6, <3>1, <4>1
    <3>2. CASE i \notin 1..Len(stamp[r])
      <4>1. r = s
        BY <2>4, <3>2
      <4>2. stamp'[r][i] = clock
        BY <2>5, <3>2, <4>1
      <4> QED BY <1>0, <2>2, <4>2
    <3> QED BY <3>1, <3>2
  <2>9. ASSUME NEW u \in Threads,
               call'[u].step \in {"constructing", "encoding"},
               call'[u].buffer.kind = "after", call'[u].buffer.on \notin lost
        PROVE  /\ call'[u].buffer = call[u].buffer
               /\ call'[u].buffer.on \in Streams
               /\ call'[u].buffer.value \in 1..Len(stamp[call'[u].buffer.on])
    <3>1. call[u].step \in {"constructing", "encoding"} /\ call'[u].buffer = call[u].buffer
      BY <2>1, <2>3, <2>9 DEF b
    <3>2. call[u].buffer \in Buffers
      BY <1>0, <3>1, OpenCall
    <3>3. call[u].buffer.on \in Streams
      BY <3>1, <3>2, <2>9, AfterNamesStream
    <3>4. call[u].buffer.value \in 1..Len(stamp[call[u].buffer.on])
      BY <3>1, <2>9 DEF DependencyInv
    <3> QED BY <3>1, <3>3, <3>4
  <2>10. ASSUME NEW u \in Threads,
                call'[u].step = "encoding", call'[u].buffer.kind = "after",
                call'[u].buffer.on \notin lost
         PROVE  stamp'[call'[u].buffer.on][call'[u].buffer.value]
                  < stamp'[call'[u].stream][Len(stamp'[call'[u].stream])]
    <3> DEFINE o == call'[u].buffer.on
               v == call'[u].buffer.value
    <3>1. o \in Streams /\ v \in 1..Len(stamp[o])
      BY <2>9, <2>10
    <3>2. stamp'[o][v] = stamp[o][v]
      BY <2>6, <3>1
    <3> HIDE DEF o, v
    <3>3. CASE u = t
      <4>1. call'[u].stream = s
        BY <2>3, <3>3
      <4>2. stamp[o][v] < clock
        BY <3>1 DEF DependencyInv
      <4> QED BY <2>5, <3>2, <4>1, <4>2 DEF o, v
    <3>4. CASE u # t
      <4> DEFINE r == call[u].stream
      <4>1. call'[u] = call[u]
        BY <2>3, <3>4
      <4>2. r \in Streams
        BY <1>0, <2>10, <4>1, OpenCall
      <4>3. submit[r] = u
        BY <2>10, <4>1, <4>2 DEF DependencyInv, PlacesMatchNumbers
      <4>4. r # s
        BY <1>0, <2>2, <4>3
      <4>5. stamp'[r] = stamp[r]
        BY <2>4, <4>2, <4>4
      <4>6. stamp[o][v] < stamp[r][Len(stamp[r])]
        BY <2>10, <4>1 DEF DependencyInv, o, v
      <4> QED BY <3>2, <4>1, <4>5, <4>6 DEF o, v
    <3> QED BY <3>3, <3>4
  <2>11. DependenciesPointBack'
    <3> SUFFICES ASSUME NEW r \in Streams, NEW i \in 1..Len(buffers[r]),
                        buffers[r][i].kind = "after", buffers[r][i].on \notin lost
                 PROVE  /\ buffers[r][i].value \in 1..Len(stamp'[buffers[r][i].on])
                        /\ i \in 1..Len(stamp'[r])
                        /\ stamp'[buffers[r][i].on][buffers[r][i].value] < stamp'[r][i]
      BY <2>2 DEF DependenciesPointBack
    <3> DEFINE o == buffers[r][i].on
               v == buffers[r][i].value
    <3>1. o \in Streams
      BY <1>0, AfterNamesStream
    <3>2. v \in 1..Len(stamp[o]) /\ i \in 1..Len(stamp[r]) /\ stamp[o][v] < stamp[r][i]
      BY DEF DependencyInv, DependenciesPointBack
    <3> HIDE DEF o, v
    <3>3. v \in 1..Len(stamp'[o]) /\ i \in 1..Len(stamp'[r]) /\ stamp'[o][v] < stamp'[r][i]
      BY <2>6, <3>1, <3>2
    <3> QED BY <3>3 DEF o, v
  <2>12. \A u \in Threads :
           call'[u].step \in {"constructing", "encoding"} /\ call'[u].buffer.kind = "after"
           /\ call'[u].buffer.on \notin lost =>
             call'[u].buffer.value \in 1..Len(stamp'[call'[u].buffer.on])
    BY <2>6, <2>9
  <2> QED BY <1>9, <2>2, <2>8, <2>10, <2>11, <2>12 DEF DependencyInv
\* The buffer of the last number is committed.
<1>5. ASSUME NEW t \in Threads, Commit(t) PROVE DependencyInv'
  <2> DEFINE s == call[t].stream
             b == call[t].buffer
  <2>1. s \in Streams /\ b \in Buffers /\ call[t].step = "encoding"
    BY <1>0, <1>5, OpenCall DEF Commit
  <2>2. submit[s] = t
    BY <2>1 DEF DependencyInv, PlacesMatchNumbers
  <2>3. /\ buffers' = [buffers EXCEPT ![s] = Append(buffers[s], b)]
        /\ submit' = [submit EXCEPT ![s] = Nothing]
        /\ call' = [call EXCEPT ![t] = Idle]
        /\ UNCHANGED <<last_enqueued, finished, stamp, clock, lost>>
    BY <1>5 DEF Commit
  <2>4. /\ \A u \in Threads : u # t => call'[u] = call[u]
        /\ call'[t] = Idle /\ Idle.step = "idle"
    BY <1>0, <2>3 DEF Idle
  <2>5. /\ \A r \in Streams : r # s => buffers'[r] = buffers[r] /\ submit'[r] = submit[r]
        /\ buffers'[s] = Append(buffers[s], b) /\ submit'[s] = Nothing
    BY <2>1, <2>3 DEF TypeOK
  <2>6. /\ Len(stamp[s]) = Len(buffers[s]) + 1
        /\ b.kind = "after" /\ b.on \notin lost =>
             /\ b.value \in 1..Len(stamp[b.on])
             /\ stamp[b.on][b.value] < stamp[s][Len(stamp[s])]
    <3>1. submit[s] # Nothing
      BY <1>0, <2>2
    <3>2. Len(stamp[s]) = Len(buffers[s]) + 1
      BY <2>1, <3>1 DEF DependencyInv, PlacesMatchNumbers
    <3>3. b.kind = "after" /\ b.on \notin lost =>
             /\ b.value \in 1..Len(stamp[b.on])
             /\ stamp[b.on][b.value] < stamp[s][Len(stamp[s])]
      BY <2>1 DEF DependencyInv
    <3> QED BY <3>2, <3>3
  <2> HIDE DEF s, b
  <2>7. /\ Len(buffers'[s]) = Len(buffers[s]) + 1
        /\ Len(buffers[s]) \in Nat
        /\ \A i \in 1..Len(buffers[s]) : buffers'[s][i] = buffers[s][i]
        /\ buffers'[s][Len(buffers[s]) + 1] = b
        /\ \A i \in 1..Len(buffers'[s]) :
             i \in 1..Len(buffers[s]) \/ i = Len(buffers[s]) + 1
    <3>1. buffers[s] \in Seq(Buffers)
      BY <1>0, <2>1
    <3> QED BY <3>1, <2>1, <2>5, AppendFacts
  <2>9. DependenciesPointBack'
    <3> SUFFICES ASSUME NEW r \in Streams, NEW i \in 1..Len(buffers'[r]),
                        buffers'[r][i].kind = "after", buffers'[r][i].on \notin lost
                 PROVE  /\ buffers'[r][i].value \in 1..Len(stamp[buffers'[r][i].on])
                        /\ i \in 1..Len(stamp[r])
                        /\ stamp[buffers'[r][i].on][buffers'[r][i].value] < stamp[r][i]
      BY <2>3 DEF DependenciesPointBack
    <3>1. CASE i \in 1..Len(buffers[r])
      <4>1. buffers'[r][i] = buffers[r][i]
        BY <2>5, <2>7, <3>1
      <4> QED BY <3>1, <4>1 DEF DependencyInv, DependenciesPointBack
    <3>2. CASE i \notin 1..Len(buffers[r])
      <4>1. r = s
        BY <2>5, <3>2
      <4>2. i = Len(buffers[s]) + 1 /\ buffers'[r][i] = b
        BY <2>7, <3>2, <4>1
      <4> QED BY <1>0, <2>1, <2>6, <4>1, <4>2
    <3> QED BY <3>1, <3>2
  <2>10. \A u \in Threads : call'[u].step \in {"constructing", "encoding"} =>
           call'[u] = call[u]
    BY <2>4
  <2> QED BY <2>3, <1>9, <2>9, <2>10 DEF DependencyInv
\* The last number of s is given back: what depends on it no longer counts.
<1>6. ASSUME NEW t \in Threads, GiveBack(t) PROVE DependencyInv'
  <2> DEFINE s == call[t].stream
             n == Len(stamp[s])
  <2>1. s \in Streams /\ call[t].step = "encoding"
    BY <1>0, <1>6, OpenCall DEF GiveBack
  <2>2. submit[s] = t /\ n = last_enqueued[s] /\ n = Len(buffers[s]) + 1
    BY <1>0, <2>1 DEF DependencyInv, PlacesMatchNumbers
  <2>3. /\ stamp' = [stamp EXCEPT ![s] = SubSeq(stamp[s], 1, n - 1)]
        /\ call' = [call EXCEPT ![t] = Idle]
        /\ lost \subseteq lost'
        /\ DependedOn(s, n) => s \in lost'
        /\ UNCHANGED <<buffers, clock>>
    BY <1>6, <2>2 DEF GiveBack
  <2> HIDE DEF s, n
  <2>4. /\ \A u \in Threads : u # t => call'[u] = call[u]
        /\ call'[t] = Idle /\ Idle.step = "idle"
        /\ \A r \in Streams : r # s => stamp'[r] = stamp[r]
        /\ stamp'[s] = SubSeq(stamp[s], 1, n - 1)
    BY <1>0, <2>1, <2>3 DEF TypeOK, Idle
  <2>5. /\ n \in Nat \ {0} /\ n = Len(stamp[s]) /\ Len(stamp'[s]) = n - 1
        /\ \A i \in 1..(n - 1) : stamp'[s][i] = stamp[s][i]
    <3>1. n = Len(stamp[s]) /\ n \in Nat /\ n # 0 /\ stamp[s] \in Seq(Nat)
      BY <1>0, <2>1, <2>2 DEF n
    <3> QED BY <2>4, <3>1
  <2>6. ASSUME NEW r \in Streams, NEW i \in 1..Len(stamp'[r])
        PROVE  i \in 1..Len(stamp[r]) /\ stamp'[r][i] = stamp[r][i]
    <3>1. r # s => stamp'[r] = stamp[r]
      BY <2>4
    <3>2. r = s => i \in 1..Len(stamp'[s])
      OBVIOUS
    <3> QED BY <2>5, <3>1, <3>2
  \* A dependency that still counts is on a number that stays.
  <2>7. ASSUME NEW b \in Buffers, b.kind = "after", b.on \notin lost',
               b.value \in 1..Len(stamp[b.on]),
               b = After(s, n) => DependedOn(s, n)
        PROVE  /\ b.on \in Streams /\ b.value \in 1..Len(stamp'[b.on])
               /\ stamp'[b.on][b.value] = stamp[b.on][b.value]
    <3>1. b.on \in Streams /\ b = After(b.on, b.value)
      BY <2>7 DEF Buffers, Work, After
    <3>2. b.on = s => b.value # n
      BY <2>3, <2>7, <3>1
    <3>3. b.value \in 1..Len(stamp'[b.on])
      BY <1>0, <2>4, <2>5, <2>7, <3>1, <3>2
    <3> QED BY <2>6, <3>1, <3>3
  <2>8. ASSUME NEW u \in Threads, call'[u].step \in {"constructing", "encoding"},
               call'[u].buffer.kind = "after", call'[u].buffer.on \notin lost'
        PROVE  /\ call'[u] = call[u] /\ u # t
               /\ call[u].buffer.on \in Streams
               /\ call[u].buffer.value \in 1..Len(stamp'[call[u].buffer.on])
               /\ stamp'[call[u].buffer.on][call[u].buffer.value] =
                    stamp[call[u].buffer.on][call[u].buffer.value]
    <3>1. call'[u] = call[u] /\ u # t
      BY <2>4, <2>8
    <3>2. call[u].buffer \in Buffers
      BY <1>0, <2>8, <3>1, OpenCall
    <3>3. call[u].buffer.value \in 1..Len(stamp[call[u].buffer.on])
      BY <2>3, <2>8, <3>1 DEF DependencyInv
    <3>4. call[u].buffer = After(s, n) => DependedOn(s, n)
      BY DEF DependedOn
    <3> QED BY <2>7, <2>8, <3>1, <3>2, <3>3, <3>4
  <2>9. ASSUME NEW u \in Threads, call'[u].step = "encoding",
               call'[u].buffer.kind = "after", call'[u].buffer.on \notin lost'
        PROVE  stamp'[call'[u].buffer.on][call'[u].buffer.value]
                 < stamp'[call'[u].stream][Len(stamp'[call'[u].stream])]
    <3>1. call'[u] = call[u] /\ u # t /\ call[u].stream \in Streams
      BY <1>0, <2>8, <2>9, OpenCall
    <3>2. submit[call[u].stream] = u
      BY <2>9, <3>1 DEF DependencyInv, PlacesMatchNumbers
    <3>3. stamp'[call[u].stream] = stamp[call[u].stream]
      BY <2>2, <2>4, <3>1, <3>2
    <3>4. stamp[call[u].buffer.on][call[u].buffer.value]
            < stamp[call[u].stream][Len(stamp[call[u].stream])]
      BY <2>3, <2>9, <3>1 DEF DependencyInv
    <3> QED BY <2>8, <2>9, <3>1, <3>3, <3>4
  <2>10. DependenciesPointBack'
    <3> SUFFICES ASSUME NEW r \in Streams, NEW i \in 1..Len(buffers[r]),
                        buffers[r][i].kind = "after", buffers[r][i].on \notin lost'
                 PROVE  /\ buffers[r][i].value \in 1..Len(stamp'[buffers[r][i].on])
                        /\ i \in 1..Len(stamp'[r])
                        /\ stamp'[buffers[r][i].on][buffers[r][i].value] < stamp'[r][i]
      BY <2>3 DEF DependenciesPointBack
    <3>1. /\ buffers[r][i].value \in 1..Len(stamp[buffers[r][i].on])
          /\ i \in 1..Len(stamp[r])
          /\ stamp[buffers[r][i].on][buffers[r][i].value] < stamp[r][i]
      BY <2>3 DEF DependencyInv, DependenciesPointBack
    <3>2. buffers[r][i] = After(s, n) => DependedOn(s, n)
      BY DEF DependedOn
    <3>3. buffers[r][i] \in Buffers
      BY <1>0
    <3>4. /\ buffers[r][i].value \in 1..Len(stamp'[buffers[r][i].on])
          /\ stamp'[buffers[r][i].on][buffers[r][i].value] =
               stamp[buffers[r][i].on][buffers[r][i].value]
      BY <2>7, <3>1, <3>2, <3>3
    <3>5. i \in 1..Len(stamp'[r])
      <4>1. r # s => stamp'[r] = stamp[r]
        BY <2>4
      <4>2. r = s => i \in 1..(n - 1)
        BY <1>0, <2>2, <2>3
      <4> QED BY <2>5, <3>1, <4>1, <4>2
    <3>6. stamp'[r][i] = stamp[r][i]
      BY <2>6, <3>5
    <3> QED BY <3>1, <3>4, <3>5, <3>6
  <2>11. \A r \in Streams : \A i \in 1..Len(stamp'[r]) : stamp'[r][i] < clock'
    BY <2>3, <2>6 DEF DependencyInv
  <2>12. \A u \in Threads :
           call'[u].step \in {"constructing", "encoding"} /\ call'[u].buffer.kind = "after"
           /\ call'[u].buffer.on \notin lost' =>
             call'[u].buffer.value \in 1..Len(stamp'[call'[u].buffer.on])
    BY <2>8
  <2> QED BY <1>9, <2>9, <2>10, <2>11, <2>12 DEF DependencyInv
<1>7. ASSUME NEW s \in Streams, Run(s) PROVE DependencyInv'
  <2>1. /\ UNCHANGED <<last_enqueued, submit, buffers, call, clock, stamp, lost>>
        /\ finished' = [finished EXCEPT ![s] = @ + 1]
        /\ finished[s] < Len(buffers[s])
    BY <1>7 DEF Run
  <2>2. \A r \in Streams : finished[r] <= Len(buffers[r])
    BY DEF DependencyInv, PlacesMatchNumbers
  <2>3. \A r \in Streams : finished'[r] <= Len(buffers[r])
    BY <1>0, <2>1, <2>2 DEF TypeOK
  <2>5. DependenciesPointBack'
    BY <2>1 DEF DependencyInv, DependenciesPointBack
  <2> QED BY <2>1, <1>9, <2>5 DEF DependencyInv
<1>8. CASE UNCHANGED vars
  BY <1>8 DEF vars, DependencyInv, PlacesMatchNumbers, DependenciesPointBack
<1> QED BY <1>2, <1>3, <1>4, <1>5, <1>6, <1>7, <1>8 DEF Next, Continue

\* The numbering and the dependencies are right, also when numbers are given
\* back.
LEMMA DependencyInvHolds == Spec => []DependencyInv
<1>1. Init => DependencyInv
  <2> SUFFICES ASSUME Init PROVE DependencyInv
    OBVIOUS
  <2>1. PlacesMatchNumbers
    BY PlacesInit
  <2>2. DependenciesPointBack
    BY DEF Init, DependenciesPointBack
  <2> QED BY <2>1, <2>2 DEF Init, DependencyInv, Idle
<1>2. TypeOK /\ TypeOK' /\ DependencyInv /\ [Next]_vars => DependencyInv'
  BY DependencyInvStep
<1> QED BY <1>1, <1>2, TypeCorrect, PTL DEF Spec

\* No dependency between streams is ever on a buffer numbered later, so that no
\* set of streams can wait for one another: CreateStreamDependency reads the
\* other stream's number before it takes its own.  The exception is a number
\* given back after it was read.
THEOREM DependenciesPointBackHolds == Spec => []DependenciesPointBack
<1>1. DependencyInv => DependenciesPointBack
  BY DEF DependencyInv
<1> QED BY <1>1, DependencyInvHolds, PTL

-----------------------------------------------------------------------------
\* What holds of the types in every step of the proof below.
LEMMA EventTypes ==
  ASSUME TypeOK
  PROVE  /\ \A s \in Streams :
              /\ buffers[s] \in Seq(Buffers) /\ Len(buffers[s]) \in Nat
              /\ finished[s] \in Nat
              /\ \A i \in 1..Len(buffers[s]) : buffers[s][i] \in Buffers
         /\ \A e \in Events : target[e] \in Nat /\ signaled[e] \in Nat
         /\ \A t \in Threads : call[t] \in Calls
         /\ DOMAIN call = Threads
<1>1. /\ \A s \in Streams : buffers[s] \in Seq(Buffers)
      /\ \A t \in Threads : call[t] \in Calls
  BY DEF TypeOK
<1>2. \A s \in Streams :
        /\ Len(buffers[s]) \in Nat
        /\ \A i \in 1..Len(buffers[s]) : buffers[s][i] \in Buffers
  <2> SUFFICES ASSUME NEW s \in Streams
               PROVE  /\ Len(buffers[s]) \in Nat
                      /\ \A i \in 1..Len(buffers[s]) : buffers[s][i] \in Buffers
    OBVIOUS
  <2>1. buffers[s] \in Seq(Buffers)
    BY <1>1
  <2> QED BY <2>1
<1> QED BY <1>1, <1>2 DEF TypeOK

\* A record and a wait name an event.
LEMMA NamesEvent ==
  ASSUME NEW b \in Buffers, b.kind \in {"record", "wait"}
  PROVE  b.on \in Events /\ b.value \in Nat
  BY DEF Buffers, Work

\* Every value an event had or has was that of some record that has run, and no
\* record that has run is above the event's last value.
LEMMA SignalledByARecord ==
  ASSUME TypeOK, EventInv, NEW e \in Events, signaled[e] # 0
  PROVE  \E s \in Streams : \E i \in 1..finished[s] :
           /\ i \in 1..Len(buffers[s]) /\ IsRecord(s, i, e)
           /\ buffers[s][i].value = signaled[e]
           /\ <<e, signaled[e]>> \in reached /\ signaled[e] \in 1..target[e]
<1>1. RangeInv(e) /\ SignalInv(e)
  BY DEF EventInv
<1>2. PICK s \in Streams : \E i \in 1..finished[s] :
        IsRecord(s, i, e) /\ buffers[s][i].value = signaled[e]
  BY <1>1 DEF SignalInv
<1>3. PICK i \in 1..finished[s] : IsRecord(s, i, e) /\ buffers[s][i].value = signaled[e]
  BY <1>2
<1>4. i \in 1..Len(buffers[s])
  BY <1>3 DEF IsRecord
<1>5. <<e, signaled[e]>> \in reached /\ signaled[e] \in 1..target[e]
  BY <1>1, <1>3, <1>4 DEF RangeInv, SignalInv
<1> QED BY <1>3, <1>4, <1>5

\* The records of an event below the value it has reached have all run, if it
\* has one recorder and none of them got no buffer: they come before the one
\* that gave it this value.
LEMMA SignalledMeansReached ==
  ASSUME TypeOK, EventInv, NEW e \in Events, e \notin shared \cup lost,
         NEW v \in 1..signaled[e]
  PROVE  <<e, v>> \in reached
<1>1. /\ PlacedInv(e) /\ RecorderInv(e) /\ ValuesInv(e) /\ SignalInv(e)
      /\ signaled[e] \in Nat /\ target[e] \in Nat /\ signaled[e] # 0
  BY EventTypes DEF EventInv
<1>2. PICK s \in Streams : \E i \in 1..finished[s] :
        /\ i \in 1..Len(buffers[s]) /\ IsRecord(s, i, e)
        /\ buffers[s][i].value = signaled[e]
        /\ <<e, signaled[e]>> \in reached /\ signaled[e] \in 1..target[e]
  BY <1>1, SignalledByARecord
<1>3. PICK i \in 1..finished[s] :
        /\ i \in 1..Len(buffers[s]) /\ IsRecord(s, i, e)
        /\ buffers[s][i].value = signaled[e]
        /\ <<e, signaled[e]>> \in reached /\ signaled[e] \in 1..target[e]
  BY <1>2
<1>4. Recording(e) # {} => signaled[e] < target[e]
  BY <1>1, <1>3 DEF ValuesInv
<1>5. \A t \in Recording(e) : call[t].buffer.value # v
  BY <1>1, <1>4 DEF RecorderInv
<1>6. PICK r \in Streams : \E j \in 1..Len(buffers[r]) :
        IsRecord(r, j, e) /\ buffers[r][j].value = v
  <2>1. v \in 1..target[e]
    BY <1>1, <1>3
  <2> QED BY <1>1, <1>5, <2>1 DEF PlacedInv
<1>7. PICK j \in 1..Len(buffers[r]) : IsRecord(r, j, e) /\ buffers[r][j].value = v
  BY <1>6
<1>8. r = s
  BY <1>1, <1>3, <1>7 DEF RecorderInv, RecordedOn, IsRecord
<1>9. ~(i < j)
  <2>1. i < j => buffers[s][i].value < buffers[s][j].value
    BY <1>1, <1>3, <1>7, <1>8 DEF ValuesInv
  <2> QED BY <1>1, <1>3, <1>7, <1>8, <2>1
<1>10. j \in 1..finished[s]
  BY <1>3, <1>7, <1>8, <1>9, EventTypes
<1> QED BY <1>1, <1>7, <1>8, <1>10 DEF SignalInv

\* A step of one call that leaves the streams and events alone keeps the
\* invariant: the records stay with those who make them, or are lost.
LEMMA CallKeepsEventInv ==
  ASSUME TypeOK, EventInv, NEW t \in Threads, NEW c,
         call' = [call EXCEPT ![t] = c],
         c.step # "idle" /\ c.buffer.kind = "record" =>
           /\ call[t].step # "idle" /\ call[t].buffer = c.buffer
           /\ call[t].stream = c.stream
           /\ c.step \in {"constructing", "encoding"},
         call[t].step # "idle" /\ call[t].buffer.kind = "record" =>
           \/ c.step # "idle" /\ c.buffer = call[t].buffer
           \/ call[t].buffer.on \in lost',
         c.buffer.kind = "wait" => c.buffer.value \in 1..target[c.buffer.on],
         shared \subseteq shared', lost \subseteq lost',
         UNCHANGED <<buffers, finished, target, signaled, reached>>
  PROVE  EventInv'
<1>1. \A u \in Threads : call'[u] = IF u = t THEN c ELSE call[u]
  BY EventTypes
<1>2. ASSUME NEW e \in Events, NEW u \in Recording(e)'
      PROVE  /\ u \in Recording(e)
             /\ call'[u].step \in {"constructing", "encoding"}
             /\ call'[u].buffer = call[u].buffer /\ call'[u].stream = call[u].stream
  <2>1. RangeInv(e) /\ u \in Threads
    BY DEF EventInv, Recording
  <2> QED BY <1>1, <2>1 DEF Recording, RangeInv
<1>3. ASSUME NEW e \in Events PROVE RecordedOn(e)' = RecordedOn(e)
  BY DEF RecordedOn
<1>4. ASSUME NEW e \in Events PROVE RangeInv(e)'
  BY <1>2 DEF EventInv, RangeInv, IsRecord
<1>5. ASSUME NEW e \in Events \ lost' PROVE PlacedInv(e)'
  <2>1. PlacedInv(e)
    BY DEF EventInv
  <2>2. ASSUME NEW u \in Recording(e)
        PROVE  u \in Recording(e)' /\ call'[u].buffer = call[u].buffer
    BY <1>1 DEF Recording
  <2>3. ASSUME NEW v \in 1..target'[e]
        PROVE  \/ \E u \in Recording(e)' : call'[u].buffer.value = v
               \/ \E s \in Streams : \E i \in 1..Len(buffers'[s]) :
                    IsRecord(s, i, e)' /\ buffers'[s][i].value = v
    <3>1. \/ \E u \in Recording(e) : call[u].buffer.value = v
          \/ \E s \in Streams : \E i \in 1..Len(buffers[s]) :
               IsRecord(s, i, e) /\ buffers[s][i].value = v
      BY <2>1 DEF PlacedInv
    <3> QED BY <2>2, <3>1 DEF IsRecord
  <2> QED BY <2>3 DEF PlacedInv
<1>6. ASSUME NEW e \in Events \ shared' PROVE RecorderInv(e)' /\ ValuesInv(e)'
  <2>1. RecorderInv(e) /\ ValuesInv(e)
    BY DEF EventInv
  <2>2. RecorderInv(e)'
    BY <1>2, <1>3, <2>1 DEF RecorderInv
  <2>3. ValuesInv(e)'
    BY <1>2, <2>1 DEF ValuesInv, IsRecord
  <2> QED BY <2>2, <2>3
<1>7. ASSUME NEW e \in Events PROVE SignalInv(e)'
  BY DEF EventInv, SignalInv, IsRecord
<1>8. WaitSeesItsRecord'
  BY DEF EventInv, WaitSeesItsRecord
<1>9. \A u \in Threads : call'[u].buffer.kind = "wait" =>
        call'[u].buffer.value \in 1..target'[call'[u].buffer.on]
  BY <1>1 DEF EventInv
<1> QED BY <1>4, <1>5, <1>6, <1>7, <1>8, <1>9 DEF EventInv

\* RecordEvent raises the target; its call has the new value.
LEMMA RecordKeepsEventInv ==
  ASSUME TypeOK, EventInv,
         NEW t \in Threads, NEW s \in Streams, NEW e \in Events,
         RecordEvent(t, s, e)
  PROVE  EventInv'
<1> USE DEF stream_vars, event_vars, history_vars, order_vars, flaw_vars
<1> DEFINE b == Record(e, target[e] + 1)
           c == [step |-> "constructing", stream |-> s, buffer |-> b]
<1>1. /\ call[t] = Idle
      /\ target' = [target EXCEPT ![e] = target[e] + 1]
      /\ call' = [call EXCEPT ![t] = c]
      /\ shared \subseteq shared'
      /\ e \notin shared' => Recording(e) = {} /\ RecordedOn(e) \subseteq {s}
      /\ UNCHANGED <<buffers, finished, signaled, reached, lost>>
  BY DEF RecordEvent, Construct, NoteSecondRecorder
<1>2. /\ c.step = "constructing" /\ c.stream = s
      /\ c.buffer.kind = "record" /\ c.buffer.on = e
      /\ c.buffer.value = target[e] + 1
  BY DEF Record
<1>3. /\ target[e] \in Nat /\ target'[e] = target[e] + 1
      /\ \A f \in Events : f # e => target'[f] = target[f]
      /\ \A f \in Events : target[f] \in Nat /\ 1..target[f] \subseteq 1..target'[f]
  <2>1. /\ target[e] \in Nat /\ target'[e] = target[e] + 1
        /\ \A f \in Events : f # e => target'[f] = target[f]
        /\ \A f \in Events : target[f] \in Nat
    BY <1>1, EventTypes DEF TypeOK
  <2> QED BY <2>1
<1> HIDE DEF c, b
<1>4. \A u \in Threads : call'[u] = IF u = t THEN c ELSE call[u]
  BY <1>1, EventTypes
<1>5. call[t].step = "idle"
  BY <1>1 DEF Idle
<1>6. /\ Recording(e)' = Recording(e) \cup {t}
      /\ t \notin Recording(e)
      /\ \A f \in Events : f # e => Recording(f)' = Recording(f)
      /\ \A f \in Events : \A u \in Recording(f) : call'[u] = call[u] /\ u # t
  BY <1>1, <1>2, <1>4, <1>5 DEF Recording
<1>7. ASSUME NEW f \in Events PROVE RecordedOn(f)' = RecordedOn(f)
  BY <1>1 DEF RecordedOn
<1>8. ASSUME NEW f \in Events PROVE RangeInv(f)'
  <2>1. RangeInv(f)
    BY DEF EventInv
  <2>2. \A r \in Streams : \A i \in 1..Len(buffers'[r]) : IsRecord(r, i, f)' =>
          buffers'[r][i].value \in 1..target'[f]
    BY <1>1, <1>3, <2>1 DEF RangeInv, IsRecord
  <2>3. ASSUME NEW u \in Recording(f)'
        PROVE  /\ call'[u].step \in {"constructing", "encoding"}
               /\ call'[u].buffer.value \in 1..target'[f]
    <3>1. CASE u \in Recording(f)
      BY <1>3, <1>6, <2>1, <3>1 DEF RangeInv
    <3>2. CASE u \notin Recording(f)
      <4>1. f = e /\ u = t
        BY <1>6, <2>3, <3>2
      <4>2. target'[e] \in 1..target'[e]
        BY <1>3
      <4> QED BY <1>2, <1>3, <1>4, <4>1, <4>2
    <3> QED BY <3>1, <3>2
  <2> QED BY <2>2, <2>3 DEF RangeInv
<1>9. ASSUME NEW f \in Events \ lost' PROVE PlacedInv(f)'
  <2>1. PlacedInv(f)
    BY <1>1 DEF EventInv
  <2>2. ASSUME NEW v \in 1..target'[f]
        PROVE  \/ \E u \in Recording(f)' : call'[u].buffer.value = v
               \/ \E r \in Streams : \E i \in 1..Len(buffers'[r]) :
                    IsRecord(r, i, f)' /\ buffers'[r][i].value = v
    <3>1. CASE v \in 1..target[f]
      <4>1. \/ \E u \in Recording(f) : call[u].buffer.value = v
            \/ \E r \in Streams : \E i \in 1..Len(buffers[r]) :
                 IsRecord(r, i, f) /\ buffers[r][i].value = v
        BY <2>1, <3>1 DEF PlacedInv
      <4>2. \A u \in Recording(f) : u \in Recording(f)' /\ call'[u] = call[u]
        BY <1>6
      <4> QED BY <1>1, <4>1, <4>2 DEF IsRecord
    <3>2. CASE v \notin 1..target[f]
      <4>1. f = e /\ v = target[e] + 1
        BY <1>3, <3>2
      <4> QED BY <1>2, <1>4, <1>6, <4>1
    <3> QED BY <3>1, <3>2
  <2> QED BY <2>2 DEF PlacedInv
<1>10. ASSUME NEW f \in Events \ shared' PROVE RecorderInv(f)' /\ ValuesInv(f)'
  <2>1. RecorderInv(f) /\ ValuesInv(f) /\ RangeInv(f) /\ target[f] \in Nat
    BY <1>1, EventTypes DEF EventInv
  <2>2. CASE f = e
    <3>1. Recording(e) = {} /\ RecordedOn(e) \subseteq {s} /\ Recording(e)' = {t}
      BY <1>1, <1>6, <2>2
    <3>2. RecorderInv(f)'
      BY <1>2, <1>3, <1>4, <1>7, <2>1, <2>2, <3>1 DEF RecorderInv
    <3>3. \A r \in Streams : \A i \in 1..Len(buffers'[r]) : IsRecord(r, i, f)' =>
            buffers'[r][i].value < target'[f]
      <4>1. \A r \in Streams : \A i \in 1..Len(buffers[r]) : IsRecord(r, i, e) =>
              buffers[r][i].value \in 1..target[e]
        BY <2>1, <2>2 DEF RangeInv
      <4> QED BY <1>1, <1>3, <2>2, <4>1 DEF IsRecord
    <3>4. ValuesInv(f)'
      BY <1>1, <2>1, <3>3 DEF ValuesInv, IsRecord
    <3> QED BY <3>2, <3>4
  <2>3. CASE f # e
    <3>1. RecorderInv(f)'
      BY <1>3, <1>6, <1>7, <2>1, <2>3 DEF RecorderInv
    <3>2. ValuesInv(f)'
      BY <1>1, <1>3, <1>6, <2>1, <2>3 DEF ValuesInv, IsRecord
    <3> QED BY <3>1, <3>2
  <2> QED BY <2>2, <2>3
<1>11. ASSUME NEW f \in Events PROVE SignalInv(f)'
  BY <1>1 DEF EventInv, SignalInv, IsRecord
<1>12. WaitSeesItsRecord'
  <2> SUFFICES ASSUME NEW r \in Streams, NEW i \in 1..finished[r],
                      buffers[r][i].kind = "wait"
               PROVE  LET w == buffers[r][i] IN
                      /\ \E v \in w.value..target'[w.on] : <<w.on, v>> \in reached
                      /\ w.on \notin shared' \cup lost => <<w.on, w.value>> \in reached
    BY <1>1 DEF WaitSeesItsRecord
  <2>1. finished[r] <= Len(buffers[r]) /\ finished[r] \in Nat /\ Len(buffers[r]) \in Nat
    BY EventTypes DEF EventInv
  <2>2. i \in 1..Len(buffers[r])
    BY <2>1
  <2>3. buffers[r][i] \in Buffers
    BY <2>2, EventTypes
  <2>4. buffers[r][i].on \in Events /\ buffers[r][i].value \in Nat
    BY <2>3, NamesEvent
  <2>5. \A v \in buffers[r][i].value..target[buffers[r][i].on] :
          v \in buffers[r][i].value..target'[buffers[r][i].on]
    BY <1>3, <2>4
  <2> QED BY <1>1, <2>5 DEF EventInv, WaitSeesItsRecord
<1>13. /\ \A u \in Threads : call'[u].buffer.kind = "wait" =>
            call'[u].buffer.value \in 1..target'[call'[u].buffer.on]
       /\ \A r \in Streams : \A i \in 1..Len(buffers'[r]) : buffers'[r][i].kind = "wait" =>
            buffers'[r][i].value \in 1..target'[buffers'[r][i].on]
  <2>1. ASSUME NEW u \in Threads, call'[u].buffer.kind = "wait"
        PROVE  call'[u].buffer.value \in 1..target'[call'[u].buffer.on]
    <3>1. call'[u] = call[u]
      BY <1>2, <1>4, <2>1
    <3>2. call[u].buffer.on \in Events
      <4>1. call[u] \in Calls
        BY EventTypes
      <4>2. call[u].buffer \in Buffers
        BY <4>1, Constructed DEF Calls, Idle
      <4> QED BY <2>1, <3>1, <4>2, NamesEvent
    <3> QED BY <1>3, <2>1, <3>1, <3>2 DEF EventInv
  <2>2. ASSUME NEW r \in Streams, NEW i \in 1..Len(buffers[r]), buffers[r][i].kind = "wait"
        PROVE  buffers[r][i].value \in 1..target'[buffers[r][i].on]
    <3>1. buffers[r][i].on \in Events
      BY <2>2, EventTypes, NamesEvent
    <3> QED BY <1>3, <2>2, <3>1 DEF EventInv
  <2> QED BY <1>1, <2>1, <2>2
<1>14. \A r \in Streams : finished'[r] <= Len(buffers'[r])
  BY <1>1 DEF EventInv
<1> QED BY <1>8, <1>9, <1>10, <1>11, <1>12, <1>13, <1>14 DEF EventInv

\* A committed record takes its place behind all others of its event.
LEMMA CommitKeepsEventInv ==
  ASSUME TypeOK, EventInv, NEW t \in Threads, Commit(t)
  PROVE  EventInv'
<1> USE DEF stream_vars, event_vars, history_vars, order_vars, flaw_vars
<1>0. /\ call[t].step = "encoding"
      /\ call[t].stream \in Streams /\ call[t].buffer \in Buffers
      /\ Len(buffers[call[t].stream]) \in Nat
  BY EventTypes, OpenCall DEF Commit
<1>a. PICK s \in Streams : s = call[t].stream
  BY <1>0
<1>b. PICK b \in Buffers : b = call[t].buffer
  BY <1>0
<1>c. PICK last \in Nat : last = Len(buffers[s]) + 1
  BY <1>0, <1>a
<1>1. /\ call[t].step = "encoding" /\ s = call[t].stream /\ b = call[t].buffer
      /\ last = Len(buffers[s]) + 1
      /\ buffers' = [buffers EXCEPT ![s] = Append(buffers[s], b)]
      /\ call' = [call EXCEPT ![t] = Idle]
      /\ UNCHANGED <<finished, target, signaled, reached, shared, lost>>
  BY <1>a, <1>b, <1>c DEF Commit
<1>2. /\ Idle.step = "idle" /\ Idle.buffer.kind = "work"
      /\ \A u \in Threads : call'[u] = IF u = t THEN Idle ELSE call[u]
  BY <1>1, EventTypes DEF Idle, Work
<1>3. /\ \A r \in Streams : r # s => buffers'[r] = buffers[r]
      /\ buffers'[s] = Append(buffers[s], b)
  BY <1>1 DEF TypeOK
<1>4. buffers[s] \in Seq(Buffers) /\ Len(buffers[s]) \in Nat
      /\ last = Len(buffers[s]) + 1
  BY <1>1, EventTypes
<1>5. /\ Len(buffers'[s]) = last /\ buffers'[s][last] = b
      /\ \A i \in 1..Len(buffers[s]) : buffers'[s][i] = buffers[s][i]
      /\ \A i \in 1..Len(buffers'[s]) : i \in 1..Len(buffers[s]) \/ i = last
  BY <1>1, <1>3, <1>4, AppendFacts
<1>6. ASSUME NEW r \in Streams, NEW i \in 1..Len(buffers[r])
      PROVE  i \in 1..Len(buffers'[r]) /\ buffers'[r][i] = buffers[r][i]
  BY <1>3, <1>4, <1>5
<1>7. ASSUME NEW r \in Streams, NEW i \in 1..Len(buffers'[r])
      PROVE  i \in 1..Len(buffers[r]) \/ (r = s /\ i = last)
  BY <1>3, <1>5
<1>8. ASSUME NEW r \in Streams, NEW i \in 1..Len(buffers[r]), NEW e \in Events
      PROVE  IsRecord(r, i, e)' <=> IsRecord(r, i, e)
  BY <1>6 DEF IsRecord
<1>9. ASSUME NEW e \in Events
      PROVE  IsRecord(s, last, e)' <=> b.kind = "record" /\ b.on = e
  BY <1>4, <1>5 DEF IsRecord
<1>10. ASSUME NEW e \in Events PROVE Recording(e)' = Recording(e) \ {t}
  BY <1>2 DEF Recording
<1>11. ASSUME NEW e \in Events
       PROVE  t \in Recording(e) <=> b.kind = "record" /\ b.on = e
  BY <1>1 DEF Recording
<1>12. ASSUME NEW e \in Events
       PROVE  RecordedOn(e)' \subseteq
                RecordedOn(e) \cup (IF t \in Recording(e) THEN {s} ELSE {})
  <2> SUFFICES ASSUME NEW r \in Streams, NEW i \in 1..Len(buffers'[r]),
                      buffers'[r][i].kind = "record", buffers'[r][i].on = e
               PROVE  r \in RecordedOn(e) \/ (t \in Recording(e) /\ r = s)
    BY DEF RecordedOn
  <2>1. CASE i \in 1..Len(buffers[r])
    BY <1>6, <2>1 DEF RecordedOn
  <2>2. CASE r = s /\ i = last
    BY <1>5, <1>11, <2>2
  <2> QED BY <1>7, <2>1, <2>2
<1>13. ASSUME NEW e \in Events PROVE RangeInv(e)'
  <2>1. RangeInv(e)
    BY DEF EventInv
  <2>2. ASSUME NEW r \in Streams, NEW i \in 1..Len(buffers'[r]), IsRecord(r, i, e)'
        PROVE  buffers'[r][i].value \in 1..target'[e]
    <3>1. CASE i \in 1..Len(buffers[r])
      BY <1>1, <1>6, <1>8, <2>1, <2>2, <3>1 DEF RangeInv
    <3>2. CASE r = s /\ i = last
      <4>1. t \in Recording(e)
        BY <1>9, <1>11, <2>2, <3>2
      <4> QED BY <1>1, <1>5, <2>1, <3>2, <4>1 DEF RangeInv
    <3> QED BY <1>7, <3>1, <3>2
  <2>3. ASSUME NEW u \in Recording(e)'
        PROVE  /\ call'[u].step \in {"constructing", "encoding"}
               /\ call'[u].buffer.value \in 1..target'[e]
    <3>1. u \in Recording(e) /\ u # t /\ u \in Threads
      BY <1>10, <2>3 DEF Recording
    <3> QED BY <1>1, <1>2, <2>1, <3>1 DEF RangeInv
  <2> QED BY <2>2, <2>3 DEF RangeInv
<1>22. ASSUME NEW e \in Events \ lost' PROVE PlacedInv(e)'
  <2>1. PlacedInv(e)
    BY <1>1 DEF EventInv
  <2>2. ASSUME NEW v \in 1..target'[e]
        PROVE  \/ \E u \in Recording(e)' : call'[u].buffer.value = v
               \/ \E r \in Streams : \E i \in 1..Len(buffers'[r]) :
                    IsRecord(r, i, e)' /\ buffers'[r][i].value = v
    <3>1. CASE \E r \in Streams : \E i \in 1..Len(buffers[r]) :
                 IsRecord(r, i, e) /\ buffers[r][i].value = v
      BY <1>6, <1>8, <3>1
    <3>2. CASE \E u \in Recording(e) : call[u].buffer.value = v
      <4>1. PICK u \in Recording(e) : call[u].buffer.value = v
        BY <3>2
      <4>2. CASE u = t
        <5>1. last \in 1..Len(buffers'[s]) /\ IsRecord(s, last, e)'
              /\ buffers'[s][last].value = v
          BY <1>1, <1>4, <1>5, <1>9, <1>11, <4>1, <4>2
        <5> QED BY <5>1
      <4>3. CASE u # t
        <5>1. u \in Recording(e)' /\ call'[u].buffer.value = v
          BY <1>2, <1>10, <4>1, <4>3 DEF Recording
        <5> QED BY <5>1
      <4> QED BY <4>2, <4>3
    <3> QED BY <1>1, <2>1, <3>1, <3>2 DEF PlacedInv
  <2> QED BY <2>2 DEF PlacedInv
<1>23. ASSUME NEW e \in Events \ shared' PROVE RecorderInv(e)'
  <2>1. RecorderInv(e)
    BY <1>1 DEF EventInv
  <2>2. t \in Recording(e) => RecordedOn(e) \subseteq {s} /\ Recording(e) = {t}
    BY <1>1, <2>1 DEF RecorderInv
  <2>3. \A r, q \in RecordedOn(e)' : r = q
    BY <1>12, <2>1, <2>2 DEF RecorderInv
  <2>4. ASSUME NEW u \in Recording(e)'
        PROVE  /\ call'[u] = call[u] /\ u \in Recording(e)
               /\ RecordedOn(e)' \subseteq {call[u].stream}
    <3>1. u \in Recording(e) /\ u # t /\ call'[u] = call[u]
      BY <1>2, <1>10 DEF Recording
    <3> QED BY <1>12, <2>1, <2>2, <3>1 DEF RecorderInv
  <2> QED BY <1>1, <1>10, <2>1, <2>3, <2>4 DEF RecorderInv
<1>14. ASSUME NEW e \in Events \ shared' PROVE ValuesInv(e)'
  <2>1. /\ RecorderInv(e) /\ ValuesInv(e) /\ target[e] \in Nat
        /\ target' = target
    BY <1>1, EventTypes DEF EventInv
  <2>2. b.kind = "record" /\ b.on = e =>
          /\ b.value = target[e] /\ Recording(e) = {t} /\ Recording(e)' = {}
    BY <1>1, <1>10, <1>11, <2>1 DEF RecorderInv
  <2>3. ~(b.kind = "record" /\ b.on = e) => Recording(e)' = Recording(e)
    BY <1>10, <1>11
  <2>4. ASSUME NEW r \in Streams, NEW i \in 1..Len(buffers'[r]), IsRecord(r, i, e)',
               Recording(e)' # {}
        PROVE  buffers'[r][i].value < target'[e]
    <3>1. CASE i \in 1..Len(buffers[r])
      <4>1. buffers[r][i].value < target[e]
        BY <1>8, <1>10, <2>1, <2>4, <3>1 DEF ValuesInv
      <4> QED BY <1>6, <2>1, <3>1, <4>1
    <3>2. CASE r = s /\ i = last
      BY <1>5, <1>9, <2>1, <2>2, <2>4, <3>2
    <3> QED BY <1>7, <3>1, <3>2
  <2>5. ASSUME NEW r \in Streams, NEW i \in 1..Len(buffers'[r]),
               NEW j \in 1..Len(buffers'[r]), i < j,
               IsRecord(r, i, e)', IsRecord(r, j, e)'
        PROVE  buffers'[r][i].value < buffers'[r][j].value
    <3>1. i \in 1..Len(buffers[r])
      BY <1>4, <1>5, <1>7, <2>5
    <3>2. CASE j \in 1..Len(buffers[r])
      BY <1>6, <1>8, <2>1, <2>5, <3>1, <3>2 DEF ValuesInv
    <3>3. CASE r = s /\ j = last
      <4>1. b.kind = "record" /\ b.on = e
        BY <1>9, <2>5, <3>3
      <4>2. buffers[r][i].value < target[e]
        BY <1>8, <2>1, <2>2, <2>5, <3>1, <4>1 DEF ValuesInv
      <4> QED BY <1>5, <1>6, <2>2, <3>1, <3>3, <4>1, <4>2
    <3> QED BY <1>7, <3>2, <3>3
  <2> QED BY <2>4, <2>5 DEF ValuesInv
<1>15. \A r \in Streams : finished[r] <= Len(buffers[r]) /\ finished[r] \in Nat
                          /\ Len(buffers[r]) \in Nat
  BY EventTypes DEF EventInv
<1>16. ASSUME NEW r \in Streams, NEW i \in 1..finished[r]
       PROVE  i \in 1..Len(buffers[r]) /\ buffers'[r][i] = buffers[r][i]
  BY <1>6, <1>15
<1>17. ASSUME NEW e \in Events PROVE SignalInv(e)'
  <2>1. SignalInv(e)
    BY DEF EventInv
  <2>2. \A r \in Streams : \A i \in 1..finished[r] :
          IsRecord(r, i, e)' <=> IsRecord(r, i, e)
    BY <1>8, <1>16
  <2> QED BY <1>1, <1>16, <2>1, <2>2 DEF SignalInv
<1>18. WaitSeesItsRecord'
  <2>1. ASSUME NEW r \in Streams, NEW i \in 1..finished[r], NEW w,
               w = buffers[r][i], w.kind = "wait"
        PROVE  /\ \E v \in w.value..target[w.on] : <<w.on, v>> \in reached
               /\ w.on \notin shared \cup lost => <<w.on, w.value>> \in reached
    BY <2>1 DEF EventInv, WaitSeesItsRecord
  <2>2. /\ finished' = finished /\ target' = target /\ reached' = reached
        /\ shared' = shared /\ lost' = lost
    BY <1>1
  <2> SUFFICES ASSUME NEW r \in Streams, NEW i \in 1..finished[r],
                      buffers'[r][i].kind = "wait"
               PROVE  LET w == buffers'[r][i] IN
                      /\ \E v \in w.value..target[w.on] : <<w.on, v>> \in reached
                      /\ w.on \notin shared \cup lost => <<w.on, w.value>> \in reached
    BY <2>2 DEF WaitSeesItsRecord
  <2>3. buffers'[r][i] = buffers[r][i]
    BY <1>16
  <2> QED BY <2>1, <2>3
<1>19. \A r \in Streams : finished'[r] <= Len(buffers'[r])
  BY <1>1, <1>3, <1>5, <1>15
<1>20. \A u \in Threads : call'[u].buffer.kind = "wait" =>
         call'[u].buffer.value \in 1..target'[call'[u].buffer.on]
  BY <1>1, <1>2 DEF EventInv
<1>21. ASSUME NEW r \in Streams, NEW i \in 1..Len(buffers'[r]),
              buffers'[r][i].kind = "wait"
       PROVE  buffers'[r][i].value \in 1..target'[buffers'[r][i].on]
  <2>1. CASE i \in 1..Len(buffers[r])
    BY <1>1, <1>6, <1>21, <2>1 DEF EventInv
  <2>2. CASE r = s /\ i = last
    BY <1>1, <1>5, <1>21, <2>2 DEF EventInv
  <2> QED BY <1>7, <2>1, <2>2
<1> QED BY <1>13, <1>22, <1>23, <1>14, <1>17, <1>18, <1>19, <1>20, <1>21 DEF EventInv

\* A record that runs raises its event and a wait that runs has been let
\* through by its event's value.
LEMMA RunKeepsEventInv ==
  ASSUME TypeOK, EventInv, NEW s \in Streams, Run(s)
  PROVE  EventInv'
<1> USE DEF stream_vars, event_vars, history_vars, order_vars, flaw_vars
<1>0. finished[s] < Len(buffers[s]) /\ finished[s] \in Nat /\ Len(buffers[s]) \in Nat
  BY EventTypes DEF Run
<1>a. PICK j \in 1..Len(buffers[s]) : j = finished[s] + 1
  BY <1>0
<1>b. PICK b : b = buffers[s][j]
  OBVIOUS
<1>1. /\ j = finished[s] + 1 /\ b = buffers[s][j] /\ b = Upcoming(s)
      /\ finished[s] < Len(buffers[s]) /\ Ready(b)
      /\ finished' = [finished EXCEPT ![s] = j]
      /\ UNCHANGED <<buffers, target, call, shared, lost>>
  BY <1>a, <1>b DEF Run, Upcoming
<1>2. /\ j \in 1..Len(buffers[s]) /\ b \in Buffers
      /\ finished[s] \in Nat /\ Len(buffers[s]) \in Nat
  BY <1>1, EventTypes
<1>3. /\ \A r \in Streams : finished'[r] = IF r = s THEN j ELSE finished[r]
      /\ \A r \in Streams : \A i \in 1..finished'[r] :
           i \in 1..finished[r] \/ (r = s /\ i = j)
      /\ \A r \in Streams : \A i \in 1..finished[r] : i \in 1..finished'[r]
      /\ j \in 1..finished'[s]
  <2>1. \A r \in Streams : finished'[r] = IF r = s THEN j ELSE finished[r]
    BY <1>1 DEF TypeOK
  <2>2. \A r \in Streams : finished[r] \in Nat
    BY EventTypes
  <2> QED BY <1>1, <1>2, <2>1, <2>2
<1>4. ASSUME b.kind # "record" PROVE UNCHANGED <<signaled, reached>>
  BY <1>1, <1>4 DEF Run
<1>5. ASSUME b.kind = "record"
      PROVE  /\ b.on \in Events /\ b.value \in Nat
             /\ reached' = reached \cup {<<b.on, b.value>>}
             /\ \A e \in Events : e # b.on => signaled'[e] = signaled[e]
             /\ signaled'[b.on] = IF signaled[b.on] < b.value THEN b.value
                                  ELSE signaled[b.on]
  <2>1. b.on \in Events /\ b.value \in Nat
    BY <1>2, <1>5, NamesEvent
  <2>2. /\ reached' = reached \cup {<<b.on, b.value>>}
        /\ signaled' = [signaled EXCEPT ![b.on] =
                          IF signaled[b.on] < b.value THEN b.value ELSE signaled[b.on]]
    BY <1>1, <1>5 DEF Run
  <2> QED BY <2>1, <2>2 DEF TypeOK
<1>6. reached \subseteq reached'
  BY <1>4, <1>5
<1>7. ASSUME NEW e \in Events
      PROVE  signaled'[e] >= signaled[e] /\ signaled[e] \in Nat
  BY <1>4, <1>5, EventTypes
<1>8. ASSUME NEW e \in Events, NEW r \in Streams, NEW i \in 1..Len(buffers[r])
      PROVE  IsRecord(r, i, e)' <=> IsRecord(r, i, e)
  BY <1>1 DEF IsRecord
<1>9. ASSUME NEW e \in Events
      PROVE  Recording(e)' = Recording(e) /\ RecordedOn(e)' = RecordedOn(e)
  BY <1>1 DEF Recording, RecordedOn
<1>10. /\ \A e \in Events : RangeInv(e)'
       /\ \A e \in Events \ lost' : PlacedInv(e)'
       /\ \A e \in Events \ shared' : RecorderInv(e)' /\ ValuesInv(e)'
  <2>1. \A e \in Events : RangeInv(e)'
    BY <1>1, <1>9 DEF EventInv, RangeInv, IsRecord
  <2>2. \A e \in Events \ lost' : PlacedInv(e)'
    BY <1>1, <1>9 DEF EventInv, PlacedInv, IsRecord
  <2>3. \A e \in Events \ shared' : RecorderInv(e)' /\ ValuesInv(e)'
    BY <1>1, <1>9 DEF EventInv, RecorderInv, ValuesInv, IsRecord
  <2> QED BY <2>1, <2>2, <2>3
<1>11. ASSUME NEW e \in Events PROVE SignalInv(e)'
  <2>1. SignalInv(e)
    BY DEF EventInv
  <2>2. ASSUME NEW r \in Streams, NEW i \in 1..finished'[r], IsRecord(r, i, e)'
        PROVE  /\ <<e, buffers'[r][i].value>> \in reached'
               /\ buffers'[r][i].value <= signaled'[e]
    <3>1. IsRecord(r, i, e) /\ buffers' = buffers
      BY <1>1, <2>2 DEF IsRecord
    <3>2. buffers[r][i].value \in Nat
      BY <3>1, EventTypes, NamesEvent DEF IsRecord
    <3>3. CASE i \in 1..finished[r]
      <4>1. /\ <<e, buffers[r][i].value>> \in reached
            /\ buffers[r][i].value <= signaled[e]
        BY <2>1, <3>1, <3>3 DEF SignalInv
      <4>2. signaled'[e] \in Nat
        BY <1>4, <1>5, <1>7
      <4> QED BY <1>6, <1>7, <3>1, <3>2, <4>1, <4>2
    <3>4. CASE r = s /\ i = j
      <4>1. b.kind = "record" /\ b.on = e /\ buffers'[r][i].value = b.value
        BY <1>1, <3>1, <3>4 DEF IsRecord
      <4> QED BY <1>5, <1>7, <4>1
    <3> QED BY <1>3, <3>3, <3>4
  <2>3. ASSUME signaled'[e] # 0
        PROVE  \E r \in Streams : \E i \in 1..finished'[r] :
                 IsRecord(r, i, e)' /\ buffers'[r][i].value = signaled'[e]
    <3>1. CASE signaled'[e] = signaled[e]
      <4>0. PICK r \in Streams : \E i \in 1..finished[r] :
              IsRecord(r, i, e) /\ buffers[r][i].value = signaled[e]
        BY <2>1, <2>3, <3>1 DEF SignalInv
      <4>1. PICK i \in 1..finished[r] :
              IsRecord(r, i, e) /\ buffers[r][i].value = signaled[e]
        BY <4>0
      <4>2. IsRecord(r, i, e)'
        BY <1>1, <4>1 DEF IsRecord
      <4> QED BY <1>1, <1>3, <3>1, <4>1, <4>2
    <3>2. CASE signaled'[e] # signaled[e]
      <4>1. b.kind = "record" /\ b.on = e /\ signaled'[e] = b.value
        BY <1>4, <1>5, <3>2
      <4>2. IsRecord(s, j, e)'
        BY <1>1, <1>2, <4>1 DEF IsRecord
      <4> QED BY <1>1, <1>3, <4>1, <4>2
    <3> QED BY <3>1, <3>2
  <2> QED BY <2>2, <2>3 DEF SignalInv
<1>12. WaitSeesItsRecord'
  <2> SUFFICES ASSUME NEW r \in Streams, NEW i \in 1..finished'[r],
                      buffers[r][i].kind = "wait"
               PROVE  LET w == buffers[r][i] IN
                      /\ \E v \in w.value..target[w.on] : <<w.on, v>> \in reached'
                      /\ w.on \notin shared \cup lost => <<w.on, w.value>> \in reached'
    BY <1>1 DEF WaitSeesItsRecord
  <2>1. CASE i \in 1..finished[r]
    BY <1>1, <1>6, <2>1 DEF EventInv, WaitSeesItsRecord
  <2>2. CASE r = s /\ i = j
    <3>1. buffers[r][i] = b /\ b.kind = "wait"
      BY <1>1, <2>2
    <3>2. /\ b.on \in Events /\ b.value \in Nat /\ b.value \in 1..target[b.on]
          /\ target[b.on] \in Nat
      BY <1>1, <1>2, <3>1, NamesEvent, EventTypes DEF EventInv
    <3>3. signaled[b.on] >= b.value
      BY <1>1, <3>1 DEF Ready
    <3>4. b.value \in 1..signaled[b.on] /\ signaled[b.on] # 0
      BY <1>7, <3>2, <3>3
    <3>5. <<b.on, signaled[b.on]>> \in reached /\ signaled[b.on] \in 1..target[b.on]
      BY <3>2, <3>4, SignalledByARecord
    <3>6. signaled[b.on] \in b.value..target[b.on]
      BY <3>2, <3>3, <3>5
    <3>7. b.on \notin shared \cup lost => <<b.on, b.value>> \in reached
      BY <3>2, <3>4, SignalledMeansReached
    <3> QED BY <1>6, <3>1, <3>5, <3>6, <3>7
  <2> QED BY <1>3, <2>1, <2>2
<1>13. \A r \in Streams : finished'[r] <= Len(buffers'[r])
  BY <1>1, <1>2, <1>3 DEF EventInv
<1> QED BY <1>1, <1>10, <1>11, <1>12, <1>13 DEF EventInv

\* Every other step changes one call that records nothing, or goes on with one.
LEMMA EventInvStep ==
  ASSUME TypeOK, PlacesMatchNumbers, EventInv, [Next]_vars
  PROVE  EventInv'
<1> USE DEF stream_vars, event_vars, history_vars, order_vars, flaw_vars
<1>1. ASSUME NEW t \in Threads, NEW c, call[t] = Idle, call' = [call EXCEPT ![t] = c],
             c.step # "idle" /\ c.buffer.kind # "record",
             c.buffer.kind = "wait" => c.buffer.value \in 1..target[c.buffer.on],
             UNCHANGED <<stream_vars, event_vars, flaw_vars>>
      PROVE  EventInv'
  <2>1. call[t].step = "idle"
    BY <1>1 DEF Idle
  <2> QED BY <1>1, <2>1, CallKeepsEventInv
<1>2. ASSUME NEW t \in Threads, NEW s \in Streams, NEW b, Construct(t, s, b),
             call[t] = Idle, b.kind # "record",
             b.kind = "wait" => b.value \in 1..target[b.on],
             UNCHANGED <<stream_vars, event_vars, flaw_vars>>
      PROVE  EventInv'
  <2> DEFINE c == [step |-> "constructing", stream |-> s, buffer |-> b]
  <2>1. c.step = "constructing" /\ c.buffer = b /\ call' = [call EXCEPT ![t] = c]
    BY <1>2 DEF Construct
  <2> HIDE DEF c
  <2> QED BY <1>1, <1>2, <2>1
<1>3. ASSUME NEW t \in Threads, Begin(t) PROVE EventInv'
  <2>1. ASSUME NEW s \in Streams, Enqueue(t, s) PROVE EventInv'
    BY <1>2, <2>1 DEF Enqueue, Work
  <2>2. ASSUME NEW s \in Streams, NEW e \in Events, WaitForEvent(t, s, e)
        PROVE  EventInv'
    <3>1. target[e] \in Nat /\ target[e] # 0
      BY <2>2, EventTypes DEF WaitForEvent
    <3>2. target[e] \in 1..target[e]
      BY <3>1
    <3> QED BY <1>2, <2>2, <3>2 DEF WaitForEvent, Wait
  <2>3. ASSUME NEW s \in Streams, NEW o \in Streams, CreateStreamDependency(t, s, o)
        PROVE  EventInv'
    BY <1>2, <2>3 DEF CreateStreamDependency, After
  <2>4. ASSUME NEW e \in Events, BlockHostForEvent(t, e) PROVE EventInv'
    <3> DEFINE c == [step |-> "blocked", stream |-> Nothing,
                     buffer |-> Wait(e, target[e])]
    <3>1. target[e] \in Nat /\ target[e] # 0
      BY <2>4, EventTypes DEF BlockHostForEvent
    <3>2. /\ c.step = "blocked" /\ c.buffer.kind = "wait"
          /\ c.buffer.value \in 1..target[c.buffer.on]
          /\ call' = [call EXCEPT ![t] = c]
      BY <2>4, <3>1 DEF BlockHostForEvent, Wait
    <3> HIDE DEF c
    <3> QED BY <1>1, <2>4, <3>2 DEF BlockHostForEvent
  <2> QED BY <1>3, <2>1, <2>2, <2>3, <2>4, RecordKeepsEventInv DEF Begin
<1>4. ASSUME NEW t \in Threads, Reserve(t) PROVE EventInv'
  <2> DEFINE c == [step |-> "encoding", stream |-> call[t].stream,
                   buffer |-> call[t].buffer]
  <2>1. /\ call[t].step = "constructing"
        /\ call' = [call EXCEPT ![t] = c]
        /\ c.step = "encoding" /\ c.stream = call[t].stream
        /\ c.buffer = call[t].buffer
        /\ UNCHANGED <<buffers, finished, target, signaled, reached, flaw_vars>>
    BY <1>4, EventTypes, OpenCall DEF Reserve
  <2> HIDE DEF c
  <2>2. c.buffer.kind = "wait" => c.buffer.value \in 1..target[c.buffer.on]
    BY <2>1 DEF EventInv
  <2> QED BY <2>1, <2>2, CallKeepsEventInv
<1>5. ASSUME NEW t \in Threads, Unblock(t) PROVE EventInv'
  <2>1. /\ call[t].step = "blocked" /\ call[t].buffer \in Buffers
        /\ call' = [call EXCEPT ![t] = Idle]
        /\ UNCHANGED <<buffers, finished, target, signaled, reached, flaw_vars>>
    BY <1>5, EventTypes DEF Unblock, Calls, Idle
  <2>2. call[t].buffer.kind # "record"
    <3>1. SUFFICES ASSUME call[t].buffer.kind = "record" PROVE FALSE
      OBVIOUS
    <3>2. call[t].buffer.on \in Events /\ t \in Recording(call[t].buffer.on)
      BY <2>1, <3>1, NamesEvent DEF Recording
    <3> QED BY <2>1, <3>2 DEF EventInv, RangeInv
  <2>3. Idle.step = "idle" /\ Idle.buffer.kind = "work"
    BY DEF Idle, Work
  <2> QED BY <2>1, <2>2, <2>3, CallKeepsEventInv
\* A record that gets no buffer is lost.
<1>8. ASSUME NEW t \in Threads, GiveBack(t) PROVE EventInv'
  <2>1. /\ call' = [call EXCEPT ![t] = Idle]
        /\ shared' = shared /\ lost \subseteq lost'
        /\ \A e \in Events : t \in Recording(e) => e \in lost'
        /\ UNCHANGED <<buffers, finished, target, signaled, reached>>
    BY <1>8 DEF GiveBack
  <2>2. /\ call[t].step = "encoding" /\ call[t].buffer \in Buffers
    BY <1>8, EventTypes, OpenCall DEF GiveBack
  <2>3. call[t].buffer.kind = "record" => call[t].buffer.on \in lost'
    <3>1. SUFFICES ASSUME call[t].buffer.kind = "record"
                   PROVE  call[t].buffer.on \in lost'
      OBVIOUS
    <3>2. call[t].buffer.on \in Events
      BY <2>2, <3>1, NamesEvent
    <3> QED BY <2>1, <2>2, <3>1, <3>2 DEF Recording
  <2>4. Idle.step = "idle" /\ Idle.buffer.kind = "work"
    BY DEF Idle, Work
  <2> QED BY <2>1, <2>3, <2>4, CallKeepsEventInv
<1>6. ASSUME NEW t \in Threads, Continue(t) PROVE EventInv'
  BY <1>4, <1>5, <1>6, <1>8, CommitKeepsEventInv DEF Continue
<1>7. CASE UNCHANGED vars
  <2>1. WaitSeesItsRecord'
    BY <1>7 DEF vars, EventInv, WaitSeesItsRecord
  <2>2. ASSUME NEW e \in Events
        PROVE  /\ RangeInv(e)' /\ SignalInv(e)'
               /\ e \notin lost' => PlacedInv(e)'
               /\ e \notin shared' => RecorderInv(e)' /\ ValuesInv(e)'
    <3>1. RangeInv(e)' /\ SignalInv(e)'
      BY <1>7 DEF vars, EventInv, RangeInv, SignalInv, IsRecord, Recording
    <3>2. e \notin lost' => PlacedInv(e)'
      BY <1>7 DEF vars, EventInv, PlacedInv, IsRecord, Recording
    <3>3. e \notin shared' => RecorderInv(e)'
      BY <1>7 DEF vars, EventInv, RecorderInv, Recording, RecordedOn
    <3>4. e \notin shared' => ValuesInv(e)'
      BY <1>7 DEF vars, EventInv, ValuesInv, IsRecord, Recording
    <3> QED BY <3>1, <3>2, <3>3, <3>4
  <2> QED BY <1>7, <2>1, <2>2 DEF vars, EventInv
<1> QED BY <1>3, <1>6, <1>7, RunKeepsEventInv DEF Next

\* The records of an event: whoever records it and waits for it, and also when
\* buffers are nil, its value is that of a record that has run; its values are all
\* placed unless a record of it got no buffer, and in order on one stream while it
\* has one recorder (RecordEvent).
THEOREM EventInvHolds == Spec => []EventInv
<1>1. Init => EventInv
  <2> SUFFICES ASSUME Init PROVE EventInv
    OBVIOUS
  <2>1. /\ \A s \in Streams : finished[s] = 0 /\ buffers[s] = << >>
        /\ \A e \in Events : target[e] = 0 /\ signaled[e] = 0
        /\ \A t \in Threads : call[t].step = "idle" /\ call[t].buffer.kind = "work"
    BY DEF Init, Idle, Work
  <2>2. \A s \in Streams : Len(buffers[s]) = 0
    <3> SUFFICES ASSUME NEW s \in Streams PROVE Len(buffers[s]) = 0
      OBVIOUS
    <3>1. buffers[s] = << >>
      BY <2>1
    <3> QED BY <3>1
  <2>3. ASSUME NEW e \in Events
        PROVE  /\ Recording(e) = {} /\ RecordedOn(e) = {}
               /\ RangeInv(e) /\ PlacedInv(e)
               /\ RecorderInv(e) /\ ValuesInv(e) /\ SignalInv(e)
    <3>1. Recording(e) = {} /\ RecordedOn(e) = {}
      BY <2>1, <2>2 DEF Recording, RecordedOn
    <3> QED BY <2>1, <2>2, <3>1
            DEF RangeInv, PlacedInv, RecorderInv, ValuesInv, SignalInv, IsRecord
  <2>4. \A s \in Streams : finished[s] <= Len(buffers[s])
    <3> SUFFICES ASSUME NEW s \in Streams PROVE finished[s] <= Len(buffers[s])
      OBVIOUS
    <3>1. finished[s] = 0 /\ Len(buffers[s]) = 0
      BY <2>1, <2>2
    <3> QED BY <3>1
  <2> QED BY <2>1, <2>2, <2>3, <2>4 DEF EventInv, WaitSeesItsRecord
<1>2. TypeOK /\ PlacesMatchNumbers /\ EventInv /\ [Next]_vars => EventInv'
  BY EventInvStep
<1> QED BY <1>1, <1>2, TypesAndPlaces, PTL DEF Spec

\* A stream that waited for an event runs only what comes after a record of it
\* with the value waited for or a later one, whoever records it; and after the
\* very record the wait was made for, unless the event had a second recorder or a
\* record that got no buffer (WaitForEvent).
THEOREM WaitSeesItsRecordHolds == Spec => []WaitSeesItsRecord
<1>1. EventInv => WaitSeesItsRecord
  BY DEF EventInv
<1> QED BY <1>1, EventInvHolds, PTL

\* GetEventStatus answers "complete" only when the event's last record has run,
\* whoever records it, and then all records before it, with the same exception.
THEOREM CompleteMeansReachedHolds == Spec => []CompleteMeansReached
<1>1. TypeOK /\ EventInv => CompleteMeansReached
  <2> SUFFICES ASSUME TypeOK, EventInv, NEW e \in Events,
                      target[e] # 0, signaled[e] >= target[e]
               PROVE  /\ <<e, target[e]>> \in reached
                      /\ e \notin shared \cup lost =>
                           \A v \in 1..target[e] : <<e, v>> \in reached
    BY DEF CompleteMeansReached
  <2>1. target[e] \in Nat /\ signaled[e] \in Nat /\ signaled[e] # 0
    BY EventTypes
  <2>2. <<e, signaled[e]>> \in reached /\ signaled[e] \in 1..target[e]
    BY <2>1, SignalledByARecord
  <2>3. signaled[e] = target[e]
    BY <2>1, <2>2
  <2>4. ASSUME e \notin shared \cup lost, NEW v \in 1..target[e]
        PROVE  <<e, v>> \in reached
    BY <2>3, <2>4, SignalledMeansReached
  <2> QED BY <2>2, <2>3, <2>4
<1> QED BY <1>1, EventInvHolds, TypeCorrect, PTL

-----------------------------------------------------------------------------
\* A committed buffer has a stamp.
LEMMA PlacesAreStamped ==
  ASSUME TypeOK, PlacesMatchNumbers
  PROVE  \A s \in Streams : /\ Len(buffers[s]) \in Nat /\ Len(stamp[s]) \in Nat
                            /\ Len(buffers[s]) <= Len(stamp[s])
                            /\ \A i \in 1..Len(stamp[s]) : stamp[s][i] \in Nat
<1> SUFFICES ASSUME NEW s \in Streams
             PROVE  /\ Len(buffers[s]) \in Nat /\ Len(stamp[s]) \in Nat
                    /\ Len(buffers[s]) <= Len(stamp[s])
                    /\ \A i \in 1..Len(stamp[s]) : stamp[s][i] \in Nat
  OBVIOUS
<1>1. /\ stamp[s] \in Seq(Nat) /\ Len(stamp[s]) \in Nat /\ Len(buffers[s]) \in Nat
      /\ last_enqueued[s] \in Nat
  BY PlaceTypes
<1>2. \A i \in 1..Len(stamp[s]) : stamp[s][i] \in Nat
  BY <1>1
<1>3. Len(buffers[s]) <= Len(stamp[s])
  BY <1>1 DEF PlacesMatchNumbers
<1> QED BY <1>1, <1>2, <1>3

\* Every step keeps the numbers of a stream in the order of their moments: a new
\* one is later than all others, and the last is given back.
LEMMA OrderInvStep ==
  ASSUME TypeOK, DependencyInv, OrderInv, [Next]_vars
  PROVE  OrderInv'
<1> USE DEF stream_vars, event_vars, history_vars, order_vars, flaw_vars
<1>1. ASSUME NEW t \in Threads, NEW c, call' = [call EXCEPT ![t] = c],
             c.step = "blocked" => c.buffer.kind = "wait",
             \A s \in Streams : \A i, j \in 1..Len(stamp'[s]) :
               i < j => stamp'[s][i] < stamp'[s][j]
      PROVE  OrderInv'
  <2>1. \A u \in Threads : call'[u] = IF u = t THEN c ELSE call[u]
    BY <1>1, PlaceTypes
  <2> QED BY <1>1, <2>1 DEF OrderInv
<1>2. stamp' = stamp => \A s \in Streams : \A i, j \in 1..Len(stamp'[s]) :
                          i < j => stamp'[s][i] < stamp'[s][j]
  BY DEF OrderInv
<1>3. Idle.step = "idle"
  BY DEF Idle
<1>4. ASSUME NEW t \in Threads, Begin(t) PROVE OrderInv'
  <2>1. ASSUME NEW s \in Streams, NEW b, Construct(t, s, b), stamp' = stamp
        PROVE  OrderInv'
    <3> DEFINE c == [step |-> "constructing", stream |-> s, buffer |-> b]
    <3>1. c.step = "constructing" /\ call' = [call EXCEPT ![t] = c]
      BY <2>1 DEF Construct
    <3> HIDE DEF c
    <3> QED BY <1>1, <1>2, <2>1, <3>1
  <2>2. ASSUME NEW e \in Events, BlockHostForEvent(t, e) PROVE OrderInv'
    <3> DEFINE c == [step |-> "blocked", stream |-> Nothing,
                     buffer |-> Wait(e, target[e])]
    <3>1. c.buffer.kind = "wait" /\ call' = [call EXCEPT ![t] = c] /\ stamp' = stamp
      BY <2>2 DEF BlockHostForEvent, Wait
    <3> HIDE DEF c
    <3> QED BY <1>1, <1>2, <3>1
  <2> QED BY <1>4, <2>1, <2>2
          DEF Begin, Enqueue, RecordEvent, WaitForEvent, CreateStreamDependency
<1>5. ASSUME NEW t \in Threads, Unblock(t) \/ Commit(t) PROVE OrderInv'
  <2>1. call' = [call EXCEPT ![t] = Idle] /\ stamp' = stamp
    BY <1>5 DEF Unblock, Commit
  <2> QED BY <1>1, <1>2, <1>3, <2>1
<1>6. ASSUME NEW t \in Threads, Reserve(t) PROVE OrderInv'
  <2> DEFINE s == call[t].stream
             c == [call[t] EXCEPT !.step = "encoding"]
  <2>1. s \in Streams /\ call[t] \in Calls /\ call[t].step = "constructing"
    BY <1>6, PlaceTypes, OpenCall DEF Reserve
  <2>2. c.step = "encoding"
    BY <2>1, OpenCall
  <2>3. /\ stamp' = [stamp EXCEPT ![s] = Append(stamp[s], clock)]
        /\ call' = [call EXCEPT ![t] = c]
    BY <1>6, <2>1 DEF Reserve
  <2> HIDE DEF s, c
  <2>4. /\ \A r \in Streams : r # s => stamp'[r] = stamp[r]
        /\ stamp'[s] = Append(stamp[s], clock)
    BY <2>1, <2>3 DEF TypeOK
  <2>5. /\ Len(stamp'[s]) = Len(stamp[s]) + 1 /\ Len(stamp[s]) \in Nat
        /\ \A i \in 1..Len(stamp[s]) : stamp'[s][i] = stamp[s][i]
        /\ stamp'[s][Len(stamp[s]) + 1] = clock
        /\ \A i \in 1..Len(stamp'[s]) : i \in 1..Len(stamp[s]) \/ i = Len(stamp[s]) + 1
    <3>1. stamp[s] \in Seq(Nat) /\ clock \in Nat
      BY <2>1, PlaceTypes
    <3> QED BY <3>1, <2>4, AppendFacts
  <2>6. ASSUME NEW r \in Streams, NEW i \in 1..Len(stamp'[r]),
               NEW j \in 1..Len(stamp'[r]), i < j
        PROVE  stamp'[r][i] < stamp'[r][j]
    <3>1. CASE r # s
      BY <2>4, <2>6, <3>1 DEF OrderInv
    <3>2. CASE r = s
      <4>1. i \in 1..Len(stamp[s])
        BY <2>5, <2>6, <3>2
      <4>2. CASE j \in 1..Len(stamp[s])
        BY <2>1, <2>5, <2>6, <3>2, <4>1, <4>2 DEF OrderInv
      <4>3. CASE j \notin 1..Len(stamp[s])
        <5>1. j = Len(stamp[s]) + 1
          BY <2>5, <3>2, <4>3
        <5>2. stamp[s][i] < clock
          BY <2>1, <4>1 DEF DependencyInv
        <5> QED BY <2>5, <3>2, <4>1, <5>1, <5>2
      <4> QED BY <4>2, <4>3
    <3> QED BY <3>1, <3>2
  <2> QED BY <1>1, <2>2, <2>3, <2>6
<1>7. ASSUME NEW t \in Threads, GiveBack(t) PROVE OrderInv'
  <2> DEFINE s == call[t].stream
  <2>1. s \in Streams
    BY <1>7, PlaceTypes, OpenCall DEF GiveBack
  <2>2. /\ stamp' = [stamp EXCEPT ![s] = SubSeq(stamp[s], 1, Len(stamp[s]) - 1)]
        /\ call' = [call EXCEPT ![t] = Idle]
    BY <1>7, <2>1 DEF GiveBack
  <2> HIDE DEF s
  <2>3. /\ \A r \in Streams : r # s => stamp'[r] = stamp[r]
        /\ stamp'[s] = SubSeq(stamp[s], 1, Len(stamp[s]) - 1)
    BY <2>1, <2>2 DEF TypeOK
  <2>4. \A i \in 1..Len(stamp'[s]) : i \in 1..Len(stamp[s]) /\ stamp'[s][i] = stamp[s][i]
    <3>1. stamp[s] \in Seq(Nat)
      BY <2>1, PlaceTypes
    <3> QED BY <2>3, <3>1
  <2>5. ASSUME NEW r \in Streams, NEW i \in 1..Len(stamp'[r]),
               NEW j \in 1..Len(stamp'[r]), i < j
        PROVE  stamp'[r][i] < stamp'[r][j]
    BY <2>1, <2>3, <2>4, <2>5 DEF OrderInv
  <2> QED BY <1>1, <1>3, <2>2, <2>5
<1>8. CASE UNCHANGED <<stamp, call>>
  BY <1>8 DEF OrderInv
<1> QED BY <1>4, <1>5, <1>6, <1>7, <1>8 DEF Next, Continue, Run, vars

\* A set of numbers has a least one.
LEMMA Least ==
  ASSUME NEW S, S \subseteq Nat, S # {}
  PROVE  \E k \in S : \A j \in S : k <= j
<1>1. PICK k \in S : \A j \in S : ~(<<j, k>> \in OpToRel(<, Nat))
  BY NatLessThanWellFounded, WFMin
<1>2. \A j \in S : ~(j < k)
  BY <1>1 DEF OpToRel
<1> QED BY <1>2

\* The earliest of the buffers that have not run can run, unless it waits in
\* vain: what it waits for was numbered before it and has therefore run.
LEMMA EarliestIsReady ==
  ASSUME TypeOK, DependencyInv, EventInv, OrderInv,
         \A t \in Threads : call[t].step # "encoding",
         NEW s \in Streams, finished[s] < Len(buffers[s]),
         \A r \in Streams : finished[r] < Len(buffers[r]) =>
           stamp[s][finished[s] + 1] <= stamp[r][finished[r] + 1]
  PROVE  Ready(Upcoming(s)) \/ InVain(Upcoming(s), stamp[s][finished[s] + 1])
<1>1. PlacesMatchNumbers
  BY DEF DependencyInv
<1>2. ASSUME NEW r \in Streams
      PROVE  /\ finished[r] \in Nat /\ finished[r] <= Len(buffers[r])
             /\ Len(buffers[r]) \in Nat /\ Len(stamp[r]) = Len(buffers[r])
             /\ \A i \in 1..Len(stamp[r]) : stamp[r][i] \in Nat
  <2>1. submit[r] = Nothing
    BY <1>1, PlaceTypes DEF PlacesMatchNumbers
  <2>2. Len(stamp[r]) = Len(buffers[r])
    BY <1>1, <2>1 DEF PlacesMatchNumbers
  <2> QED BY <1>1, <2>2, PlaceTypes, PlacesAreStamped DEF PlacesMatchNumbers
<1>3. PICK n : n = finished[s] + 1
  OBVIOUS
<1>4. n \in 1..Len(buffers[s]) /\ stamp[s][n] \in Nat /\ buffers[s][n] = Upcoming(s)
  BY <1>2, <1>3 DEF Upcoming
<1>5. PICK b \in Buffers : b = buffers[s][n]
  BY <1>4, EventTypes
\* What has an earlier number has run.
<1>6. ASSUME NEW r \in Streams, NEW j \in 1..Len(buffers[r]), stamp[r][j] < stamp[s][n]
      PROVE  j \in 1..finished[r]
  <2> SUFFICES ASSUME finished[r] < j PROVE FALSE
    BY <1>2
  <2>1. PICK m : m = finished[r] + 1
    OBVIOUS
  <2>2. finished[r] < Len(buffers[r]) /\ m \in 1..Len(stamp[r]) /\ m <= j
    BY <1>2, <2>1
  <2>3. stamp[s][n] <= stamp[r][m]
    BY <1>3, <2>1, <2>2
  <2>4. stamp[r][m] <= stamp[r][j]
    BY <1>2, <2>2 DEF OrderInv
  <2>5. /\ stamp[s][n] \in Nat /\ stamp[r][m] \in Nat /\ stamp[r][j] \in Nat
    BY <1>2, <1>4, <2>2
  <2> QED BY <1>6, <2>3, <2>4, <2>5
<1> SUFFICES ASSUME ~InVain(b, stamp[s][n]) PROVE Ready(b)
  BY <1>3, <1>4, <1>5
<1>7. CASE b.kind = "wait"
  <2>1. PICK e \in Events, v \in Nat : e = b.on /\ v = b.value
    BY <1>5, <1>7, NamesEvent
  <2>2. e \notin lost /\ ~RecordedLate(e, v, stamp[s][n])
    BY <1>7, <2>1 DEF InVain
  <2>3. v \in 1..target[e] /\ PlacedInv(e) /\ SignalInv(e)
    BY <1>4, <1>5, <1>7, <2>1, <2>2 DEF EventInv
  <2>4. PICK r \in Streams : \E j \in 1..Len(buffers[r]) :
          IsRecord(r, j, e) /\ buffers[r][j].value = v
    BY <2>2, <2>3 DEF PlacedInv, RecordedLate
  <2>5. PICK j \in 1..Len(buffers[r]) : IsRecord(r, j, e) /\ buffers[r][j].value = v
    BY <2>4
  <2>6. stamp[r][j] < stamp[s][n]
    <3>1. stamp[r][j] \in Nat
      BY <1>2
    <3>2. ~(stamp[r][j] >= stamp[s][n])
      BY <2>2, <2>5 DEF RecordedLate
    <3> QED BY <1>4, <3>1, <3>2
  <2>7. v <= signaled[e]
    BY <1>6, <2>3, <2>5, <2>6 DEF SignalInv
  <2> QED BY <1>7, <2>1, <2>7, EventTypes DEF Ready
<1>8. CASE b.kind = "after"
  <2>1. PICK o \in Streams, v \in Nat : o = b.on /\ v = b.value
    BY <1>5, <1>8, AfterNamesStream
  <2>2. v \in 1..Len(stamp[o]) /\ stamp[o][v] < stamp[s][n]
    BY <1>4, <1>5, <1>8, <2>1 DEF DependencyInv, DependenciesPointBack, InVain
  <2>3. v \in 1..finished[o]
    BY <1>2, <1>6, <2>2
  <2> QED BY <1>2, <1>8, <2>1, <2>3 DEF Ready
<1>9. CASE b.kind \notin {"wait", "after"}
  BY <1>9 DEF Ready
<1> QED BY <1>7, <1>8, <1>9

\* When all buffers have run, every event that a host blocks on is signalled,
\* unless the host waits in vain.
LEMMA HostsMayGo ==
  ASSUME TypeOK, DependencyInv, EventInv, OrderInv,
         \A s \in Streams : ~(finished[s] < Len(buffers[s])),
         NEW t \in Threads, call[t].step = "blocked",
         ~InVain(call[t].buffer, clock)
  PROVE  signaled[call[t].buffer.on] >= call[t].buffer.value
<1>1. /\ call[t].buffer \in Buffers /\ call[t].buffer.kind = "wait"
  BY PlaceTypes DEF OrderInv, Calls, Idle
<1>2. PICK e \in Events, v \in Nat : e = call[t].buffer.on /\ v = call[t].buffer.value
  BY <1>1, NamesEvent
<1>3. e \notin lost /\ ~RecordedLate(e, v, clock)
  BY <1>1, <1>2 DEF InVain
<1>4. v \in 1..target[e] /\ PlacedInv(e) /\ SignalInv(e)
  BY <1>1, <1>2, <1>3 DEF EventInv
<1>5. PICK r \in Streams : \E j \in 1..Len(buffers[r]) :
        IsRecord(r, j, e) /\ buffers[r][j].value = v
  BY <1>3, <1>4 DEF PlacedInv, RecordedLate
<1>6. PICK j \in 1..Len(buffers[r]) : IsRecord(r, j, e) /\ buffers[r][j].value = v
  BY <1>5
<1>7. j \in 1..finished[r]
  BY PlaceTypes DEF DependencyInv, PlacesMatchNumbers
<1>8. v <= signaled[e]
  BY <1>4, <1>6, <1>7 DEF SignalInv
<1> QED BY <1>2, <1>8, EventTypes

\* Neither calls nor streams ever wait for one another in a circle, whoever
\* records an event and whatever gets no buffer: if nobody can go on, somebody
\* waits in vain, for a number that was given back or a record that got no buffer
\* or came too late (RecordEvent, WaitForEvent, BlockHostForEvent and
\* CreateStreamDependency).
THEOREM NothingStallsHolds == Spec => []NothingStalls
<1>1. Init => OrderInv
  <2> SUFFICES ASSUME Init PROVE OrderInv
    OBVIOUS
  <2>1. \A s \in Streams : Len(stamp[s]) = 0
    <3> SUFFICES ASSUME NEW s \in Streams PROVE Len(stamp[s]) = 0
      OBVIOUS
    <3>1. stamp[s] = << >>
      BY DEF Init
    <3> QED BY <3>1
  <2>2. \A t \in Threads : call[t].step = "idle"
    BY DEF Init, Idle
  <2> QED BY <2>1, <2>2 DEF OrderInv
<1>2. TypeOK /\ DependencyInv /\ OrderInv /\ [Next]_vars => OrderInv'
  BY OrderInvStep
<1>3. TypeOK /\ DependencyInv /\ EventInv /\ OrderInv => NothingStalls
  <2> SUFFICES ASSUME TypeOK, DependencyInv, EventInv, OrderInv,
                      \A t \in Threads : call[t].step # "encoding",
                      ~SomeWaitInVain
               PROVE  NothingStalls
    BY DEF NothingStalls
  <2> DEFINE S == {stamp[s][finished[s] + 1] : s \in Unfinished}
  <2>1. CASE Unfinished = {}
    <3>1. \A s \in Streams : ~(finished[s] < Len(buffers[s]))
      BY <2>1 DEF Unfinished
    <3>2. \A t \in Threads : call[t].step = "blocked" =>
            \/ signaled[call[t].buffer.on] >= call[t].buffer.value
            \/ InVain(call[t].buffer, clock)
      BY <3>1, HostsMayGo
    <3>3. \A t \in Threads : call[t].step = "blocked" =>
            signaled[call[t].buffer.on] >= call[t].buffer.value
      <4> SUFFICES ASSUME NEW t \in Threads, call[t].step = "blocked",
                          ~(signaled[call[t].buffer.on] >= call[t].buffer.value)
                   PROVE  FALSE
        OBVIOUS
      <4>1. call[t].buffer \in Buffers /\ call[t].buffer.kind = "wait"
        BY PlaceTypes DEF OrderInv, Calls, Idle
      <4>2. signaled[call[t].buffer.on] \in Nat /\ call[t].buffer.value \in Nat
        BY <4>1, NamesEvent, EventTypes
      <4>3. signaled[call[t].buffer.on] < call[t].buffer.value
        BY <4>2
      <4> QED BY <3>2, <4>3 DEF SomeWaitInVain
    <3> QED BY <2>1, <3>3 DEF NothingStalls
  <2>2. CASE Unfinished # {}
    <3>1. S \subseteq Nat
      <4> SUFFICES ASSUME NEW s \in Unfinished PROVE stamp[s][finished[s] + 1] \in Nat
        OBVIOUS
      <4>1. finished[s] + 1 \in 1..Len(stamp[s])
        BY PlaceTypes, PlacesAreStamped DEF DependencyInv, Unfinished
      <4> QED BY <4>1, PlacesAreStamped DEF DependencyInv, Unfinished
    <3>2. S # {}
      BY <2>2
    <3> HIDE DEF S
    <3>3. PICK k \in S : \A j \in S : k <= j
      BY <3>1, <3>2, Least
    <3> USE DEF S
    <3>5. PICK s \in Unfinished : k = stamp[s][finished[s] + 1]
      OBVIOUS
    <3>6. \A r \in Unfinished : stamp[s][finished[s] + 1] <= stamp[r][finished[r] + 1]
      BY <3>3, <3>5
    <3>7. Ready(Upcoming(s)) \/ InVain(Upcoming(s), stamp[s][finished[s] + 1])
      BY <3>6, EarliestIsReady DEF Unfinished
    <3> QED BY <3>7 DEF NothingStalls, SomeWaitInVain
  <2> QED BY <2>1, <2>2
<1>4. Spec => [](TypeOK /\ DependencyInv /\ EventInv)
  BY TypeCorrect, DependencyInvHolds, EventInvHolds, PTL
<1> QED BY <1>1, <1>2, <1>3, <1>4, PTL DEF Spec

=============================================================================

------------------------- MODULE MetalDeviceProofs -------------------------
(***************************************************************************)
(* Proofs about MetalDevice: for any number of threads and streams, with   *)
(* streams destroyed while the device is drained and numbers given back    *)
(* while a drain waits for them.                                           *)
(***************************************************************************)
EXTENDS MetalDevice, TLAPS

\* The fields of a call.
LEMMA CallFields ==
  ASSUME NEW c \in Calls
  PROVE  /\ c.step \in Steps /\ c.at \in Streams \cup {NoStream} /\ c.target \in Nat
         /\ c.rest \subseteq Streams /\ c.owed \in [Streams -> Nat]
  BY DEF Calls

\* Between calls a thread's record is well formed.
LEMMA IdleIsCall == Idle \in Calls /\ Idle.step = "idle"
  BY DEF Idle, Calls, Steps, Nothing

\* The counters of a stream are numbers.
LEMMA Numbers ==
  ASSUME TypeOK, NEW s \in Streams
  PROVE  LastEnqueued(s) \in Nat /\ committed[s] \in Nat /\ finished[s] \in Nat
  BY DEF TypeOK, LastEnqueued

\* A call is at no stream under destruction but its own.
OneDestroyer ==
  \A t, u \in Threads :
    /\ t # u
    /\ {call[t].step, call[u].step} \subseteq {"destroying", "deleting"}
    => call[t].at # call[u].at

\* The parts of the invariant that are about the list and the counters alone.
ListInv ==
  /\ NumberInv
  /\ \A s \in Streams \ streams : finished[s] = committed[s] /\ submit[s] = NoThread
  /\ ListedStreamsExist

\* Initially no stream exists.
LEMMA DeviceInit == Init => TypeOK /\ DeviceInv
<1> SUFFICES ASSUME Init PROVE TypeOK /\ DeviceInv
  OBVIOUS
<1>1. \A s \in Streams : /\ LastEnqueued(s) = 0 /\ committed[s] = 0 /\ finished[s] = 0
                         /\ phase[s] = "none" /\ submit[s] = NoThread
  BY DEF Init, LastEnqueued
<1>2. \A t \in Threads : call[t].step = "idle"
  BY IdleIsCall DEF Init
<1>3. TypeOK
  BY IdleIsCall DEF Init, TypeOK, Phases
<1>4. \A t \in Threads : CallInv(t)
  BY <1>2 DEF CallInv, InDrain
<1>5. NumberInv /\ ListedStreamsExist
  BY <1>1 DEF NumberInv, ListedStreamsExist, Init
<1> QED BY <1>1, <1>2, <1>3, <1>4, <1>5 DEF DeviceInv, SyncCopySeesEarlierWork, DeletedIsDrained

-----------------------------------------------------------------------------
(***************************************************************************)
(* Steps that leave the calls alone                                        *)
(***************************************************************************)

\* While no counter goes back, nothing happens to a stream under destruction
\* and who waits for a number given back is known, what the calls have
\* established stands.
LEMMA CallsStand ==
  ASSUME TypeOK, DeviceInv, UNCHANGED call,
         \A s \in Streams : /\ finished'[s] \in Nat /\ finished'[s] >= finished[s]
                            /\ committed'[s] \in Nat /\ committed'[s] >= committed[s],
         \A s \in Streams : Destroying(s) =>
            /\ committed'[s] = committed[s] /\ phase'[s] = phase[s]
            /\ submit'[s] = submit[s] /\ (s \in streams' <=> s \in streams)
            /\ finished'[s] <= committed[s],
         \A t \in Threads : call[t].step = "awaiting" /\ call[t].at \in Streams =>
            \/ call[t].target <= LastEnqueued(call[t].at)' \/ t \in revoked'
  PROVE  (\A t \in Threads : CallInv(t)') /\ SyncCopySeesEarlierWork' /\ OneDestroyer'
<1>1. ASSUME NEW t \in Threads PROVE CallInv(t)'
  <2> DEFINE c == call[t]
  <2>1. c \in Calls /\ CallInv(t) /\ call'[t] = c
    BY DEF TypeOK, DeviceInv
  <2>2. c.rest \subseteq Streams /\ c.owed \in [Streams -> Nat] /\ c.target \in Nat
    BY <2>1, CallFields
  <2>3. InDrain(t) => \A s \in Streams \ c.rest : finished'[s] >= c.owed[s]
    BY <2>1, <2>2, Numbers DEF CallInv
  <2>4. InDrain(t) => \A s \in Streams : c.owed[s] <= committed'[s]
    BY <2>1, <2>2, Numbers DEF CallInv
  <2>5. c.step \in {"destroying", "deleting"} =>
          /\ c.at \in Streams /\ phase'[c.at] = "live" /\ submit'[c.at] = NoThread
          /\ committed'[c.at] = committed[c.at]
          /\ (c.at \in streams' <=> c.at \in streams)
          /\ finished'[c.at] <= committed[c.at] /\ finished'[c.at] >= finished[c.at]
    BY <2>1 DEF CallInv, Destroying
  <2>6. c.step = "deleting" => finished'[c.at] = committed'[c.at] /\ c.at \notin streams'
    BY <2>1, <2>5, Numbers DEF CallInv
  <2>7. c.step = "destroying" => c.target = committed'[c.at] /\ c.at \in streams'
    BY <2>1, <2>5 DEF CallInv
  <2>8. c.step = "awaiting" =>
          /\ c.at \in c.rest /\ c.target >= c.owed[c.at]
          /\ c.target <= LastEnqueued(c.at)' \/ t \in revoked'
    BY <2>1, <2>2 DEF CallInv
  <2> QED BY <2>1, <2>3, <2>4, <2>5, <2>6, <2>7, <2>8 DEF CallInv, InDrain, LastEnqueued
<1>2. SyncCopySeesEarlierWork'
  <2> SUFFICES ASSUME NEW t \in Threads, call[t].step = "drained", NEW s \in Streams
               PROVE  finished'[s] >= call[t].owed[s]
    BY DEF SyncCopySeesEarlierWork
  <2>1. call[t] \in Calls
    BY DEF TypeOK
  <2>2. call[t].owed[s] \in Nat /\ finished[s] >= call[t].owed[s]
    BY <2>1, CallFields DEF DeviceInv, SyncCopySeesEarlierWork
  <2> QED BY <2>2, Numbers
<1>3. OneDestroyer'
  BY DEF DeviceInv, OneDestroyer
<1> QED BY <1>1, <1>2, <1>3

\* The two ways in which a drain's number stays accounted for.
LEMMA WaitersKnown ==
  ASSUME TypeOK, DeviceInv, NEW t \in Threads, call[t].step = "awaiting"
  PROVE  /\ call[t].at \in Streams /\ call[t].target \in Nat
         /\ call[t].target <= LastEnqueued(call[t].at) \/ t \in revoked
  BY CallFields DEF TypeOK, DeviceInv, CallInv, InDrain

\* The parts of the invariant put together again, after a step.
LEMMA Together ==
  ASSUME ListInv', \A t \in Threads : CallInv(t)', SyncCopySeesEarlierWork', OneDestroyer',
         DeletedIsDrained',
         \A s \in Streams \ streams' : phase'[s] = "live" =>
           \E t \in Threads : call'[t].step = "deleting" /\ call'[t].at = s
  PROVE  DeviceInv'
  BY DEF DeviceInv, ListInv, OneDestroyer

\* A new stream has nothing outstanding and is in the list.
LEMMA CreateKeeps ==
  ASSUME TypeOK, DeviceInv, NEW t \in Threads, NEW s \in Streams, CreateStream(t, s)
  PROVE  TypeOK' /\ DeviceInv'
<1>1. /\ phase[s] = "none"
      /\ phase' = [phase EXCEPT ![s] = "live"]
      /\ streams' = streams \cup {s}
      /\ UNCHANGED <<last_enqueued, submit, committed, finished, failed, late, call, revoked>>
  BY DEF CreateStream, work_vars, number_vars, gpu_vars, call_vars
<1>2. TypeOK'
  BY <1>1 DEF TypeOK, Phases
<1>3. \A r \in Streams : /\ LastEnqueued(r)' = LastEnqueued(r) /\ finished'[r] = finished[r]
                         /\ committed'[r] = committed[r] /\ submit'[r] = submit[r]
                         /\ phase'[r] = IF r = s THEN "live" ELSE phase[r]
  BY <1>1 DEF LastEnqueued, TypeOK
<1>4. \A r \in Streams : Destroying(r) => r # s /\ finished[r] <= committed[r]
  BY <1>1 DEF Destroying, DeviceInv, CallInv, NumberInv
<1>5. (\A u \in Threads : CallInv(u)') /\ SyncCopySeesEarlierWork' /\ OneDestroyer'
  BY <1>1, <1>3, <1>4, Numbers, WaitersKnown, CallsStand
<1>6. ListInv'
  BY <1>1, <1>3 DEF DeviceInv, ListInv, NumberInv, ListedStreamsExist
<1>7. DeletedIsDrained'
  BY <1>1, <1>3 DEF DeviceInv, DeletedIsDrained
<1>8. \A r \in Streams \ streams' : phase'[r] = "live" =>
        \E u \in Threads : call'[u].step = "deleting" /\ call'[u].at = r
  BY <1>1, <1>3 DEF DeviceInv
<1>9. DeviceInv'
  BY <1>5, <1>6, <1>7, <1>8, Together
<1> QED BY <1>2, <1>9

\* A number is taken on no stream that is being destroyed, and so on none that
\* is off the list.
LEMMA ReserveKeeps ==
  ASSUME TypeOK, DeviceInv, NEW t \in Threads, NEW s \in Streams, Reserve(t, s)
  PROVE  TypeOK' /\ DeviceInv'
<1>1. /\ phase[s] = "live" /\ ~Destroying(s) /\ submit[s] = NoThread
      /\ submit' = [submit EXCEPT ![s] = t]
      /\ last_enqueued' = [last_enqueued EXCEPT ![s] = @ + 1]
      /\ UNCHANGED <<phase, streams, committed, finished, failed, late, call, revoked>>
  BY DEF Reserve, Usable, stream_vars, gpu_vars, call_vars
<1>2. TypeOK'
  BY <1>1 DEF TypeOK
<1>3. \A r \in Streams :
        /\ LastEnqueued(r)' = IF r = s THEN LastEnqueued(r) + 1 ELSE LastEnqueued(r)
        /\ submit'[r] = IF r = s THEN t ELSE submit[r]
  BY <1>1 DEF TypeOK, LastEnqueued
<1>4. s \in streams
  BY <1>1 DEF DeviceInv, Destroying
<1>5. t # NoThread
  BY NobodyAssumption
<1>6. \A u \in Threads : call[u].step = "awaiting" =>
        call[u].target <= LastEnqueued(call[u].at)' \/ u \in revoked'
  BY <1>1, <1>3, WaitersKnown, Numbers
<1>7. \A r \in Streams : Destroying(r) => r # s /\ finished[r] <= committed[r]
  BY <1>1 DEF DeviceInv, NumberInv
<1>8. (\A u \in Threads : CallInv(u)') /\ SyncCopySeesEarlierWork' /\ OneDestroyer'
  BY <1>1, <1>3, <1>6, <1>7, Numbers, CallsStand
<1>9. ListInv'
  BY <1>1, <1>3, <1>4, <1>5, Numbers DEF DeviceInv, ListInv, NumberInv, ListedStreamsExist
<1>10. DeletedIsDrained'
  BY <1>1, <1>3 DEF DeviceInv, DeletedIsDrained
<1>11. \A r \in Streams \ streams' : phase'[r] = "live" =>
         \E u \in Threads : call'[u].step = "deleting" /\ call'[u].at = r
  BY <1>1 DEF DeviceInv
<1>12. DeviceInv'
  BY <1>8, <1>9, <1>10, <1>11, Together
<1> QED BY <1>2, <1>12

\* The holder of the submission lock is on a live stream in the list.
LEMMA HolderListed ==
  ASSUME TypeOK, DeviceInv, NEW s \in Streams, submit[s] # NoThread
  PROVE  /\ phase[s] = "live" /\ s \in streams /\ ~Destroying(s)
         /\ LastEnqueued(s) = committed[s] + 1
  BY DEF DeviceInv, NumberInv, Destroying, CallInv

\* The number committed is the one taken.
LEMMA CommitKeeps ==
  ASSUME TypeOK, DeviceInv, NEW t \in Threads, NEW s \in Streams, Commit(t, s)
  PROVE  TypeOK' /\ DeviceInv'
<1>1. /\ submit[s] = t
      /\ committed' = [committed EXCEPT ![s] = LastEnqueued(s)]
      /\ submit' = [submit EXCEPT ![s] = NoThread]
      /\ UNCHANGED <<phase, streams, last_enqueued, finished, failed, late, call, revoked>>
  BY DEF Commit, stream_vars, gpu_vars, call_vars
<1>2. phase[s] = "live" /\ s \in streams /\ ~Destroying(s)
      /\ LastEnqueued(s) = committed[s] + 1
  BY <1>1, NobodyAssumption, HolderListed
<1>3. TypeOK'
  BY <1>1, Numbers DEF TypeOK
<1>4. \A r \in Streams :
        /\ LastEnqueued(r)' = LastEnqueued(r)
        /\ committed'[r] = IF r = s THEN committed[r] + 1 ELSE committed[r]
        /\ submit'[r] = IF r = s THEN NoThread ELSE submit[r]
  BY <1>1, <1>2 DEF TypeOK, LastEnqueued
<1>5. \A u \in Threads : call[u].step = "awaiting" =>
        call[u].target <= LastEnqueued(call[u].at)' \/ u \in revoked'
  BY <1>1, <1>4, WaitersKnown
<1>6. \A r \in Streams : Destroying(r) => r # s /\ finished[r] <= committed[r]
  BY <1>2 DEF DeviceInv, NumberInv
<1>7. (\A u \in Threads : CallInv(u)') /\ SyncCopySeesEarlierWork' /\ OneDestroyer'
  BY <1>1, <1>4, <1>5, <1>6, Numbers, CallsStand
<1>8. ListInv'
  BY <1>1, <1>2, <1>4, Numbers DEF DeviceInv, ListInv, NumberInv, ListedStreamsExist
<1>9. DeletedIsDrained'
  BY <1>1, <1>2, <1>4 DEF DeviceInv, DeletedIsDrained
<1>10. \A r \in Streams \ streams' : phase'[r] = "live" =>
         \E u \in Threads : call'[u].step = "deleting" /\ call'[u].at = r
  BY <1>1 DEF DeviceInv
<1>11. DeviceInv'
  BY <1>7, <1>8, <1>9, <1>10, Together
<1> QED BY <1>3, <1>11

\* A number given back leaves behind none but the drains that had read it.
LEMMA GiveBackKeeps ==
  ASSUME TypeOK, DeviceInv, NEW t \in Threads, NEW s \in Streams, GiveBack(t, s)
  PROVE  TypeOK' /\ DeviceInv'
<1>1. /\ submit[s] = t
      /\ last_enqueued' = [last_enqueued EXCEPT ![s] = @ - 1]
      /\ submit' = [submit EXCEPT ![s] = NoThread]
      /\ revoked' = revoked \cup Awaiting(s, LastEnqueued(s))
      /\ UNCHANGED <<phase, streams, committed, finished, failed, late, call>>
  BY DEF GiveBack, stream_vars, gpu_vars
<1>2. phase[s] = "live" /\ s \in streams /\ ~Destroying(s)
      /\ LastEnqueued(s) = committed[s] + 1
  BY <1>1, NobodyAssumption, HolderListed
<1>3. \A r \in Streams :
        /\ LastEnqueued(r)' = IF r = s THEN LastEnqueued(r) - 1 ELSE LastEnqueued(r)
        /\ LastEnqueued(r)' \in Nat
        /\ submit'[r] = IF r = s THEN NoThread ELSE submit[r]
  BY <1>1, <1>2, Numbers DEF TypeOK, LastEnqueued
<1>4. TypeOK'
  BY <1>1, <1>3 DEF TypeOK, LastEnqueued, Awaiting
<1>5. ASSUME NEW u \in Threads, call[u].step = "awaiting"
      PROVE  call[u].target <= LastEnqueued(call[u].at)' \/ u \in revoked'
  <2>1. CASE call[u].at = s /\ call[u].target = LastEnqueued(s)
    BY <1>1, <1>5, <2>1 DEF Awaiting
  <2>2. CASE ~(call[u].at = s /\ call[u].target = LastEnqueued(s))
    BY <1>1, <1>3, <1>5, <2>2, WaitersKnown, Numbers
  <2> QED BY <2>1, <2>2
<1>6. \A r \in Streams : Destroying(r) => r # s /\ finished[r] <= committed[r]
  BY <1>2 DEF DeviceInv, NumberInv
<1>7. (\A u \in Threads : CallInv(u)') /\ SyncCopySeesEarlierWork' /\ OneDestroyer'
  BY <1>1, <1>3, <1>5, <1>6, Numbers, CallsStand
<1>8. ListInv'
  BY <1>1, <1>2, <1>3, Numbers DEF DeviceInv, ListInv, NumberInv, ListedStreamsExist
<1>9. DeletedIsDrained'
  BY <1>1, <1>2, <1>3 DEF DeviceInv, DeletedIsDrained
<1>10. \A r \in Streams \ streams' : phase'[r] = "live" =>
         \E u \in Threads : call'[u].step = "deleting" /\ call'[u].at = r
  BY <1>1 DEF DeviceInv
<1>11. DeviceInv'
  BY <1>7, <1>8, <1>9, <1>10, Together
<1> QED BY <1>4, <1>11

\* The GPU finishes only what was committed, so nothing on a drained stream.
LEMMA RunKeeps ==
  ASSUME TypeOK, DeviceInv, NEW s \in Streams, Run(s)
  PROVE  TypeOK' /\ DeviceInv'
<1>1. /\ finished[s] < committed[s]
      /\ finished' = [finished EXCEPT ![s] = finished[s] + 1]
      /\ UNCHANGED <<phase, streams, last_enqueued, submit, committed, call, revoked>>
      /\ failed' = failed \/ failed' = [failed EXCEPT ![s] = TRUE]
      /\ late' = late \/ late' = late \cup {<<s, finished[s] + 1>>}
  BY DEF Run, Upcoming, stream_vars, number_vars, call_vars
<1>2. TypeOK'
  <2>1. finished' \in [Streams -> Nat]
    BY <1>1, Numbers DEF TypeOK
  <2>2. failed' \in [Streams -> BOOLEAN]
    BY <1>1 DEF TypeOK
  <2>3. late' \subseteq Streams \X Nat
    BY <1>1, Numbers DEF TypeOK
  <2> QED BY <1>1, <2>1, <2>2, <2>3 DEF TypeOK
<1>3. \A r \in Streams : /\ finished'[r] = IF r = s THEN finished[r] + 1 ELSE finished[r]
                         /\ LastEnqueued(r)' = LastEnqueued(r)
  BY <1>1 DEF TypeOK, LastEnqueued
<1>4. \A r \in Streams : finished'[r] \in Nat /\ finished'[r] >= finished[r]
                          /\ finished'[r] <= committed[r]
  BY <1>1, <1>3, Numbers DEF DeviceInv, NumberInv
<1>5. (\A u \in Threads : CallInv(u)') /\ SyncCopySeesEarlierWork' /\ OneDestroyer'
  BY <1>1, <1>3, <1>4, Numbers, WaitersKnown, CallsStand
<1>6. s \in streams /\ phase[s] # "deleted"
  <2>1. s \in streams
    BY <1>1, Numbers DEF DeviceInv
  <2> QED BY <2>1 DEF DeviceInv, ListedStreamsExist
<1>7. ListInv'
  BY <1>1, <1>3, <1>4, <1>6, Numbers DEF DeviceInv, ListInv, NumberInv, ListedStreamsExist
<1>8. DeletedIsDrained'
  BY <1>1, <1>3, <1>6 DEF DeviceInv, DeletedIsDrained
<1>9. \A r \in Streams \ streams' : phase'[r] = "live" =>
        \E u \in Threads : call'[u].step = "deleting" /\ call'[u].at = r
  BY <1>1 DEF DeviceInv
<1>10. DeviceInv'
  BY <1>5, <1>7, <1>8, <1>9, Together
<1> QED BY <1>2, <1>10

\* What the invariant is about does not include failures.
LEMMA NoteFailureKeeps ==
  ASSUME TypeOK, DeviceInv, NEW s \in Streams, NEW n \in 1..MaxEnqueued, NoteFailure(s, n)
  PROVE  TypeOK' /\ DeviceInv'
<1>1. /\ failed' = [failed EXCEPT ![s] = TRUE]
      /\ late' \subseteq late
      /\ UNCHANGED <<phase, streams, last_enqueued, submit, committed, finished, call, revoked>>
  BY DEF NoteFailure, stream_vars, number_vars, call_vars
<1>2. TypeOK'
  BY <1>1 DEF TypeOK
<1> QED BY <1>1, <1>2 DEF DeviceInv, NumberInv, CallInv, InDrain, LastEnqueued,
                          SyncCopySeesEarlierWork, ListedStreamsExist, DeletedIsDrained

-----------------------------------------------------------------------------
(***************************************************************************)
(* Steps of a call                                                         *)
(***************************************************************************)

\* A step of one thread's call, which leaves the streams' counters alone: it is
\* enough that it keeps what its own call has established.
LEMMA CallStep ==
  ASSUME TypeOK, DeviceInv, NEW t \in Threads,
         UNCHANGED <<phase, last_enqueued, submit, committed, finished, failed, late>>,
         streams' \subseteq streams,
         call' \in [Threads -> Calls], revoked' \subseteq Threads,
         \A u \in Threads : u # t => call'[u] = call[u] /\ (u \in revoked => u \in revoked'),
         CallInv(t)',
         call'[t].step = "drained" =>
           \A s \in Streams : finished[s] >= call'[t].owed[s],
         \A u \in Threads : /\ u # t
                            /\ call'[t].step \in {"destroying", "deleting"}
                            /\ call[u].step \in {"destroying", "deleting"}
                            => call'[t].at # call[u].at,
         call[t].step # "deleting",
         \A s \in Streams \ streams' :
           s \in streams => /\ call'[t].step = "deleting" /\ call'[t].at = s
                            /\ finished[s] = committed[s] /\ submit[s] = NoThread
  PROVE  TypeOK' /\ DeviceInv'
<1>1. TypeOK'
  BY DEF TypeOK
<1>2. \A s \in Streams : LastEnqueued(s)' = LastEnqueued(s)
  BY DEF LastEnqueued
<1>3. ASSUME NEW u \in Threads PROVE CallInv(u)'
  <2>1. CASE u # t
    <3>1. CallInv(u) /\ call'[u] = call[u] /\ (u \in revoked => u \in revoked')
      BY <2>1 DEF DeviceInv
    <3>2. call[u].step = "destroying" => call[u].at \in streams'
      BY <2>1, <3>1 DEF CallInv
    <3>3. call[u].step = "deleting" => call[u].at \notin streams'
      BY <3>1 DEF CallInv
    <3> QED BY <3>1, <3>2, <3>3 DEF CallInv, InDrain, LastEnqueued
  <2> QED BY <2>1
<1>4. SyncCopySeesEarlierWork'
  BY DEF SyncCopySeesEarlierWork, DeviceInv
<1>5. OneDestroyer'
  BY DEF DeviceInv, OneDestroyer
<1>6. \A r \in Streams \ streams' : phase'[r] = "live" =>
        \E u \in Threads : call'[u].step = "deleting" /\ call'[u].at = r
  <2> SUFFICES ASSUME NEW r \in Streams \ streams', phase[r] = "live"
               PROVE  \E u \in Threads : call'[u].step = "deleting" /\ call'[u].at = r
    OBVIOUS
  <2>1. CASE r \in streams
    BY <2>1
  <2>2. CASE r \notin streams
    <3>1. PICK u \in Threads : call[u].step = "deleting" /\ call[u].at = r
      BY <2>2 DEF DeviceInv
    <3> QED BY <3>1
  <2> QED BY <2>1, <2>2
<1>7. ListInv' /\ DeletedIsDrained'
  BY <1>2 DEF DeviceInv, ListInv, NumberInv, ListedStreamsExist, DeletedIsDrained
<1> QED BY <1>1, <1>3, <1>4, <1>5, <1>6, <1>7, Together

\* DestroyStream waits for the stream's last number, and core enqueues nothing
\* behind it.
LEMMA DestroyKeeps ==
  ASSUME TypeOK, DeviceInv, NEW t \in Threads, NEW s \in Streams, DestroyStream(t, s)
  PROVE  TypeOK' /\ DeviceInv'
<1> DEFINE new == [step |-> "destroying", at |-> s, target |-> LastEnqueued(s),
                   rest |-> {}, owed |-> Nothing]
<1>1. /\ call[t].step = "idle" /\ phase[s] = "live" /\ ~Destroying(s) /\ submit[s] = NoThread
      /\ call' = [call EXCEPT ![t] = new]
      /\ UNCHANGED <<phase, streams, last_enqueued, submit, committed, finished, failed, late,
                     revoked>>
  BY DEF DestroyStream, Free, Usable, Destruction, stream_vars, work_vars, number_vars, gpu_vars
<1>2. new \in Calls
  BY Numbers DEF Calls, Steps, Nothing
<1>3. /\ call' \in [Threads -> Calls] /\ call'[t] = new
      /\ \A u \in Threads : u # t => call'[u] = call[u]
      /\ revoked' = revoked /\ revoked \subseteq Threads
  BY <1>1, <1>2 DEF TypeOK
<1>4. LastEnqueued(s) = committed[s] /\ s \in streams
  BY <1>1 DEF DeviceInv, NumberInv, Destroying
<1>5. CallInv(t)'
  BY <1>1, <1>3, <1>4 DEF CallInv, InDrain, LastEnqueued
<1>6. \A u \in Threads : call[u].step \in {"destroying", "deleting"} => s # call[u].at
  BY <1>1 DEF Destroying
<1> QED BY <1>1, <1>3, <1>5, <1>6, CallStep

\* The stream leaves the list drained.
LEMMA RemoveKeeps ==
  ASSUME TypeOK, DeviceInv, NEW t \in Threads, RemoveStream(t)
  PROVE  TypeOK' /\ DeviceInv'
<1> DEFINE c == call[t]
           new == [c EXCEPT !.step = "deleting"]
<1>1. /\ c.step = "destroying" /\ finished[c.at] >= c.target
      /\ streams' = streams \ {c.at}
      /\ call' = [call EXCEPT ![t].step = "deleting"]
      /\ UNCHANGED <<phase, last_enqueued, submit, committed, finished, failed, late, revoked>>
  BY DEF RemoveStream, work_vars, number_vars, gpu_vars
<1>2. c \in Calls
  BY DEF TypeOK
<1>3. new \in Calls /\ new.step = "deleting" /\ new.at = c.at
  BY <1>2 DEF Calls, Steps
<1>4. /\ call' \in [Threads -> Calls] /\ call'[t] = new
      /\ \A u \in Threads : u # t => call'[u] = call[u]
      /\ revoked' = revoked /\ revoked \subseteq Threads
  BY <1>1, <1>3 DEF TypeOK
<1>5. /\ c.at \in Streams /\ phase[c.at] = "live" /\ finished[c.at] = committed[c.at]
      /\ submit[c.at] = NoThread
  <2>1. /\ c.at \in Streams /\ phase[c.at] = "live" /\ c.target = committed[c.at]
        /\ submit[c.at] = NoThread
    BY <1>1 DEF DeviceInv, CallInv
  <2> QED BY <2>1, <1>1, Numbers DEF DeviceInv, NumberInv
<1>6. CallInv(t)'
  BY <1>1, <1>3, <1>4, <1>5 DEF CallInv, InDrain, LastEnqueued
<1>7. \A u \in Threads : u # t /\ call[u].step \in {"destroying", "deleting"} =>
                           c.at # call[u].at
  BY <1>1 DEF DeviceInv
<1> QED BY <1>1, <1>3, <1>4, <1>5, <1>6, <1>7, CallStep

\* The deleted stream is off the list and drained.
LEMMA DeleteKeeps ==
  ASSUME TypeOK, DeviceInv, NEW t \in Threads, DeleteStream(t)
  PROVE  TypeOK' /\ DeviceInv'
<1> DEFINE c == call[t]
<1>1. /\ c.step = "deleting"
      /\ phase' = [phase EXCEPT ![c.at] = "deleted"]
      /\ call' = [call EXCEPT ![t] = Idle]
      /\ UNCHANGED <<streams, last_enqueued, submit, committed, finished, failed, late, revoked>>
  BY DEF DeleteStream, work_vars, number_vars, gpu_vars
<1>2. /\ c.at \in Streams /\ finished[c.at] = committed[c.at] /\ c.at \notin streams
      /\ submit[c.at] = NoThread /\ LastEnqueued(c.at) = committed[c.at]
  BY <1>1 DEF DeviceInv, CallInv, NumberInv
<1>3. \A r \in Streams : phase'[r] = IF r = c.at THEN "deleted" ELSE phase[r]
  BY <1>1 DEF TypeOK
<1>4. /\ call'[t] = Idle
      /\ \A u \in Threads : u # t => call'[u] = call[u]
  BY <1>1 DEF TypeOK
<1>5. TypeOK'
  BY <1>1, IdleIsCall DEF TypeOK, Phases
<1>6. \A r \in Streams : LastEnqueued(r)' = LastEnqueued(r)
  BY <1>1 DEF LastEnqueued
<1>7. ASSUME NEW u \in Threads PROVE CallInv(u)'
  <2>1. CASE u = t
    BY <2>1, <1>4, IdleIsCall DEF CallInv, InDrain
  <2>2. CASE u # t
    <3>1. CallInv(u) /\ call'[u] = call[u]
      BY <2>2, <1>4 DEF DeviceInv
    <3>2. call[u].step \in {"destroying", "deleting"} => call[u].at # c.at
      BY <1>1, <2>2 DEF DeviceInv
    <3> QED BY <3>1, <3>2, <1>1, <1>3 DEF CallInv, InDrain, LastEnqueued
  <2> QED BY <2>1, <2>2
<1>8. SyncCopySeesEarlierWork'
  BY <1>1, <1>4, IdleIsCall DEF SyncCopySeesEarlierWork, DeviceInv
<1>9. OneDestroyer'
  BY <1>4, IdleIsCall DEF DeviceInv, OneDestroyer
<1>10. \A r \in Streams \ streams' : phase'[r] = "live" =>
         \E u \in Threads : call'[u].step = "deleting" /\ call'[u].at = r
  <2> SUFFICES ASSUME NEW r \in Streams \ streams, phase[r] = "live", r # c.at
               PROVE  \E u \in Threads : call'[u].step = "deleting" /\ call'[u].at = r
    BY <1>1, <1>3
  <2>1. PICK u \in Threads : call[u].step = "deleting" /\ call[u].at = r
    BY DEF DeviceInv
  <2> QED BY <2>1, <1>4
<1>11. ListInv'
  BY <1>1, <1>2, <1>3, <1>6 DEF DeviceInv, ListInv, NumberInv, ListedStreamsExist
<1>12. DeletedIsDrained'
  BY <1>1, <1>2, <1>3, <1>6 DEF DeviceInv, DeletedIsDrained
<1> QED BY <1>5, <1>7, <1>8, <1>9, <1>10, <1>11, <1>12, Together

\* A stream that is not in the snapshot has nothing outstanding.
LEMMA SnapshotKeeps ==
  ASSUME TypeOK, DeviceInv, NEW t \in Threads, BlockUntilIdle(t)
  PROVE  TypeOK' /\ DeviceInv'
<1> DEFINE new == [step |-> "draining", at |-> NoStream, target |-> 0, rest |-> streams,
                   owed |-> committed]
<1>1. /\ call[t].step = "idle"
      /\ call' = [call EXCEPT ![t] = new]
      /\ UNCHANGED <<phase, streams, last_enqueued, submit, committed, finished, failed, late,
                     revoked>>
  BY DEF BlockUntilIdle, Free, Drain, stream_vars, work_vars, number_vars, gpu_vars
<1>2. new \in Calls
  BY DEF Calls, Steps, TypeOK
<1>3. /\ call' \in [Threads -> Calls] /\ call'[t] = new
      /\ \A u \in Threads : u # t => call'[u] = call[u]
      /\ revoked' = revoked /\ revoked \subseteq Threads
  BY <1>1, <1>2 DEF TypeOK
<1>4. /\ \A s \in Streams \ streams : finished[s] >= committed[s]
      /\ \A s \in Streams : committed[s] <= committed[s]
  BY Numbers DEF DeviceInv
<1>5. CallInv(t)'
  BY <1>1, <1>3, <1>4 DEF CallInv, InDrain
<1> QED BY <1>1, <1>3, <1>5, CallStep

\* A number read covers what was committed before.
LEMMA LastCovers ==
  ASSUME TypeOK, DeviceInv, NEW s \in Streams
  PROVE  committed[s] <= LastEnqueued(s)
  BY Numbers DEF DeviceInv, NumberInv

\* What a drain waits for at a stream covers what it owes there; a stream that
\* never had a number owes nothing.
LEMMA ReadTargetKeeps ==
  ASSUME TypeOK, DeviceInv, NEW t \in Threads, NEW s \in Streams, ReadTarget(t, s)
  PROVE  TypeOK' /\ DeviceInv'
<1> DEFINE c == call[t]
<1>1. /\ c.step = "draining" /\ s \in c.rest
      /\ UNCHANGED <<phase, streams, last_enqueued, submit, committed, finished, failed, late,
                     revoked>>
      /\ c \in Calls /\ CallInv(t) /\ call \in [Threads -> Calls] /\ revoked \subseteq Threads
  BY DEF ReadTarget, stream_vars, work_vars, number_vars, gpu_vars, TypeOK, DeviceInv
<1>2. /\ c.rest \subseteq Streams /\ c.owed \in [Streams -> Nat]
      /\ \A r \in Streams \ c.rest : finished[r] >= c.owed[r]
      /\ \A r \in Streams : c.owed[r] <= committed[r]
  BY <1>1, CallFields DEF CallInv, InDrain
<1>3. CASE LastEnqueued(s) = 0
  <2> DEFINE new == [c EXCEPT !.rest = @ \ {s}]
  <2>1. call' = [call EXCEPT ![t].rest = @ \ {s}]
    BY <1>3 DEF ReadTarget
  <2>2. new \in Calls /\ new.step = "draining" /\ new.rest = c.rest \ {s} /\ new.owed = c.owed
    BY <1>1 DEF Calls
  <2>3. /\ call' \in [Threads -> Calls] /\ call'[t] = new
        /\ \A u \in Threads : u # t => call'[u] = call[u]
    BY <1>1, <2>1, <2>2
  <2>4. finished[s] >= c.owed[s]
    BY <1>2, <1>3, Numbers, LastCovers
  <2>5. CallInv(t)'
    BY <1>1, <1>2, <2>2, <2>3, <2>4 DEF CallInv, InDrain
  <2> QED BY <1>1, <2>2, <2>3, <2>5, CallStep
<1>4. CASE LastEnqueued(s) # 0
  <2> DEFINE new == [c EXCEPT !.step = "awaiting", !.at = s, !.target = LastEnqueued(s)]
  <2>1. call' = [call EXCEPT ![t] = new]
    BY <1>1, <1>4 DEF ReadTarget
  <2>2. /\ new \in Calls /\ new.step = "awaiting" /\ new.rest = c.rest /\ new.owed = c.owed
        /\ new.at = s /\ new.target = LastEnqueued(s)
    BY <1>1, Numbers DEF Calls, Steps
  <2>3. /\ call' \in [Threads -> Calls] /\ call'[t] = new
        /\ \A u \in Threads : u # t => call'[u] = call[u]
    BY <1>1, <2>1, <2>2
  <2>4. LastEnqueued(s) <= LastEnqueued(s) /\ LastEnqueued(s) >= c.owed[s]
    BY <1>2, Numbers, LastCovers
  <2>5. CallInv(t)'
    BY <1>1, <1>2, <2>2, <2>3, <2>4 DEF CallInv, InDrain, LastEnqueued
  <2> QED BY <1>1, <2>2, <2>3, <2>5, CallStep
<1> QED BY <1>3, <1>4

\* Past its wait, a drain has seen to the stream.
LEMMA AwaitKeeps ==
  ASSUME TypeOK, DeviceInv, NEW t \in Threads, Await(t)
  PROVE  TypeOK' /\ DeviceInv'
<1> DEFINE c == call[t]
           new == [c EXCEPT !.step = "draining", !.rest = @ \ {c.at}, !.at = NoStream,
                            !.target = 0]
<1>1. /\ c.step = "awaiting" /\ finished[c.at] >= c.target
      /\ call' = [call EXCEPT ![t] = new]
      /\ revoked' = revoked \ {t} /\ revoked \subseteq Threads
      /\ UNCHANGED <<phase, streams, last_enqueued, submit, committed, finished, failed, late>>
      /\ c \in Calls /\ CallInv(t) /\ call \in [Threads -> Calls]
  BY DEF Await, stream_vars, work_vars, number_vars, gpu_vars, TypeOK, DeviceInv
<1>2. /\ c.rest \subseteq Streams /\ c.owed \in [Streams -> Nat] /\ c.target \in Nat
      /\ \A r \in Streams \ c.rest : finished[r] >= c.owed[r]
      /\ \A r \in Streams : c.owed[r] <= committed[r]
      /\ c.at \in c.rest /\ c.target >= c.owed[c.at]
  BY <1>1, CallFields DEF CallInv, InDrain
<1>3. /\ new \in Calls /\ new.step = "draining" /\ new.rest = c.rest \ {c.at}
      /\ new.owed = c.owed
  BY <1>1, <1>2 DEF Calls, Steps
<1>4. /\ call' \in [Threads -> Calls] /\ call'[t] = new /\ revoked' \subseteq Threads
      /\ \A u \in Threads : u # t => call'[u] = call[u] /\ (u \in revoked => u \in revoked')
  BY <1>1, <1>3
<1>5. finished[c.at] >= c.owed[c.at]
  BY <1>1, <1>2, Numbers
<1>6. CallInv(t)'
  BY <1>1, <1>2, <1>3, <1>4, <1>5 DEF CallInv, InDrain
<1> QED BY <1>1, <1>3, <1>4, <1>6, CallStep

\* A drain past a deleted stream is followed no further.
LEMMA TouchKeeps ==
  ASSUME TypeOK, DeviceInv, NEW t \in Threads, TouchDeleted(t)
  PROVE  TypeOK' /\ DeviceInv'
<1> DEFINE c == call[t]
           new == [c EXCEPT !.step = "undefined"]
<1>1. /\ c.step \in {"draining", "awaiting"}
      /\ call' = [call EXCEPT ![t].step = "undefined"]
      /\ UNCHANGED <<phase, streams, last_enqueued, submit, committed, finished, failed, late,
                     revoked>>
      /\ c \in Calls /\ call \in [Threads -> Calls] /\ revoked \subseteq Threads
  BY DEF TouchDeleted, stream_vars, work_vars, number_vars, gpu_vars, TypeOK
<1>2. new \in Calls /\ new.step = "undefined"
  BY <1>1 DEF Calls, Steps
<1>3. /\ call' \in [Threads -> Calls] /\ call'[t] = new
      /\ \A u \in Threads : u # t => call'[u] = call[u]
  BY <1>1, <1>2
<1>4. CallInv(t)'
  BY <1>2, <1>3 DEF CallInv, InDrain
<1> QED BY <1>1, <1>2, <1>3, <1>4, CallStep

\* A drain with no stream left has seen to them all.
LEMMA FinishKeeps ==
  ASSUME TypeOK, DeviceInv, NEW t \in Threads, FinishDrain(t)
  PROVE  TypeOK' /\ DeviceInv'
<1> DEFINE c == call[t]
           new == [c EXCEPT !.step = "drained"]
<1>1. /\ c.step = "draining" /\ c.rest = {}
      /\ call' = [call EXCEPT ![t].step = "drained"]
      /\ UNCHANGED <<phase, streams, last_enqueued, submit, committed, finished, failed, late,
                     revoked>>
      /\ c \in Calls /\ CallInv(t) /\ call \in [Threads -> Calls] /\ revoked \subseteq Threads
  BY DEF FinishDrain, stream_vars, work_vars, number_vars, gpu_vars, TypeOK, DeviceInv
<1>2. new \in Calls /\ new.step = "drained" /\ new.owed = c.owed
  BY <1>1 DEF Calls, Steps
<1>3. /\ call' \in [Threads -> Calls] /\ call'[t] = new
      /\ \A u \in Threads : u # t => call'[u] = call[u]
  BY <1>1, <1>2
<1>4. \A s \in Streams : finished[s] >= call'[t].owed[s]
  BY <1>1, <1>2, <1>3 DEF CallInv, InDrain
<1>5. CallInv(t)'
  BY <1>2, <1>3 DEF CallInv, InDrain
<1> QED BY <1>1, <1>2, <1>3, <1>4, <1>5, CallStep

\* A call that has returned has nothing left to keep to.
LEMMA ReturnKeeps ==
  ASSUME TypeOK, DeviceInv, NEW t \in Threads, ReturnDrained(t)
  PROVE  TypeOK' /\ DeviceInv'
<1>1. /\ call[t].step = "drained"
      /\ call' = [call EXCEPT ![t] = Idle]
      /\ UNCHANGED <<phase, streams, last_enqueued, submit, committed, finished, failed, late,
                     revoked>>
  BY DEF ReturnDrained, stream_vars, work_vars, number_vars, gpu_vars
<1>2. /\ call' \in [Threads -> Calls] /\ call'[t] = Idle /\ revoked \subseteq Threads
      /\ \A u \in Threads : u # t => call'[u] = call[u]
  BY <1>1, IdleIsCall DEF TypeOK
<1>3. CallInv(t)'
  BY <1>2, IdleIsCall DEF CallInv, InDrain
<1> QED BY <1>1, <1>2, <1>3, IdleIsCall, CallStep

-----------------------------------------------------------------------------
\* A stream off the device's list has nothing outstanding, and every drain and
\* destruction has waited for what it set out to wait for.
THEOREM DeviceInvHolds == Spec => [](TypeOK /\ DeviceInv)
<1>1. Init => TypeOK /\ DeviceInv
  BY DeviceInit
<1>2. TypeOK /\ DeviceInv /\ [Next]_vars => TypeOK' /\ DeviceInv'
  <2> SUFFICES ASSUME TypeOK, DeviceInv, [Next]_vars PROVE TypeOK' /\ DeviceInv'
    OBVIOUS
  <2>1. CASE UNCHANGED vars
    BY <2>1 DEF vars, stream_vars, work_vars, number_vars, gpu_vars, call_vars, TypeOK,
                DeviceInv, NumberInv, CallInv, InDrain, LastEnqueued,
                SyncCopySeesEarlierWork, ListedStreamsExist, DeletedIsDrained
  <2>2. ASSUME NEW t \in Threads, Begin(t) PROVE TypeOK' /\ DeviceInv'
    BY <2>2, CreateKeeps, DestroyKeeps, ReserveKeeps, SnapshotKeeps DEF Begin
  <2>3. ASSUME NEW t \in Threads, Continue(t) PROVE TypeOK' /\ DeviceInv'
    BY <2>3, RemoveKeeps, DeleteKeeps, CommitKeeps, GiveBackKeeps, ReadTargetKeeps, AwaitKeeps,
       TouchKeeps, FinishKeeps, ReturnKeeps
    DEF Continue
  <2> QED BY <2>1, <2>2, <2>3, RunKeeps, NoteFailureKeeps DEF Next
<1> QED BY <1>1, <1>2, PTL DEF Spec

\* A synchronous copy starts only when everything committed before it, on any
\* stream, has finished (SyncCopy, BlockUntilIdle), whatever streams are
\* created and destroyed and whatever numbers are given back during it.
THEOREM SyncCopySeesEarlierWorkHolds == Spec => []SyncCopySeesEarlierWork
<1>1. TypeOK /\ DeviceInv => SyncCopySeesEarlierWork
  BY DEF DeviceInv
<1> QED BY <1>1, DeviceInvHolds, PTL

\* DestroyStream deletes no stream with work outstanding.
THEOREM DeletedIsDrainedHolds == Spec => []DeletedIsDrained
<1>1. TypeOK /\ DeviceInv => DeletedIsDrained
  BY DEF DeviceInv
<1> QED BY <1>1, DeviceInvHolds, PTL

\* The list of which a drain takes its snapshot names no deleted stream: what
\* it may touch was deleted after the drain began (DestroyStream).
THEOREM ListedStreamsExistHolds == Spec => []ListedStreamsExist
<1>1. TypeOK /\ DeviceInv => ListedStreamsExist
  BY DEF DeviceInv
<1> QED BY <1>1, DeviceInvHolds, PTL

\* What a drain of the device or the destruction of a stream waits for is a
\* committed number, or one whose buffer a thread is encoding, unless the
\* number was given back or the stream deleted under the drain.
THEOREM HeldUpByWorkOnlyHolds == Spec => []HeldUpByWorkOnly
<1>1. TypeOK /\ DeviceInv => HeldUpByWorkOnly
  <2> SUFFICES ASSUME TypeOK, DeviceInv, NEW t \in Threads
               PROVE  LET c == call[t] IN
                      /\ c.step = "awaiting" =>
                           \/ phase[c.at] = "deleted" \/ t \in revoked
                           \/ c.target <= committed[c.at]
                           \/ c.target = committed[c.at] + 1 /\ submit[c.at] # NoThread
                      /\ c.step = "destroying" =>
                           phase[c.at] = "live" /\ c.target <= committed[c.at]
    BY DEF HeldUpByWorkOnly
  <2> DEFINE c == call[t]
  <2>1. CASE c.step = "awaiting"
    <3>1. /\ c.at \in Streams /\ c.target \in Nat
          /\ c.target <= LastEnqueued(c.at) \/ t \in revoked
      BY <2>1, WaitersKnown
    <3>2. LastEnqueued(c.at) = IF submit[c.at] = NoThread THEN committed[c.at]
                                                         ELSE committed[c.at] + 1
      BY <3>1 DEF DeviceInv, NumberInv
    <3> QED BY <2>1, <3>1, <3>2, Numbers
  <2>2. CASE c.step = "destroying"
    BY <2>2, Numbers DEF DeviceInv, CallInv
  <2> QED BY <2>1, <2>2
<1> QED BY <1>1, DeviceInvHolds, PTL

=============================================================================

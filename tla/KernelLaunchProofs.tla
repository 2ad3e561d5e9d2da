------------------------- MODULE KernelLaunchProofs -------------------------
(***************************************************************************)
(* The graph cache under any number of racing kernels, the profiles of any *)
(* number of sessions, and the types of everything a launch touches.       *)
(***************************************************************************)
EXTENDS KernelLaunch, FiniteSetTheorems, TLAPS

-----------------------------------------------------------------------------
(***************************************************************************)
(* Types                                                                   *)
(***************************************************************************)

TypeInv == TypeOK /\ IsFiniteSet(metadata)

\* Types hold at the start.
LEMMA TypeInit == Init => TypeInv
<1> SUFFICES ASSUME Init PROVE TypeInv OBVIOUS
<1>1. IsFiniteSet({}) BY FS_EmptySet
<1>2. call \in [Threads -> Calls] BY DEF Init, Calls
<1>3. queue \in Seq(Buffers) /\ profiles \in Seq(SUBSET Events) BY DEF Init
<1>4. entries \in [Keys -> Graphs \cup {Nothing}] BY DEF Init
<1>5. graphs \in [Graphs -> [life : {"unbuilt", "live", "freed"},
                            key : Keys \cup {Nothing}]]
  BY DEF Init
<1>6. ended \in 0..Len(queue) BY DEF Init
<1> QED BY <1>1, <1>2, <1>3, <1>4, <1>5, <1>6 DEF Init, TypeInv, TypeOK

\* The steps of a launch keep the types.
LEMMA TypeLaunch ==
  ASSUME TypeOK, NEW t \in Threads, Launch(t) PROVE TypeOK'
<1>1. ASSUME NEW op \in Ops, StreamForContext(t, op) PROVE TypeOK'
  <2>2. [step |-> "launched", op |-> op, graph |-> Nothing] \in Calls BY DEF Calls
  <2>3. call' \in [Threads -> Calls] BY <1>1, <2>2 DEF StreamForContext, TypeOK
  <2>4. current' \in [Threads -> Ops \cup {Nothing}]
    BY <1>1 DEF StreamForContext, TypeOK
  <2> QED BY <1>1, <2>3, <2>4
        DEF StreamForContext, TypeOK, cache_vars, stream_vars, handler_vars,
            session_vars, core_vars
<1>2. ASSUME call[t].step \in {"launched", "building"}
      PROVE  /\ call[t].op \in Ops
             /\ Key(t) \in Keys
             /\ \A g \in Graphs : Running(t, g) \in [Threads -> Calls]
             /\ \A g \in Graphs :
                  GoOn(t, "building", g) \in [Threads -> Calls]
             /\ call[t].step = "building" => call[t].graph \in Graphs
  <2>1. call[t] \in Calls /\ call \in [Threads -> Calls] BY DEF TypeOK
  <2>2. /\ call[t] = [step |-> call[t].step, op |-> call[t].op, graph |-> call[t].graph]
        /\ call[t].op \in Ops
        /\ call[t].step = "building" => call[t].graph \in Graphs
    BY <1>2, <2>1 DEF Calls, Idle
  <2>3. Key(t) \in Keys BY <2>2, OpsAssumption DEF Key
  <2>4. ASSUME NEW g \in Graphs, NEW s \in {"building", "running"}
        PROVE  GoOn(t, s, g) \in [Threads -> Calls]
    <3>1. [step |-> s, op |-> call[t].op, graph |-> g] \in Calls BY <2>2 DEF Calls
    <3> QED BY <2>1, <3>1 DEF GoOn
  <2> QED BY <2>2, <2>3, <2>4 DEF Running
<1>3. CASE Hit(t)
  <2>1. call[t].step = "launched" BY <1>3 DEF Hit
  <2>2. entries[Key(t)] \in Graphs BY <1>2, <1>3, <2>1 DEF Hit, TypeOK
  <2>3. call' \in [Threads -> Calls] BY <1>2, <1>3, <2>1, <2>2 DEF Hit
  <2> QED BY <1>3, <2>3 DEF Hit, TypeOK, cache_vars, stream_vars, handler_vars,
                            session_vars, core_vars
<1>4. ASSUME NEW g \in Graphs, Miss(t, g) PROVE TypeOK'
  <2>1. call[t].step = "launched" BY <1>4 DEF Miss
  <2>2. call' \in [Threads -> Calls] BY <1>2, <1>4, <2>1 DEF Miss
  <2>3. graphs' \in [Graphs -> [life : {"unbuilt", "live", "freed"},
                                key : Keys \cup {Nothing}]]
    BY <1>2, <1>4, <2>1 DEF Miss, TypeOK
  <2> QED BY <1>4, <2>2, <2>3 DEF Miss, TypeOK, stream_vars, handler_vars,
                                  session_vars, core_vars
<1>5. CASE BuildFails(t)
  <2>1. call[t].step = "building" BY <1>5 DEF BuildFails
  <2>2. call' \in [Threads -> Calls] BY <1>5 DEF BuildFails, TypeOK, Calls
  <2>3. graphs' \in [Graphs -> [life : {"unbuilt", "live", "freed"},
                                key : Keys \cup {Nothing}]]
    BY <1>2, <1>5, <2>1 DEF BuildFails, TypeOK
  <2> QED BY <1>5, <2>2, <2>3 DEF BuildFails, TypeOK, stream_vars, handler_vars,
                                  session_vars, core_vars
<1>6. CASE Publish(t)
  <2> DEFINE kept == IF entries[Key(t)] = Nothing THEN call[t].graph
                                                  ELSE entries[Key(t)]
  <2>1. call[t].step = "building" BY <1>6 DEF Publish
  <2>2. kept \in Graphs BY <1>2, <2>1 DEF TypeOK
  <2>3. call' \in [Threads -> Calls] BY <1>2, <1>6, <2>1, <2>2 DEF Publish
  <2>4. entries' \in [Keys -> Graphs \cup {Nothing}] BY <1>6, <2>2 DEF Publish, TypeOK
  <2>5. graphs' \in [Graphs -> [life : {"unbuilt", "live", "freed"},
                                key : Keys \cup {Nothing}]]
    BY <1>2, <1>6, <2>1 DEF Publish, TypeOK
  <2> QED BY <1>6, <2>3, <2>4, <2>5 DEF Publish, TypeOK, stream_vars, handler_vars,
                                        session_vars, core_vars
<1>7. CASE RunGraph(t)
  <2>1. call[t] \in Calls /\ call[t].step = "running" BY <1>7 DEF RunGraph, TypeOK
  <2>2. call[t].op \in Ops /\ call[t].graph \in Graphs BY <2>1 DEF Calls, Idle
  <2>3. queue' \in Seq(Buffers) /\ Len(queue') >= Len(queue)
    <3>1. queue \in Seq(Buffers) /\ Len(queue) \in Nat BY DEF TypeOK
    <3>2. CASE UNCHANGED queue BY <3>1, <3>2
    <3>3. CASE Committed(t, call[t].op, call[t].graph, FALSE)
      <4> DEFINE b == [op |-> call[t].op, label |-> current[t],
                       graph |-> call[t].graph, host |-> FALSE]
      <4>1. b \in Buffers BY <2>2 DEF Buffers, TypeOK
      <4>2. queue' = Append(queue, b) BY <3>3 DEF Committed
      <4> HIDE DEF b
      <4> QED BY <3>1, <4>1, <4>2
    <3> QED BY <1>7, <3>2, <3>3 DEF RunGraph
  <2>4. call' \in [Threads -> Calls] BY <1>7 DEF RunGraph, TypeOK, Calls
  <2>5. ended' \in 0..Len(queue') BY <1>7, <2>3 DEF RunGraph, TypeOK
  <2> QED BY <1>7, <2>3, <2>4, <2>5 DEF RunGraph, TypeOK, cache_vars, handler_vars,
                                        session_vars, core_vars
<1> QED BY <1>1, <1>3, <1>4, <1>5, <1>6, <1>7 DEF Launch

\* A name's id is a number, and the name of a buffer a name.
LEMMA MetadataTypes ==
  ASSUME TypeInv, NEW i \in 1..Len(queue)
  PROVE  NameOf(i) \in Named /\ MetadataId(NameOf(i)) \in Nat
<1>1. queue[i] \in Buffers BY DEF TypeInv, TypeOK
<1>2. NameOf(i) \in Named BY <1>1 DEF NameOf, Named, Buffers
<1>3. Ids(NameOf(i)) \subseteq Nat BY DEF Ids, TypeInv, TypeOK
<1>4. Cardinality(metadata) \in Nat BY FS_CardinalityType DEF TypeInv
<1>5. MetadataId(NameOf(i)) \in Nat BY <1>3, <1>4 DEF MetadataId
<1> QED BY <1>2, <1>5

\* The handlers and the session keep the types.
LEMMA TypeSession ==
  ASSUME TypeInv,
         \/ \E i \in 1..Len(queue) : NoteTiming(i) \/ HostCompletion(i) \/ Record(i)
         \/ Start \/ Stop \/ CollectSize \/ CollectBytes
  PROVE  TypeInv'
<1> USE DEF cache_vars, thread_vars, stream_vars, handler_vars, session_vars, core_vars
<1>1. ASSUME NEW i \in 1..Len(queue), NoteTiming(i) \/ HostCompletion(i) PROVE TypeInv'
  BY <1>1 DEF NoteTiming, HostCompletion, TypeInv, TypeOK
<1>2. ASSUME NEW i \in 1..Len(queue), Record(i) PROVE TypeInv'
  <2>1. i \in 1..ended BY <1>2 DEF Record, TypeInv, TypeOK
  <2>2. noting' \subseteq 1..ended /\ handled' \subseteq 1..ended
    BY <1>2, <2>1 DEF Record, TypeInv, TypeOK
  <2>3. /\ samples' \subseteq Samples
        /\ metadata' \subseteq [name : Named, id : Nat]
        /\ IsFiniteSet(metadata')
    <3>1. CASE Sample(i)
      <4>1. [buffer |-> i, id |-> MetadataId(NameOf(i))] \in Samples
        BY MetadataTypes DEF Samples
      <4>2. [name |-> NameOf(i), id |-> MetadataId(NameOf(i))] \in [name : Named, id : Nat]
        BY MetadataTypes
      <4>3. IsFiniteSet(metadata') BY <3>1, FS_AddElement DEF Sample, TypeInv
      <4> QED BY <3>1, <4>1, <4>2, <4>3 DEF Sample, TypeInv, TypeOK
    <3>2. CASE UNCHANGED <<samples, metadata>> BY <3>2 DEF TypeInv, TypeOK
    <3> QED BY <1>2, <3>1, <3>2 DEF Record
  <2> QED BY <1>2, <2>2, <2>3 DEF Record, TypeInv, TypeOK
<1>3. CASE Start
  <2>1. IsFiniteSet({}) BY FS_EmptySet
  <2> QED BY <1>3, <2>1 DEF Start, TypeInv, TypeOK
<1>4. CASE Stop BY <1>4 DEF Stop, TypeInv, TypeOK
<1>5. CASE CollectSize
  <2>1. \A id : Resolve(id) \in Named \cup {Nothing} BY DEF Resolve, TypeInv, TypeOK
  <2>2. pending' \subseteq Events
    BY <1>5, <2>1 DEF CollectSize, Events, Samples, TypeInv, TypeOK
  <2>3. collected' \in BOOLEAN BY <1>5 DEF CollectSize, TypeInv, TypeOK
  <2> QED BY <1>5, <2>2, <2>3 DEF CollectSize, TypeInv, TypeOK
<1>6. CASE CollectBytes
  <2>1. profiles' \in Seq(SUBSET Events) BY <1>6 DEF CollectBytes, TypeInv, TypeOK
  <2> QED BY <1>6, <2>1 DEF CollectBytes, TypeInv, TypeOK
<1> QED BY <1>1, <1>2, <1>3, <1>4, <1>5, <1>6

\* Every step keeps the types.
LEMMA TypeStep == TypeInv /\ [Next]_vars => TypeInv'
<1> SUFFICES ASSUME TypeInv, [Next]_vars PROVE TypeInv' OBVIOUS
<1>1. ASSUME NEW t \in Threads, Launch(t) PROVE TypeInv'
  <2>2. metadata' = metadata
    BY <1>1 DEF Launch, StreamForContext, Hit, Miss, BuildFails, Publish, RunGraph,
                session_vars
  <2> QED BY <1>1, <2>2, TypeLaunch DEF TypeInv
<1>2. ASSUME NEW t \in Threads, RuntimeWork(t) PROVE TypeInv'
  <2>2. queue' \in Seq(Buffers) /\ Len(queue') = Len(queue) + 1
    BY <1>2 DEF RuntimeWork, Committed, Buffers, TypeInv, TypeOK
  <2>3. ended' \in 0..Len(queue') BY <1>2, <2>2 DEF RuntimeWork, TypeInv, TypeOK
  <2> QED BY <1>2, <2>2, <2>3
        DEF RuntimeWork, TypeInv, TypeOK, cache_vars, thread_vars, handler_vars,
            session_vars, core_vars
<1>3. CASE End
  BY <1>3 DEF End, TypeInv, TypeOK, cache_vars, thread_vars, handler_vars,
              session_vars, core_vars
<1>4. CASE UNCHANGED vars
  BY <1>4 DEF vars, TypeInv, TypeOK, cache_vars, thread_vars, stream_vars,
              handler_vars, session_vars, core_vars
<1> QED BY <1>1, <1>2, <1>3, <1>4, TypeSession DEF Next

\* Every variable of a launch keeps its type.
THEOREM TypeCorrect == Spec => []TypeOK
<1>1. Spec => []TypeInv BY TypeInit, TypeStep, PTL DEF Spec
<1> QED BY <1>1, PTL DEF TypeInv

-----------------------------------------------------------------------------
(***************************************************************************)
(* The graph cache                                                         *)
(***************************************************************************)

\* The cache's invariant holds at the start.
LEMMA CacheInit == Init => CacheInv
BY DEF Init, CacheInv, RunsPublishedGraph, NoGraphLost, Idle

\* A thread inside a kernel has an op, and a graph once it has built one.
LEMMA CallShape ==
  ASSUME TypeOK, NEW t \in Threads, call[t].step # "idle"
  PROVE  /\ call[t].op \in Ops /\ Key(t) \in Keys
         /\ call[t].step \in {"building", "running"} => call[t].graph \in Graphs
<1>1. call[t] \in Calls BY DEF TypeOK
<1>2. call[t].op \in Ops BY <1>1 DEF Calls, Idle
<1>3. call[t].step \in {"building", "running"} => call[t].graph \in Graphs
  BY <1>1 DEF Calls, Idle
<1> QED BY <1>2, <1>3, OpsAssumption DEF Key

\* A live graph of a key is live, and of that key.
LEMMA LiveFields ==
  ASSUME NEW r, NEW k, r = [life |-> "live", key |-> k]
  PROVE  r.life = "live" /\ r.key = k
OBVIOUS

\* What a committed buffer runs was built for its op.
LEMMA QueueShape ==
  ASSUME TypeOK, NEW i \in 1..Len(queue), queue[i].graph # Nothing, CacheInv
  PROVE  /\ queue[i].graph \in Graphs
         /\ queue[i].graph = entries[KeyOf[queue[i].op]]
         /\ graphs[queue[i].graph] = [life |-> "live", key |-> KeyOf[queue[i].op]]
<1>1. queue[i] \in Buffers BY DEF TypeOK
<1>2. queue[i].graph \in Graphs BY <1>1 DEF Buffers
<1>3. /\ queue[i].graph = entries[KeyOf[queue[i].op]]
      /\ graphs[queue[i].graph] = [life |-> "live", key |-> KeyOf[queue[i].op]]
  BY DEF CacheInv, RunsPublishedGraph
<1> QED BY <1>2, <1>3

\* The cache's invariant speaks of nothing but these.
LEMMA CacheUnchanged ==
  ASSUME CacheInv, UNCHANGED <<entries, graphs, call, queue>> PROVE CacheInv'
BY DEF CacheInv, RunsPublishedGraph, NoGraphLost, Key

\* A step of a launch keeps the cache's invariant.
LEMMA CacheLaunch ==
  ASSUME TypeOK, TypeOK', CacheInv, NEW t \in Threads, Launch(t)
  PROVE  CacheInv'
<1> USE DEF Key, cache_vars, stream_vars
<1>1. ASSUME NEW op \in Ops, StreamForContext(t, op) PROVE CacheInv'
  <2>0. CASE UNCHANGED call BY <1>1, <2>0, CacheUnchanged DEF StreamForContext
  <2> SUFFICES ASSUME ~UNCHANGED call PROVE CacheInv' BY <2>0
  <2>1. /\ UNCHANGED <<entries, graphs, queue>>
        /\ call' = [call EXCEPT ![t] = [step |-> "launched", op |-> op, graph |-> Nothing]]
        /\ call[t] = Idle
    BY <1>1 DEF StreamForContext
  <2>2. /\ call'[t].step = "launched"
        /\ \A u \in Threads \ {t} : call'[u] = call[u]
        /\ call[t].step # "building"
    BY <2>1 DEF TypeOK, Idle
  <2>3. NoGraphLost' BY <2>1, <2>2 DEF CacheInv, NoGraphLost
  <2>4. RunsPublishedGraph' BY <2>1, <2>2 DEF CacheInv, RunsPublishedGraph
  <2> QED BY <2>1, <2>2, <2>3, <2>4 DEF CacheInv
<1>2. CASE Hit(t)
  <2>1. /\ UNCHANGED <<entries, graphs, queue>>
        /\ call[t].step = "launched"
        /\ call' = [call EXCEPT ![t] = [step |-> "running", op |-> call[t].op,
                                        graph |-> entries[Key(t)]]]
    BY <1>2 DEF Hit, Running, GoOn
  <2>2. /\ call'[t].step = "running" /\ call'[t].op = call[t].op
        /\ call'[t].graph = entries[KeyOf[call[t].op]]
        /\ \A u \in Threads \ {t} : call'[u] = call[u]
    BY <2>1 DEF TypeOK
  <2>3. NoGraphLost' BY <2>1, <2>2 DEF CacheInv, NoGraphLost
  <2>4. RunsPublishedGraph' BY <2>1, <2>2 DEF CacheInv, RunsPublishedGraph
  <2> QED BY <2>1, <2>2, <2>3, <2>4 DEF CacheInv
<1>3. ASSUME NEW g \in Graphs, Miss(t, g) PROVE CacheInv'
  <2>1. /\ UNCHANGED <<entries, queue>>
        /\ call[t].step = "launched"
        /\ graphs[g].life = "unbuilt"
        /\ graphs' = [graphs EXCEPT ![g] = [life |-> "live", key |-> Key(t)]]
        /\ call' = [call EXCEPT ![t] = [step |-> "building", op |-> call[t].op,
                                        graph |-> g]]
    BY <1>3 DEF Miss, GoOn
  <2>2. /\ call'[t].step = "building" /\ call'[t].op = call[t].op
        /\ call'[t].graph = g
        /\ \A u \in Threads \ {t} : call'[u] = call[u]
        /\ graphs'[g] = [life |-> "live", key |-> Key(t)]
        /\ \A h \in Graphs \ {g} : graphs'[h] = graphs[h]
    BY <2>1 DEF TypeOK
  <2>3. \A k \in Keys : entries[k] # g
    <3> SUFFICES ASSUME NEW k \in Keys, entries[k] = g PROVE FALSE OBVIOUS
    <3>1. entries[k] # Nothing BY NothingAssumption
    <3>2. graphs[entries[k]] = [life |-> "live", key |-> k] BY <3>1 DEF CacheInv
    <3>3. graphs[entries[k]].life = "live" BY <3>2, LiveFields
    <3> QED BY <3>3, <2>1
  <2>4. \A u \in Threads : call[u].step = "building" => call[u].graph # g
    <3> SUFFICES ASSUME NEW u \in Threads, call[u].step = "building", call[u].graph = g
                 PROVE  FALSE
      OBVIOUS
    <3>1. graphs[call[u].graph] = [life |-> "live", key |-> Key(u)] BY DEF CacheInv
    <3>2. graphs[call[u].graph].life = "live" BY <3>1, LiveFields
    <3> QED BY <3>2, <2>1
  <2>5. \A i \in 1..Len(queue) : queue[i].graph # g
    <3> SUFFICES ASSUME NEW i \in 1..Len(queue), queue[i].graph = g PROVE FALSE
      OBVIOUS
    <3>1. queue[i].graph # Nothing BY NothingAssumption
    <3>2. graphs[queue[i].graph] = [life |-> "live", key |-> KeyOf[queue[i].op]]
      BY <3>1, QueueShape
    <3>3. graphs[queue[i].graph].life = "live" BY <3>2, LiveFields
    <3> QED BY <3>3, <2>1
  <2>6. \A k \in Keys : entries[k] # Nothing => entries[k] \in Graphs BY DEF TypeOK
  <2>7. \A u \in Threads \ {t} : call[u].step \in {"building", "running"} => call[u].graph \in Graphs
    BY CallShape
  <2>8. NoGraphLost'
    <3> SUFFICES ASSUME NEW h \in Graphs, graphs'[h].life = "live"
                 PROVE  \/ entries[graphs'[h].key] = h
                        \/ \E u \in Threads : call'[u].step = "building" /\ call'[u].graph = h
      BY <2>1 DEF NoGraphLost
    <3>1. CASE h = g BY <3>1, <2>2
    <3>2. CASE h # g
      <4>1. graphs[h].life = "live" /\ graphs'[h] = graphs[h] BY <3>2, <2>2
      <4>2. CASE entries[graphs[h].key] = h BY <4>1, <4>2
      <4>3. CASE \E u \in Threads : call[u].step = "building" /\ call[u].graph = h
        BY <4>3, <2>1, <2>2
      <4> QED BY <4>1, <4>2, <4>3 DEF CacheInv, NoGraphLost
    <3> QED BY <3>1, <3>2
  <2>9. RunsPublishedGraph'
    <3>1. \A u \in Threads : call'[u].step = "running" => call'[u].graph = entries[Key(u)']
      BY <2>2 DEF CacheInv, RunsPublishedGraph
    <3>2. ASSUME NEW i \in 1..Len(queue), queue[i].graph # Nothing
          PROVE  /\ graphs'[queue[i].graph] = [life |-> "live", key |-> KeyOf[queue[i].op]]
                 /\ queue[i].graph = entries[KeyOf[queue[i].op]]
      <4>1. queue[i].graph # g BY <2>5
      <4>2. graphs'[queue[i].graph] = graphs[queue[i].graph] BY <3>2, <4>1, <2>2, QueueShape
      <4> QED BY <3>2, <4>2, QueueShape
    <3> QED BY <2>1, <3>1, <3>2 DEF RunsPublishedGraph
  <2>10. \A k \in Keys : entries'[k] # Nothing =>
           graphs'[entries'[k]] = [life |-> "live", key |-> k]
    BY <2>1, <2>2, <2>3, <2>6 DEF CacheInv
  <2>11. \A u \in Threads : call'[u].step = "building" =>
           /\ graphs'[call'[u].graph] = [life |-> "live", key |-> Key(u)']
           /\ \A k \in Keys : entries'[k] # call'[u].graph
    BY <2>1, <2>2, <2>3, <2>4, <2>7 DEF CacheInv
  <2>12. \A u, v \in Threads :
           u # v /\ call'[u].step = "building" /\ call'[v].step = "building"
             => call'[u].graph # call'[v].graph
    BY <2>2, <2>4 DEF CacheInv
  <2> QED BY <2>8, <2>9, <2>10, <2>11, <2>12 DEF CacheInv
<1>4. CASE BuildFails(t)
  <2> DEFINE g == call[t].graph
  <2>1. /\ UNCHANGED <<entries, queue>>
        /\ call[t].step = "building"
        /\ graphs' = [graphs EXCEPT ![g].life = "freed"]
        /\ call' = [call EXCEPT ![t] = Idle]
    BY <1>4 DEF BuildFails
  <2>2. g \in Graphs BY <2>1, CallShape
  <2>3. /\ call'[t].step = "idle"
        /\ \A u \in Threads \ {t} : call'[u] = call[u]
        /\ graphs'[g].life = "freed"
        /\ \A h \in Graphs \ {g} : graphs'[h] = graphs[h]
    BY <2>1, <2>2 DEF TypeOK, Idle
  <2>4. \A k \in Keys : entries[k] # g BY <2>1 DEF CacheInv
  <2>5. \A i \in 1..Len(queue) : queue[i].graph # g
    <3> SUFFICES ASSUME NEW i \in 1..Len(queue), queue[i].graph = g PROVE FALSE
      OBVIOUS
    <3>1. queue[i].graph # Nothing BY <2>2, NothingAssumption
    <3>2. /\ queue[i].graph = entries[KeyOf[queue[i].op]]
          /\ graphs[queue[i].graph] = [life |-> "live", key |-> KeyOf[queue[i].op]]
      BY <3>1, QueueShape
    <3>3. graphs[call[t].graph] = [life |-> "live", key |-> Key(t)]
      BY <2>1 DEF CacheInv
    <3>4. Key(t) \in Keys BY <2>1, CallShape
    <3>5. graphs[call[t].graph].key = KeyOf[queue[i].op] BY <3>2
    <3>6. graphs[call[t].graph].key = Key(t) BY <3>3
    <3>7. queue[i].graph # g BY <2>4, <3>2, <3>4, <3>5, <3>6
    <3> QED BY <3>7
  <2>6. \A k \in Keys : entries[k] # Nothing => entries[k] \in Graphs BY DEF TypeOK
  <2>7. \A u \in Threads \ {t} : call[u].step = "building" =>
          call[u].graph \in Graphs /\ call[u].graph # g
    BY <2>1, CallShape DEF CacheInv
  <2>8. NoGraphLost'
    <3> SUFFICES ASSUME NEW h \in Graphs, graphs'[h].life = "live"
                 PROVE  \/ entries[graphs'[h].key] = h
                        \/ \E u \in Threads : call'[u].step = "building" /\ call'[u].graph = h
      BY <2>1 DEF NoGraphLost
    <3>1. h # g /\ graphs'[h] = graphs[h] BY <2>3
    <3>2. CASE entries[graphs[h].key] = h BY <3>1, <3>2
    <3>3. CASE \E u \in Threads : call[u].step = "building" /\ call[u].graph = h
      BY <3>1, <3>3, <2>3
    <3> QED BY <3>1, <3>2, <3>3 DEF CacheInv, NoGraphLost
  <2>9. RunsPublishedGraph'
    <3>1. \A u \in Threads : call'[u].step = "running" => call'[u].graph = entries[Key(u)']
      BY <2>3 DEF CacheInv, RunsPublishedGraph
    <3>2. ASSUME NEW i \in 1..Len(queue), queue[i].graph # Nothing
          PROVE  /\ graphs'[queue[i].graph] = [life |-> "live", key |-> KeyOf[queue[i].op]]
                 /\ queue[i].graph = entries[KeyOf[queue[i].op]]
      <4>1. queue[i].graph # g BY <2>5
      <4>2. graphs'[queue[i].graph] = graphs[queue[i].graph] BY <3>2, <4>1, <2>3, QueueShape
      <4> QED BY <3>2, <4>2, QueueShape
    <3> QED BY <2>1, <3>1, <3>2 DEF RunsPublishedGraph
  <2>10. \A k \in Keys : entries'[k] # Nothing =>
           graphs'[entries'[k]] = [life |-> "live", key |-> k]
    BY <2>1, <2>3, <2>4, <2>6 DEF CacheInv
  <2>11. \A u \in Threads : call'[u].step = "building" =>
           /\ graphs'[call'[u].graph] = [life |-> "live", key |-> Key(u)']
           /\ \A k \in Keys : entries'[k] # call'[u].graph
    BY <2>1, <2>3, <2>7 DEF CacheInv
  <2>12. \A u, v \in Threads :
           u # v /\ call'[u].step = "building" /\ call'[v].step = "building"
             => call'[u].graph # call'[v].graph
    BY <2>3 DEF CacheInv
  <2> QED BY <2>8, <2>9, <2>10, <2>11, <2>12 DEF CacheInv
<1>5. CASE Publish(t)
  <2> DEFINE g == call[t].graph
             k0 == Key(t)
             kept == IF entries[k0] = Nothing THEN g ELSE entries[k0]
  <2>1. /\ UNCHANGED queue
        /\ call[t].step = "building"
        /\ entries' = [entries EXCEPT ![k0] = kept]
        /\ graphs' = IF kept = g THEN graphs ELSE [graphs EXCEPT ![g].life = "freed"]
        /\ call' = [call EXCEPT ![t] = [step |-> "running", op |-> call[t].op,
                                        graph |-> kept]]
    BY <1>5 DEF Publish, Running, GoOn
  <2>2. g \in Graphs /\ k0 \in Keys BY <2>1, CallShape
  <2>3. /\ call'[t].step = "running" /\ call'[t].op = call[t].op
        /\ call'[t].graph = kept
        /\ \A u \in Threads \ {t} : call'[u] = call[u]
        /\ entries'[k0] = kept
        /\ \A k \in Keys \ {k0} : entries'[k] = entries[k]
        /\ \A h \in Graphs \ {g} : graphs'[h] = graphs[h]
        /\ kept = g => graphs' = graphs
        /\ kept # g => graphs'[g].life = "freed"
    BY <2>1, <2>2 DEF TypeOK
  <2>4. /\ graphs[g] = [life |-> "live", key |-> k0]
        /\ \A k \in Keys : entries[k] # g
    BY <2>1 DEF CacheInv
  <2>5. /\ entries[k0] = Nothing => kept = g
        /\ entries[k0] # Nothing => kept = entries[k0] /\ kept # g
    BY <2>2, <2>4
  <2> HIDE DEF kept
  <2>6. \A k \in Keys : entries[k] # Nothing => entries[k] \in Graphs /\ entries[k] # g
    BY <2>4 DEF TypeOK
  <2>7. \A u \in Threads \ {t} : call[u].step = "building" =>
          call[u].graph \in Graphs /\ call[u].graph # g
    BY <2>1, CallShape DEF CacheInv
  <2>8. kept # Nothing BY <2>2, <2>5, NothingAssumption
  <2>9. \A k \in Keys : entries'[k] # Nothing =>
          graphs'[entries'[k]] = [life |-> "live", key |-> k]
    <3> SUFFICES ASSUME NEW k \in Keys, entries'[k] # Nothing
                 PROVE  graphs'[entries'[k]] = [life |-> "live", key |-> k]
      OBVIOUS
    <3>1. CASE k = k0 /\ kept = g BY <3>1, <2>3, <2>4
    <3>2. CASE k = k0 /\ kept # g
      <4>1. kept = entries[k0] /\ entries[k0] # Nothing BY <3>2, <2>5
      <4>2. graphs'[kept] = graphs[kept] BY <4>1, <3>2, <2>3, <2>6
      <4> QED BY <3>2, <4>1, <4>2, <2>3 DEF CacheInv
    <3>3. CASE k # k0
      <4>1. entries'[k] = entries[k] BY <3>3, <2>3
      <4>2. graphs'[entries[k]] = graphs[entries[k]] BY <4>1, <2>3, <2>6
      <4> QED BY <4>1, <4>2 DEF CacheInv
    <3> QED BY <3>1, <3>2, <3>3
  <2>10. \A u \in Threads : call'[u].step = "building" =>
           /\ graphs'[call'[u].graph] = [life |-> "live", key |-> Key(u)']
           /\ \A k \in Keys : entries'[k] # call'[u].graph
    <3> SUFFICES ASSUME NEW u \in Threads, call'[u].step = "building"
                 PROVE  /\ graphs'[call'[u].graph] = [life |-> "live", key |-> Key(u)']
                        /\ \A k \in Keys : entries'[k] # call'[u].graph
      OBVIOUS
    <3>1. u # t /\ call'[u] = call[u] BY <2>3
    <3>2. call[u].graph \in Graphs /\ call[u].graph # g BY <3>1, <2>7
    <3>3. graphs'[call[u].graph] = graphs[call[u].graph] BY <3>2, <2>3
    <3>4. \A k \in Keys : entries[k] # call[u].graph BY <3>1 DEF CacheInv
    <3>5. kept # call[u].graph BY <3>2, <3>4, <2>2, <2>5
    <3>6. \A k \in Keys : entries'[k] # call[u].graph BY <3>4, <3>5, <2>3
    <3> QED BY <3>1, <3>3, <3>6 DEF CacheInv
  <2>11. \A u, v \in Threads :
           u # v /\ call'[u].step = "building" /\ call'[v].step = "building"
             => call'[u].graph # call'[v].graph
    BY <2>3 DEF CacheInv
  <2>12. \A k \in Keys : entries[k] # Nothing => entries'[k] = entries[k]
    BY <2>3, <2>5
  <2>13. NoGraphLost'
    <3> SUFFICES ASSUME NEW h \in Graphs, graphs'[h].life = "live"
                 PROVE  \/ entries'[graphs'[h].key] = h
                        \/ \E u \in Threads : call'[u].step = "building" /\ call'[u].graph = h
      BY DEF NoGraphLost
    <3>1. CASE h = g
      <4>1. kept = g BY <3>1, <2>3
      <4> QED BY <3>1, <4>1, <2>3, <2>4
    <3>2. CASE h # g
      <4>1. graphs'[h] = graphs[h] BY <3>2, <2>3
      <4>2. CASE entries[graphs[h].key] = h
        <5>1. graphs[h].key \in Keys \cup {Nothing} BY DEF TypeOK
        <5>2. graphs[h].key \in Keys => entries'[graphs[h].key] = h
          BY <4>2, <2>12, NothingAssumption
        <5>3. graphs[h].key \notin Keys => entries'[graphs[h].key] = h
          BY <4>2, <2>1 DEF TypeOK
        <5> QED BY <4>1, <5>2, <5>3
      <4>3. CASE \E u \in Threads : call[u].step = "building" /\ call[u].graph = h
        BY <4>3, <3>2, <2>3
      <4> QED BY <4>1, <4>2, <4>3 DEF CacheInv, NoGraphLost
    <3> QED BY <3>1, <3>2
  <2>14. RunsPublishedGraph'
    <3>1. ASSUME NEW u \in Threads, call'[u].step = "running"
          PROVE  call'[u].graph = entries'[Key(u)']
      <4>1. CASE u = t BY <4>1, <2>3
      <4>2. CASE u # t
        <5>1. call'[u] = call[u] BY <4>2, <2>3
        <5>2. call[u].graph = entries[Key(u)] BY <3>1, <5>1 DEF CacheInv, RunsPublishedGraph
        <5>3. call[u].graph \in Graphs /\ Key(u) \in Keys BY <3>1, <5>1, CallShape
        <5>4. entries'[Key(u)] = entries[Key(u)] BY <5>2, <5>3, <2>12, NothingAssumption
        <5> QED BY <5>1, <5>2, <5>4
      <4> QED BY <4>1, <4>2
    <3>2. ASSUME NEW i \in 1..Len(queue), queue[i].graph # Nothing
          PROVE  /\ graphs'[queue[i].graph] = [life |-> "live", key |-> KeyOf[queue[i].op]]
                 /\ queue[i].graph = entries'[KeyOf[queue[i].op]]
      <4> DEFINE q == queue[i].graph
                 k == KeyOf[queue[i].op]
      <4>1. q \in Graphs /\ q = entries[k] /\ graphs[q] = [life |-> "live", key |-> k]
        BY <3>2, QueueShape
      <4>2. graphs[q].key = k /\ k \in Keys \cup {Nothing} BY <4>1 DEF TypeOK
      <4>3. CASE k \in Keys
        <5>1. q # g /\ entries'[k] = q BY <4>1, <4>3, <3>2, <2>4, <2>12
        <5> QED BY <4>1, <5>1, <2>3
      <4>4. CASE k \notin Keys
        <5>1. k # k0 BY <4>4, <2>2
        <5>2. q # g BY <5>1, <4>1, <2>4
        <5>3. entries'[k] = entries[k] BY <4>4, <2>1 DEF TypeOK
        <5> QED BY <4>1, <5>2, <5>3, <2>3
      <4> QED BY <4>3, <4>4
    <3> QED BY <2>1, <3>1, <3>2 DEF RunsPublishedGraph
  <2> QED BY <2>9, <2>10, <2>11, <2>13, <2>14 DEF CacheInv
<1>6. CASE RunGraph(t)
  <2> DEFINE b == [op |-> call[t].op, label |-> current[t], graph |-> call[t].graph,
                   host |-> FALSE]
  <2>1. /\ UNCHANGED <<entries, graphs>>
        /\ call[t].step = "running"
        /\ queue' = Append(queue, b) \/ queue' = queue
        /\ call' = [call EXCEPT ![t] = Idle]
    BY <1>6 DEF RunGraph, Committed
  <2>2. /\ call'[t].step = "idle"
        /\ \A u \in Threads \ {t} : call'[u] = call[u]
    BY <2>1 DEF TypeOK, Idle
  <2>3. call[t].graph \in Graphs /\ Key(t) \in Keys BY <2>1, CallShape
  <2>4. call[t].graph = entries[Key(t)] BY <2>1 DEF CacheInv, RunsPublishedGraph
  <2>5. graphs[call[t].graph] = [life |-> "live", key |-> Key(t)]
    BY <2>3, <2>4, NothingAssumption DEF CacheInv
  <2>6. b.graph = call[t].graph /\ b.op = call[t].op OBVIOUS
  <2> HIDE DEF b
  <2>7. \A i \in 1..Len(queue') : queue'[i] = b \/ (i \in 1..Len(queue) /\ queue'[i] = queue[i])
    <3>1. CASE queue' = Append(queue, b) BY <3>1 DEF TypeOK
    <3>2. CASE queue' = queue BY <3>2
    <3> QED BY <2>1, <3>1, <3>2
  <2>8. RunsPublishedGraph'
    <3>1. \A u \in Threads : call'[u].step = "running" => call'[u].graph = entries'[Key(u)']
      BY <2>1, <2>2 DEF CacheInv, RunsPublishedGraph
    <3>2. ASSUME NEW i \in 1..Len(queue'), queue'[i].graph # Nothing
          PROVE  /\ graphs'[queue'[i].graph] = [life |-> "live", key |-> KeyOf[queue'[i].op]]
                 /\ queue'[i].graph = entries'[KeyOf[queue'[i].op]]
      <4>1. CASE queue'[i] = b BY <4>1, <2>1, <2>4, <2>5, <2>6
      <4>2. CASE i \in 1..Len(queue) /\ queue'[i] = queue[i]
        BY <4>2, <3>2, <2>1, QueueShape
      <4> QED BY <4>1, <4>2, <2>7
    <3> QED BY <3>1, <3>2 DEF RunsPublishedGraph
  <2>9. NoGraphLost' BY <2>1, <2>2 DEF CacheInv, NoGraphLost
  <2> QED BY <2>1, <2>2, <2>8, <2>9 DEF CacheInv
<1> QED BY <1>1, <1>2, <1>3, <1>4, <1>5, <1>6 DEF Launch

\* Every step keeps the cache's invariant.
LEMMA CacheStep == TypeOK /\ TypeOK' /\ CacheInv /\ [Next]_vars => CacheInv'
<1> SUFFICES ASSUME TypeOK, TypeOK', CacheInv, [Next]_vars PROVE CacheInv' OBVIOUS
<1> USE DEF cache_vars, thread_vars, stream_vars, handler_vars, session_vars, core_vars
<1>1. ASSUME NEW t \in Threads, Launch(t) PROVE CacheInv'
  BY <1>1, CacheLaunch
<1>2. ASSUME NEW t \in Threads, RuntimeWork(t) PROVE CacheInv'
  <2>1. UNCHANGED <<entries, graphs, call>>
    BY <1>2 DEF RuntimeWork
  <2>2. PICK b : queue' = Append(queue, b) /\ b.graph = Nothing
    BY <1>2 DEF RuntimeWork, Committed
  <2>3. \A i \in 1..Len(queue') : queue'[i] = b \/ (i \in 1..Len(queue) /\ queue'[i] = queue[i])
    BY <2>2 DEF TypeOK
  <2>4. RunsPublishedGraph'
    <3>1. \A u \in Threads : call'[u].step = "running" => call'[u].graph = entries'[Key(u)']
      BY <2>1 DEF CacheInv, RunsPublishedGraph, Key
    <3>2. \A i \in 1..Len(queue') : queue'[i].graph # Nothing =>
            /\ graphs'[queue'[i].graph] = [life |-> "live", key |-> KeyOf[queue'[i].op]]
            /\ queue'[i].graph = entries'[KeyOf[queue'[i].op]]
      BY <2>1, <2>2, <2>3 DEF CacheInv, RunsPublishedGraph
    <3> QED BY <3>1, <3>2 DEF RunsPublishedGraph
  <2>5. NoGraphLost' BY <2>1 DEF CacheInv, NoGraphLost
  <2> QED BY <2>1, <2>4, <2>5 DEF CacheInv, Key
<1>3. CASE End BY <1>3, CacheUnchanged DEF End
<1>4. ASSUME NEW i \in 1..Len(queue), NoteTiming(i) \/ HostCompletion(i) \/ Record(i)
      PROVE  CacheInv'
  BY <1>4, CacheUnchanged DEF NoteTiming, HostCompletion, Record
<1>5. CASE Start \/ Stop \/ CollectSize \/ CollectBytes
  BY <1>5, CacheUnchanged DEF Start, Stop, CollectSize, CollectBytes
<1>6. CASE UNCHANGED vars BY <1>6, CacheUnchanged DEF vars
<1> QED BY <1>1, <1>2, <1>3, <1>4, <1>5, <1>6 DEF Next

\* Published graphs and those being built are distinct, there, and of their
\* keys, however many kernels race.
THEOREM CacheInvHolds == Spec => []CacheInv
<1>1. Spec => []TypeOK BY TypeCorrect
<1>2. Init => CacheInv BY CacheInit
<1>3. TypeOK /\ TypeOK' /\ CacheInv /\ [Next]_vars => CacheInv' BY CacheStep
<1> QED BY <1>1, <1>2, <1>3, PTL DEF Spec

\* Every kernel runs the published graph of its key.
THEOREM RunsPublishedGraphHolds == Spec => []RunsPublishedGraph
<1>1. CacheInv => RunsPublishedGraph BY DEF CacheInv
<1> QED BY <1>1, CacheInvHolds, PTL

\* No graph is lost, whichever builder loses a race or fails.
THEOREM NoGraphLostHolds == Spec => []NoGraphLost
<1>1. CacheInv => NoGraphLost BY DEF CacheInv
<1> QED BY <1>1, CacheInvHolds, PTL

\* A published graph is never replaced.
THEOREM PublishedStaysHolds == Spec => PublishedStays
<1>1. ASSUME TypeOK, [Next]_vars, NEW k \in Keys, entries[k] # Nothing
      PROVE  entries'[k] = entries[k]
  <2>1. ASSUME NEW t \in Threads, Publish(t) PROVE entries'[k] = entries[k]
    BY <1>1, <2>1 DEF Publish, TypeOK
  <2> QED BY <1>1, <2>1
          DEF Next, Launch, StreamForContext, Hit, Miss, BuildFails, RunGraph,
              RuntimeWork, End, NoteTiming, HostCompletion, Record, Start, Stop, CollectSize,
              CollectBytes, vars, cache_vars
<1>2. TypeOK /\ [Next]_vars =>
        [\A k \in Keys : entries[k] # Nothing => entries'[k] = entries[k]]_vars
  BY <1>1
<1> QED BY <1>2, TypeCorrect, PTL DEF Spec, PublishedStays

-----------------------------------------------------------------------------
(***************************************************************************)
(* The profiles                                                            *)
(***************************************************************************)

\* Handlers are of committed buffers, and those have names.
LEMMA HandlerFacts ==
  ASSUME TypeInv
  PROVE  /\ handled \subseteq 1..Len(queue) /\ noting \subseteq 1..Len(queue)
         /\ \A i \in 1..Len(queue) : NameOf(i) \in Named
         /\ Len(profiles) \in Nat
         /\ \A n \in 1..Len(profiles) : profiles[n] \subseteq Events
<1>1. ended \in 0..Len(queue) /\ handled \subseteq 1..ended /\ noting \subseteq 1..ended
  BY DEF TypeInv, TypeOK
<1>2. Len(queue) \in Nat
  BY DEF TypeInv, TypeOK
<1>3. 1..ended \subseteq 1..Len(queue)
  BY <1>1, <1>2
<1>4. profiles \in Seq(SUBSET Events)
  BY DEF TypeInv, TypeOK
<1> QED BY <1>1, <1>3, <1>4, MetadataTypes

\* A profile stays one while handlers go on and buffers are committed.
LEMMA ProfileStays ==
  ASSUME NEW E, IsProfile(E), handled \subseteq handled',
         \A i \in handled : NameOf(i)' = NameOf(i)
  PROVE  IsProfile(E)'
BY DEF IsProfile

\* Nothing but handlers and the session touches what profiles are made of.
LEMMA ProfileUnchanged ==
  ASSUME TypeInv, ProfileInv,
         UNCHANGED <<noting, handled, active, samples, metadata, collected,
                     pending, core, profiles>>,
         \A i \in 1..Len(queue) : queue'[i] = queue[i]
  PROVE  ProfileInv'
<1>1. \A i \in handled : NameOf(i)' = NameOf(i)
  BY HandlerFacts DEF NameOf
<1>2. ASSUME NEW E, IsProfile(E) PROVE IsProfile(E)'
  BY <1>1, <1>2, ProfileStays
<1>3. SamplesInv'
  BY <1>1 DEF ProfileInv, SamplesInv
<1>4. MetadataInv'
  BY DEF ProfileInv, MetadataInv
<1>5. Sampled' = Sampled
  BY DEF Sampled
<1>6. ASSUME NEW n \in 1..Len(profiles)
      PROVE  /\ IsProfile(profiles[n])'
             /\ \A m \in 1..(n - 1) : Shown(profiles[m]) \cap Shown(profiles[n]) = {}
             /\ core # "off" => Sampled \cap Shown(profiles[n]) = {}
  <2>1. IsProfile(profiles[n])
    BY DEF ProfileInv, ProfilesInv
  <2>2. PICK E : E = profiles[n]
    OBVIOUS
  <2>3. IsProfile(E)' /\ E = profiles'[n]
    BY <1>2, <2>1, <2>2
  <2>4. IsProfile(profiles[n])'
    BY <2>3 DEF IsProfile
  <2> QED BY <2>4 DEF ProfileInv, ProfilesInv
<1>7. ProfilesInv'
  BY <1>5, <1>6 DEF ProfilesInv, Shown
<1>8. core = "sized" => IsProfile(pending)' /\ Shown(pending)' = Sampled
  <2> SUFFICES ASSUME core = "sized"
               PROVE  IsProfile(pending)' /\ Shown(pending)' = Sampled
    OBVIOUS
  <2>1. PICK E : E = pending
    OBVIOUS
  <2>2. IsProfile(E)' /\ E = pending'
    BY <1>2, <2>1 DEF ProfileInv
  <2> QED BY <2>2 DEF IsProfile, ProfileInv, Shown
<1> QED BY <1>3, <1>4, <1>5, <1>7, <1>8 DEF ProfileInv, Shown

\* NoteTiming, or the handler of a host copy, moves a handler nobody has seen.
LEMMA NoteTimingKeeps ==
  ASSUME TypeInv, ProfileInv, NEW i \in 1..Len(queue),
         NoteTiming(i) \/ HostCompletion(i)
  PROVE  ProfileInv'
<1>1. /\ UNCHANGED <<active, samples, metadata, collected, pending, core, profiles, queue>>
      /\ i \notin noting /\ i \notin handled
      /\ \/ noting' = noting \cup {i} /\ handled' = handled
         \/ noting' = noting /\ handled' = handled \cup {i}
  BY DEF NoteTiming, HostCompletion, session_vars, core_vars, stream_vars
<1>2. noting' \cap handled' = {} /\ handled \subseteq handled'
  BY <1>1 DEF ProfileInv
<1>3. \A j \in handled : NameOf(j)' = NameOf(j)
  BY <1>1 DEF NameOf
<1>4. ASSUME NEW E, IsProfile(E) PROVE IsProfile(E)'
  BY <1>2, <1>3, <1>4, ProfileStays
<1>5. SamplesInv'
  BY <1>1, <1>2, <1>3 DEF ProfileInv, SamplesInv
<1>6. MetadataInv'
  BY <1>1 DEF ProfileInv, MetadataInv
<1>7. Sampled' = Sampled
  BY <1>1 DEF Sampled
<1>8. ProfilesInv'
  <2> SUFFICES ASSUME NEW n \in 1..Len(profiles)
               PROVE  /\ IsProfile(profiles[n])'
                      /\ \A m \in 1..(n - 1) : Shown(profiles[m]) \cap Shown(profiles[n]) = {}
                      /\ core # "off" => Sampled \cap Shown(profiles[n]) = {}
    BY <1>1, <1>7 DEF ProfilesInv, Shown
  <2>1. PICK E : E = profiles[n]
    OBVIOUS
  <2>2. IsProfile(E)' /\ E = profiles'[n]
    BY <1>1, <1>4, <2>1 DEF ProfileInv, ProfilesInv
  <2> QED BY <2>2 DEF IsProfile, ProfileInv, ProfilesInv
<1>9. core = "sized" => IsProfile(pending)' /\ Shown(pending)' = Sampled
  <2> SUFFICES ASSUME core = "sized"
               PROVE  IsProfile(pending)' /\ Shown(pending)' = Sampled
    OBVIOUS
  <2>1. PICK E : E = pending
    OBVIOUS
  <2>2. IsProfile(E)' /\ E = pending'
    BY <1>1, <1>4, <2>1 DEF ProfileInv
  <2> QED BY <1>1, <2>2 DEF IsProfile, ProfileInv, Shown
<1> QED BY <1>1, <1>2, <1>5, <1>6, <1>7, <1>8, <1>9 DEF ProfileInv, Shown

\* MetadataIdLocked: the id of a known name, or one that no name has.
LEMMA MetadataGrows ==
  ASSUME TypeInv, MetadataInv, NEW name \in Named,
         metadata' = metadata \cup {[name |-> name, id |-> MetadataId(name)]}
  PROVE  MetadataInv'
<1> DEFINE id == MetadataId(name)
           entry == [name |-> name, id |-> id]
<1>1. /\ metadata \subseteq [name : Named, id : Nat]
      /\ IsFiniteSet(metadata) /\ Cardinality(metadata) \in Nat
  BY FS_CardinalityType DEF TypeInv, TypeOK
<1>2. CASE Ids(name) # {}
  <2>1. id \in Ids(name)
    BY <1>2 DEF MetadataId
  <2>2. PICK m \in metadata : m.name = name /\ m.id = id
    BY <2>1 DEF Ids
  <2>3. m = entry
    BY <1>1, <2>2
  <2>4. metadata' = metadata
    BY <2>3
  <2> QED BY <2>4 DEF MetadataInv
<1>3. CASE Ids(name) = {}
  <2>1. id = Cardinality(metadata) + 1
    BY <1>3 DEF MetadataId
  <2>2. \A m \in metadata : m.name # name
    BY <1>3 DEF Ids
  <2>3. entry.name = name /\ entry.id = id /\ metadata' = metadata \cup {entry}
    OBVIOUS
  <2> HIDE DEF id, entry
  <2>4. entry \notin metadata
    BY <2>2, <2>3
  <2>5. Cardinality(metadata') = Cardinality(metadata) + 1
    BY <1>1, <2>3, <2>4, FS_AddElement
  <2>6. \A m \in metadata : m.id \in Nat /\ 1 <= m.id /\ m.id <= Cardinality(metadata)
    BY <1>1 DEF MetadataInv
  <2>7. \A m \in metadata' : 1 <= m.id /\ m.id <= Cardinality(metadata')
    BY <1>1, <2>1, <2>3, <2>5, <2>6
  <2>8. \A m \in metadata : m.id # id /\ m.name # name
    BY <1>1, <2>1, <2>2, <2>6
  <2>9. \A m, n \in metadata' : m.id = n.id <=> m.name = n.name
    BY <2>3, <2>8 DEF MetadataInv
  <2> QED BY <2>7, <2>9 DEF MetadataInv
<1> QED BY <1>2, <1>3

\* Record adds at most the sample of a handler that had none.
LEMMA RecordKeeps ==
  ASSUME TypeInv, ProfileInv, NEW i \in 1..Len(queue), Record(i)
  PROVE  ProfileInv'
<1>1. /\ UNCHANGED <<active, collected, pending, core, profiles, queue>>
      /\ i \in noting
      /\ noting' = noting \ {i} /\ handled' = handled \cup {i}
      /\ \/ active /\ Sample(i)
         \/ UNCHANGED <<samples, metadata>>
  BY DEF Record, core_vars, stream_vars
<1>2. /\ noting' \cap handled' = {} /\ handled \subseteq handled'
      /\ i \notin handled
  BY <1>1 DEF ProfileInv
<1>3. \A j : NameOf(j)' = NameOf(j)
  BY <1>1 DEF NameOf
<1>4. ASSUME NEW E, IsProfile(E) PROVE IsProfile(E)'
  BY <1>2, <1>3, <1>4, ProfileStays
<1>5. \A n \in 1..Len(profiles) : i \notin Shown(profiles[n])
  BY <1>2 DEF ProfileInv, ProfilesInv, IsProfile, Shown
<1>6. /\ SamplesInv' /\ MetadataInv'
      /\ Sampled' \subseteq Sampled \cup {i}
      /\ core # "on" => Sampled' = Sampled
  <2>1. CASE active /\ Sample(i)
    <3>1. PICK name : name = NameOf(i)
      OBVIOUS
    <3>2. PICK id : id = MetadataId(name)
      OBVIOUS
    <3>3. /\ samples' = samples \cup {[buffer |-> i, id |-> id]}
          /\ metadata' = metadata \cup {[name |-> name, id |-> id]}
      BY <2>1, <3>1, <3>2 DEF Sample
    <3>4. name \in Named
      BY <3>1, HandlerFacts
    <3>5. MetadataInv'
      BY <3>2, <3>3, <3>4, MetadataGrows DEF ProfileInv
    <3>6. \A s \in samples : s.buffer # i
      BY <1>2 DEF ProfileInv, SamplesInv
    <3>7. PICK new : new = [buffer |-> i, id |-> id]
      OBVIOUS
    <3>8. new.buffer = i /\ new.id = id /\ samples' = samples \cup {new}
      BY <3>3, <3>7
    <3>9. \A s \in samples' : s.buffer \in handled'
      BY <1>1, <1>2, <3>8 DEF ProfileInv, SamplesInv
    <3>10. \A s \in samples' : [name |-> NameOf(s.buffer), id |-> s.id] \in metadata'
      BY <3>1, <3>3, <3>8 DEF ProfileInv, SamplesInv
    <3>11. \A s, r \in samples' : s.buffer = r.buffer => s = r
      BY <3>6, <3>8 DEF ProfileInv, SamplesInv
    <3>12. SamplesInv'
      BY <1>3, <3>9, <3>10, <3>11 DEF SamplesInv
    <3>13. Sampled' \subseteq Sampled \cup {i}
      BY <3>8 DEF Sampled
    <3>14. core = "on"
      BY <2>1 DEF ProfileInv
    <3> QED BY <3>5, <3>12, <3>13, <3>14
  <2>2. CASE UNCHANGED <<samples, metadata>>
    <3>1. SamplesInv'
      BY <1>2, <1>3, <2>2 DEF ProfileInv, SamplesInv
    <3>2. MetadataInv'
      BY <2>2 DEF ProfileInv, MetadataInv
    <3> QED BY <2>2, <3>1, <3>2 DEF Sampled
  <2> QED BY <1>1, <2>1, <2>2
<1>7. ProfilesInv'
  <2> SUFFICES ASSUME NEW n \in 1..Len(profiles)
               PROVE  /\ IsProfile(profiles[n])'
                      /\ \A m \in 1..(n - 1) : Shown(profiles[m]) \cap Shown(profiles[n]) = {}
                      /\ core # "off" => Sampled' \cap Shown(profiles[n]) = {}
    BY <1>1 DEF ProfilesInv, Shown
  <2>1. PICK E : E = profiles[n]
    OBVIOUS
  <2>2. IsProfile(E)' /\ E = profiles'[n]
    BY <1>1, <1>4, <2>1 DEF ProfileInv, ProfilesInv
  <2>3. IsProfile(profiles[n])'
    BY <2>2 DEF IsProfile
  <2> QED BY <1>5, <1>6, <2>3 DEF ProfileInv, ProfilesInv
<1>8. core = "sized" => IsProfile(pending)' /\ Shown(pending)' = Sampled'
  <2> SUFFICES ASSUME core = "sized"
               PROVE  IsProfile(pending)' /\ Shown(pending)' = Sampled'
    OBVIOUS
  <2>1. PICK E : E = pending
    OBVIOUS
  <2>2. IsProfile(E)' /\ E = pending'
    BY <1>1, <1>4, <2>1 DEF ProfileInv
  <2> QED BY <1>1, <1>6, <2>2 DEF IsProfile, ProfileInv, Shown
<1> QED BY <1>1, <1>2, <1>6, <1>7, <1>8 DEF ProfileInv, Shown

\* The profiles core has been given stay profiles when the handlers rest.
LEMMA GivenStay ==
  ASSUME TypeInv, ProfileInv, UNCHANGED <<handled, queue, profiles>>,
         core' # "off" =>
           \A n \in 1..Len(profiles) : Sampled' \cap Shown(profiles[n]) = {}
  PROVE  ProfilesInv'
<1>1. \A j : NameOf(j)' = NameOf(j)
  BY DEF NameOf
<1> SUFFICES ASSUME NEW n \in 1..Len(profiles)
             PROVE  /\ IsProfile(profiles[n])'
                    /\ \A m \in 1..(n - 1) : Shown(profiles[m]) \cap Shown(profiles[n]) = {}
                    /\ core' # "off" => Sampled' \cap Shown(profiles[n]) = {}
  BY DEF ProfilesInv, Shown
<1>2. PICK E : E = profiles[n]
  OBVIOUS
<1>3. IsProfile(E)' /\ E = profiles'[n]
  BY <1>1, <1>2, ProfileStays DEF ProfileInv, ProfilesInv
<1> QED BY <1>3 DEF IsProfile, ProfileInv, ProfilesInv

\* The calls of core keep the invariant: Start empties the session, and the
\* profile is formed from what it holds after Stop.
LEMMA SessionKeeps ==
  ASSUME TypeInv, ProfileInv, Start \/ Stop \/ CollectSize \/ CollectBytes
  PROVE  ProfileInv'
<1> USE DEF handler_vars, stream_vars, session_vars
<1>1. \A j : queue' = queue => NameOf(j)' = NameOf(j)
  BY DEF NameOf
<1>2. CASE Start
  <2>1. /\ UNCHANGED <<noting, handled, queue, pending, profiles>>
        /\ samples' = {} /\ metadata' = {} /\ ~collected' /\ active' /\ core' = "on"
    BY <1>2 DEF Start
  <2>2. Sampled' = {}
    BY <2>1 DEF Sampled
  <2>3. ProfilesInv'
    BY <2>1, <2>2, GivenStay
  <2>4. SamplesInv' /\ MetadataInv'
    BY <2>1 DEF SamplesInv, MetadataInv
  <2> QED BY <2>1, <2>3, <2>4 DEF ProfileInv
<1>3. CASE Stop
  <2>1. /\ UNCHANGED <<noting, handled, queue, pending, profiles, samples, metadata,
                       collected>>
        /\ core = "on" /\ core' = "stopped" /\ ~active'
    BY <1>3 DEF Stop
  <2>2. Sampled' = Sampled
    BY <2>1 DEF Sampled
  <2>3. ProfilesInv'
    BY <2>1, <2>2, GivenStay DEF ProfileInv, ProfilesInv
  <2>4. SamplesInv' /\ MetadataInv'
    BY <1>1, <2>1 DEF ProfileInv, SamplesInv, MetadataInv
  <2> QED BY <2>1, <2>3, <2>4 DEF ProfileInv
<1>4. CASE CollectSize
  <2>1. /\ UNCHANGED <<noting, handled, queue, active, samples, metadata, profiles>>
        /\ core = "stopped" /\ core' = "sized" /\ ~collected
    BY <1>4 DEF CollectSize, ProfileInv
  <2>2. pending' = {[buffer |-> s.buffer, name |-> Resolve(s.id)] : s \in samples}
    BY <1>4, <2>1 DEF CollectSize
  <2>3. ASSUME NEW s \in samples
        PROVE  Resolve(s.id) = NameOf(s.buffer)
    <3>1. PICK m \in metadata : m = [name |-> NameOf(s.buffer), id |-> s.id]
      BY DEF ProfileInv, SamplesInv
    <3>2. m.name = NameOf(s.buffer) /\ m.id = s.id
      BY <3>1
    <3>3. s.id # 0
      BY <3>2 DEF ProfileInv, MetadataInv
    <3>4. \A n \in metadata : n.id = s.id => n.name = NameOf(s.buffer)
      BY <3>2 DEF ProfileInv, MetadataInv
    <3>5. Resolve(s.id) = (CHOOSE n \in metadata : n.id = s.id).name
      BY <3>2, <3>3 DEF Resolve
    <3>6. PICK n \in metadata : n = CHOOSE x \in metadata : x.id = s.id
      BY <3>2
    <3>7. n.id = s.id
      BY <3>2, <3>6
    <3> QED BY <3>4, <3>5, <3>6, <3>7
  <2>4. ASSUME NEW e \in pending'
        PROVE  \E s \in samples : e.buffer = s.buffer /\ e.name = NameOf(s.buffer)
                                  /\ e = [buffer |-> s.buffer, name |-> NameOf(s.buffer)]
    BY <2>2, <2>3
  <2>5. IsProfile(pending)'
    <3> SUFFICES ASSUME NEW e \in pending'
                 PROVE  /\ e.buffer \in handled /\ e.name = NameOf(e.buffer)
                        /\ \A f \in pending' : e.buffer = f.buffer => e = f
      BY <1>1, <2>1 DEF IsProfile
    <3>1. PICK s \in samples : /\ e.buffer = s.buffer /\ e.name = NameOf(s.buffer)
                               /\ e = [buffer |-> s.buffer, name |-> NameOf(s.buffer)]
      BY <2>4
    <3>2. e.buffer \in handled /\ e.name = NameOf(e.buffer)
      BY <3>1 DEF ProfileInv, SamplesInv
    <3>3. ASSUME NEW f \in pending', e.buffer = f.buffer PROVE e = f
      <4>1. PICK r \in samples : /\ f.buffer = r.buffer
                                 /\ f = [buffer |-> r.buffer, name |-> NameOf(r.buffer)]
        BY <2>4
      <4> QED BY <3>1, <3>3, <4>1
    <3> QED BY <3>2, <3>3
  <2>6. Sampled' = Sampled /\ Shown(pending') = Sampled
    <3>1. \A e \in pending' : e.buffer \in Sampled
      BY <2>4 DEF Sampled
    <3>2. ASSUME NEW s \in samples PROVE \E e \in pending' : e.buffer = s.buffer
      <4>1. PICK e \in pending' : e = [buffer |-> s.buffer, name |-> Resolve(s.id)]
        BY <2>2
      <4> QED BY <4>1
    <3>3. Shown(pending') = Sampled
      BY <3>1, <3>2 DEF Shown, Sampled
    <3> QED BY <2>1, <3>3 DEF Sampled
  <2>7. ProfilesInv'
    BY <2>1, <2>6, GivenStay DEF ProfileInv, ProfilesInv
  <2>8. SamplesInv' /\ MetadataInv'
    BY <1>1, <2>1 DEF ProfileInv, SamplesInv, MetadataInv
  <2> QED BY <2>1, <2>5, <2>6, <2>7, <2>8 DEF ProfileInv, Shown
<1>5. CASE CollectBytes
  <2>1. /\ UNCHANGED <<noting, handled, queue, active, samples, metadata, collected>>
        /\ core = "sized" /\ core' = "off"
        /\ profiles' = Append(profiles, pending)
    BY <1>5 DEF CollectBytes
  <2>2. PICK E : E = pending
    OBVIOUS
  <2>3. /\ Len(profiles') = Len(profiles) + 1 /\ Len(profiles) \in Nat
        /\ profiles'[Len(profiles')] = E
        /\ \A n \in 1..Len(profiles) : profiles'[n] = profiles[n]
    BY <2>1, <2>2 DEF TypeInv, TypeOK
  <2>4. Sampled' = Sampled /\ Shown(E) = Sampled /\ IsProfile(E)
    BY <2>1, <2>2 DEF ProfileInv, Sampled
  <2>5. ASSUME NEW F, IsProfile(F) PROVE IsProfile(F)'
    BY <1>1, <2>1, <2>5, ProfileStays
  <2>6. ASSUME NEW n \in 1..Len(profiles)
        PROVE  /\ IsProfile(profiles'[n])
               /\ \A m \in 1..(n - 1) : Shown(profiles'[m]) \cap Shown(profiles'[n]) = {}
               /\ Shown(profiles'[n]) \cap Shown(E) = {}
    <3>1. /\ profiles'[n] = profiles[n]
          /\ \A m \in 1..(n - 1) : profiles'[m] = profiles[m]
      BY <2>3
    <3>2. /\ IsProfile(profiles[n])
          /\ \A m \in 1..(n - 1) : Shown(profiles[m]) \cap Shown(profiles[n]) = {}
          /\ Sampled \cap Shown(profiles[n]) = {}
      BY <2>1 DEF ProfileInv, ProfilesInv
    <3> QED BY <2>4, <3>1, <3>2
  <2>7. ASSUME NEW n \in 1..Len(profiles')
        PROVE  /\ IsProfile(profiles'[n])
               /\ \A m \in 1..(n - 1) : Shown(profiles'[m]) \cap Shown(profiles'[n]) = {}
    <3>1. CASE n \in 1..Len(profiles)
      BY <2>6, <3>1
    <3>2. CASE n \notin 1..Len(profiles)
      <4>1. n = Len(profiles') /\ n - 1 = Len(profiles)
        BY <2>3, <3>2
      <4> QED BY <2>3, <2>4, <2>6, <4>1
    <3> QED BY <3>1, <3>2
  <2>8. ProfilesInv'
    <3> SUFFICES ASSUME NEW n \in 1..Len(profiles')
                 PROVE  /\ IsProfile(profiles[n])'
                        /\ \A m \in 1..(n - 1) :
                             Shown(profiles'[m]) \cap Shown(profiles'[n]) = {}
      BY <2>1 DEF ProfilesInv, Shown
    <3>1. PICK F : F = profiles'[n]
      OBVIOUS
    <3>2. IsProfile(F)'
      BY <2>5, <2>7, <3>1
    <3> QED BY <2>7, <3>1, <3>2 DEF IsProfile
  <2>9. SamplesInv' /\ MetadataInv'
    BY <1>1, <2>1 DEF ProfileInv, SamplesInv, MetadataInv
  <2>10. profiles' # << >> /\ Shown(profiles'[Len(profiles')]) = Sampled'
    BY <2>3, <2>4
  <2> QED BY <2>1, <2>8, <2>9, <2>10 DEF ProfileInv, Shown
<1> QED BY <1>2, <1>3, <1>4, <1>5

\* Every step keeps the invariant of profiles.
LEMMA ProfileStep == TypeInv /\ ProfileInv /\ [Next]_vars => ProfileInv'
<1> SUFFICES ASSUME TypeInv, ProfileInv, [Next]_vars PROVE ProfileInv' OBVIOUS
<1> USE DEF cache_vars, thread_vars, stream_vars, handler_vars, session_vars, core_vars
<1>1. ASSUME NEW t \in Threads, NEW op, NEW graph, NEW host,
             Committed(t, op, graph, host)
      PROVE  \A i \in 1..Len(queue) : queue'[i] = queue[i]
  <2>1. PICK b : queue' = Append(queue, b)
    BY <1>1 DEF Committed
  <2> QED BY <2>1 DEF TypeInv, TypeOK
<1>2. ASSUME NEW t \in Threads, Launch(t) PROVE ProfileInv'
  <2>1. CASE RunGraph(t)
    BY <1>1, <2>1, ProfileUnchanged DEF RunGraph
  <2>2. CASE ~RunGraph(t)
    BY <1>2, <2>2, ProfileUnchanged
       DEF Launch, StreamForContext, Hit, Miss, BuildFails, Publish
  <2> QED BY <2>1, <2>2
<1>3. ASSUME NEW t \in Threads, RuntimeWork(t) PROVE ProfileInv'
  BY <1>1, <1>3, ProfileUnchanged DEF RuntimeWork
<1>4. CASE End
  BY <1>4, ProfileUnchanged DEF End
<1>5. CASE UNCHANGED vars
  BY <1>5, ProfileUnchanged DEF vars
<1> QED BY <1>2, <1>3, <1>4, <1>5, NoteTimingKeeps, RecordKeeps, SessionKeeps DEF Next

\* What is recorded and what core was given agree, whenever handlers run.
THEOREM ProfileInvHolds == Spec => []ProfileInv
<1>1. Init => ProfileInv
  BY DEF Init, ProfileInv, SamplesInv, MetadataInv, ProfilesInv, Sampled
<1>2. Spec => []TypeInv
  BY TypeInit, TypeStep, PTL DEF Spec
<1> QED BY <1>1, <1>2, ProfileStep, PTL DEF Spec

\* A buffer shows up in one profile and once in it, however late its handler
\* ran (NoteTiming, Record, ProfilerStart).
THEOREM InOneProfileHolds == Spec => []InOneProfile
<1>1. ASSUME TypeInv, ProfileInv PROVE InOneProfile
  <2> SUFFICES ASSUME NEW m \in 1..Len(profiles), NEW n \in 1..Len(profiles),
                      NEW e \in profiles[m], NEW f \in profiles[n],
                      e.buffer = f.buffer
               PROVE  m = n /\ e = f
    BY DEF InOneProfile
  <2>1. e.buffer \in Shown(profiles[m]) /\ e.buffer \in Shown(profiles[n])
    BY DEF Shown
  <2>2. m = n
    <3>1. Len(profiles) \in Nat
      BY <1>1, HandlerFacts
    <3>2. ~(m < n)
      <4>1. m < n => m \in 1..(n - 1)
        BY <3>1
      <4> QED BY <1>1, <2>1, <4>1 DEF ProfileInv, ProfilesInv
    <3>3. ~(n < m)
      <4>1. n < m => n \in 1..(m - 1)
        BY <3>1
      <4> QED BY <1>1, <2>1, <4>1 DEF ProfileInv, ProfilesInv
    <3> QED BY <3>1, <3>2, <3>3
  <2> QED BY <1>1, <2>2 DEF ProfileInv, ProfilesInv, IsProfile
<1>2. Spec => []TypeInv
  BY TypeInit, TypeStep, PTL DEF Spec
<1> QED BY <1>1, <1>2, ProfileInvHolds, PTL

\* Core is given everything its session recorded: nothing is added once it has
\* asked for the size (ProfilerCollect).
THEOREM ProfileIsCompleteHolds == Spec => []ProfileIsComplete
<1>1. ASSUME TypeInv, ProfileInv PROVE ProfileIsComplete
  <2>1. CASE core = "sized"
    BY <1>1, <2>1 DEF ProfileInv, ProfileIsComplete, Sampled, Shown
  <2>2. CASE core = "off" /\ Len(profiles) > 0
    <3>1. profiles # << >>
      BY <2>2
    <3> QED BY <1>1, <2>2, <3>1 DEF ProfileInv, ProfileIsComplete, Sampled, Shown
  <2>3. CASE core \notin {"sized", "off"}
    BY <2>3 DEF ProfileIsComplete
  <2>4. CASE core = "off" /\ ~(Len(profiles) > 0)
    BY <1>1, <2>4, HandlerFacts DEF ProfileIsComplete
  <2> QED BY <2>1, <2>2, <2>3, <2>4
<1>2. Spec => []TypeInv
  BY TypeInit, TypeStep, PTL DEF Spec
<1> QED BY <1>1, <1>2, ProfileInvHolds, PTL

\* Every event of a profile carries the label of its own buffer, though ids are
\* counted anew in every session (MetadataIdLocked).
THEOREM EventsKeepTheirNamesHolds == Spec => []EventsKeepTheirNames
<1>1. ProfileInv => EventsKeepTheirNames
  BY DEF ProfileInv, ProfilesInv, IsProfile, EventsKeepTheirNames
<1> QED BY <1>1, ProfileInvHolds, PTL

=============================================================================

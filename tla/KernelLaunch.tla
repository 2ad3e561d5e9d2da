---------------------------- MODULE KernelLaunch ----------------------------
(***************************************************************************)
(* What a kernel shares with the others from its launch to the completion  *)
(* of its command buffer: the cache of built MPSGraphs (GraphCache in      *)
(* metal_mps_graph.mm), the op name kept per thread (metal_kernel_util.mm, *)
(* metal_profiler.mm) that labels its buffers, and the profiling session   *)
(* the completion handlers record into (Session in metal_profiler.mm).     *)
(*                                                                         *)
(* The stream is taken at the level of StreamOrder: the i-th buffer is the *)
(* i-th that ends.  Its handler runs some time later.                      *)
(***************************************************************************)
EXTENDS Naturals, Sequences, FiniteSets

CONSTANTS Threads,      \* threads that run kernels, and on which core copies
          Ops,          \* op kernels, told apart by name
          Keys, KeyOf,  \* cache keys, and the one each op derives
          Broken,       \* keys whose builder yields no graph
          Graphs,       \* CachedGraph objects
          Nothing,
          MaxBuffers,   \* bound on the buffers committed
          MaxCopies,    \* bound on those among them that are core's
          MaxSessions   \* bound on the profiling sessions

ASSUME OpsAssumption == KeyOf \in [Ops -> Keys] /\ Broken \subseteq Keys
ASSUME NothingAssumption == Nothing \notin Ops \cup Keys \cup Graphs
ASSUME LimitAssumption == {MaxBuffers, MaxCopies, MaxSessions} \subseteq Nat

VARIABLES
  entries,   \* GraphCache: the published graph of each key
  graphs,    \* per graph object: its life, and the key it was built for
  call,      \* per thread: the kernel it runs
  current,   \* per thread: CurrentOpName, Nothing when empty
  queue,     \* committed buffers of the stream
  ended,     \* how many of them the GPU has finished
  noting,    \* handlers that found the session active, before Record
  handled,   \* buffers whose handler has returned
  active, samples, metadata, collected,  \* Session
  pending,   \* ProfilerCollect's static vector
  core,      \* where core is in profiling: Start, Stop, Collect, Collect
  profiles   \* what core was given, one set of events for each session

cache_vars   == <<entries, graphs>>
thread_vars  == <<call, current>>
stream_vars  == <<queue, ended>>
handler_vars == <<noting, handled>>
session_vars == <<active, samples, metadata, collected>>
core_vars    == <<pending, core, profiles>>
vars == <<cache_vars, thread_vars, stream_vars, handler_vars, session_vars, core_vars>>

-----------------------------------------------------------------------------
(***************************************************************************)
(* State                                                                   *)
(***************************************************************************)

\* "launched": the kernel has its stream; "building": outside the cache's
\* lock, with a graph of its own; "running": LookupOrBuild has returned.
Idle == [step |-> "idle", op |-> Nothing, graph |-> Nothing]
Calls == {Idle}
           \cup [step : {"launched"}, op : Ops, graph : {Nothing}]
           \cup [step : {"building", "running"}, op : Ops, graph : Graphs]

\* A buffer that ends in `host' work is one of CommitWithHostCompletion.
Buffers == [op : Ops \cup {Nothing}, label : Ops \cup {Nothing},
            graph : Graphs \cup {Nothing}, host : BOOLEAN]

\* A sample is the buffer whose times it holds, with the id of its name.  An
\* event of a profile is a sample as its reader sees it, with the name.
Samples == [buffer : Nat, id : Nat]
Named == Ops \cup {"unnamed"}
Events == [buffer : Nat, name : Named \cup {Nothing}]

TypeOK ==
  /\ entries \in [Keys -> Graphs \cup {Nothing}]
  /\ graphs \in [Graphs -> [life : {"unbuilt", "live", "freed"},
                            key : Keys \cup {Nothing}]]
  /\ call \in [Threads -> Calls]
  /\ current \in [Threads -> Ops \cup {Nothing}]
  /\ queue \in Seq(Buffers)
  /\ ended \in 0..Len(queue)
  /\ noting \subseteq 1..ended /\ handled \subseteq 1..ended
  /\ active \in BOOLEAN /\ collected \in BOOLEAN
  /\ samples \subseteq Samples
  /\ metadata \subseteq [name : Named, id : Nat]
  /\ pending \subseteq Events
  /\ core \in {"off", "on", "stopped", "sized"}
  /\ profiles \in Seq(SUBSET Events)

Init ==
  /\ entries = [k \in Keys |-> Nothing]
  /\ graphs = [g \in Graphs |-> [life |-> "unbuilt", key |-> Nothing]]
  /\ call = [t \in Threads |-> Idle]
  /\ current = [t \in Threads |-> Nothing]
  /\ queue = << >> /\ ended = 0
  /\ noting = {} /\ handled = {}
  /\ active = FALSE /\ samples = {} /\ metadata = {} /\ collected = FALSE
  /\ pending = {} /\ core = "off" /\ profiles = << >>

-----------------------------------------------------------------------------
(***************************************************************************)
(* Launching a kernel                                                      *)
(***************************************************************************)

\* StreamForContext: the op's name is picked up while somebody profiles, also
\* where there is no stream to be had and the kernel fails at once.
StreamForContext(t, op) ==
  /\ call[t] = Idle
  /\ \/ call' = [call EXCEPT ![t] = [step |-> "launched", op |-> op, graph |-> Nothing]]
     \/ UNCHANGED call
  /\ current' = IF active THEN [current EXCEPT ![t] = op] ELSE current
  /\ UNCHANGED <<cache_vars, stream_vars, handler_vars, session_vars, core_vars>>

Key(t) == KeyOf[call[t].op]
GoOn(t, s, g) == [call EXCEPT ![t] = [step |-> s, op |-> call[t].op, graph |-> g]]
Running(t, g) == GoOn(t, "running", g)

\* LookupOrBuild, the first look under the lock.
Hit(t) ==
  /\ call[t].step = "launched"
  /\ entries[Key(t)] # Nothing
  /\ call' = Running(t, entries[Key(t)])
  /\ UNCHANGED <<cache_vars, current, stream_vars, handler_vars, session_vars, core_vars>>

Miss(t, g) ==
  /\ call[t].step = "launched"
  /\ entries[Key(t)] = Nothing
  /\ graphs[g].life = "unbuilt"
  /\ graphs' = [graphs EXCEPT ![g] = [life |-> "live", key |-> Key(t)]]
  /\ call' = GoOn(t, "building", g)
  /\ UNCHANGED <<entries, current, stream_vars, handler_vars, session_vars, core_vars>>

\* The builder filled in no graph: the kernel fails its status and returns.
BuildFails(t) ==
  /\ call[t].step = "building"
  /\ Key(t) \in Broken
  /\ graphs' = [graphs EXCEPT ![call[t].graph].life = "freed"]
  /\ call' = [call EXCEPT ![t] = Idle]
  /\ UNCHANGED <<entries, current, stream_vars, handler_vars, session_vars, core_vars>>

\* Mutant: the entry is replaced, and the graph that was there freed.
PublishReplacing(t) ==
  LET old == entries[Key(t)] IN
  /\ call[t].step = "building"
  /\ Key(t) \notin Broken
  /\ entries' = [entries EXCEPT ![Key(t)] = call[t].graph]
  /\ graphs' = [g \in Graphs |-> IF g = old THEN [graphs[g] EXCEPT !.life = "freed"]
                                            ELSE graphs[g]]
  /\ call' = Running(t, call[t].graph)
  /\ UNCHANGED <<current, stream_vars, handler_vars, session_vars, core_vars>>

\* Mutant: the graph that lost the race is kept by nobody.
PublishLeaking(t) ==
  LET kept == IF entries[Key(t)] = Nothing THEN call[t].graph ELSE entries[Key(t)] IN
  /\ call[t].step = "building"
  /\ Key(t) \notin Broken
  /\ entries' = [entries EXCEPT ![Key(t)] = kept]
  /\ call' = Running(t, kept)
  /\ UNCHANGED <<graphs, current, stream_vars, handler_vars, session_vars, core_vars>>

\* LookupOrBuild, under the lock again: whoever was first is published, and
\* the graph that lost the race is freed.
Publish(t) ==
  LET mine == call[t].graph
      kept == IF entries[Key(t)] = Nothing THEN mine ELSE entries[Key(t)]
  IN /\ call[t].step = "building"
     /\ Key(t) \notin Broken
     /\ entries' = [entries EXCEPT ![Key(t)] = kept]
     /\ graphs' = IF kept = mine THEN graphs
                                 ELSE [graphs EXCEPT ![mine].life = "freed"]
     /\ call' = Running(t, kept)
     /\ UNCHANGED <<current, stream_vars, handler_vars, session_vars, core_vars>>

\* An OrderedCommandBuffer is labelled with the name its thread holds.
Committed(t, op, graph, host) ==
  /\ Len(queue) < MaxBuffers
  /\ queue' = Append(queue, [op |-> op, label |-> current[t], graph |-> graph,
                             host |-> host])

\* RunGraph, and the kernel returns: with its buffer committed, or failed for
\* an array too many or too few or for want of a command buffer.
RunGraph(t) ==
  /\ call[t].step = "running"
  /\ Committed(t, call[t].op, call[t].graph, FALSE) \/ UNCHANGED queue
  /\ call' = [call EXCEPT ![t] = Idle]
  /\ UNCHANGED <<cache_vars, current, ended, handler_vars, session_vars, core_vars>>

\* A copy or a fill that core asks for between two kernels of the thread, under
\* the name that the last one may have left there. A copy from or to the host
\* ends in host work, others do not.
RuntimeWork(t) ==
  /\ call[t] = Idle
  /\ Cardinality({i \in 1..Len(queue) : queue[i].op = Nothing}) < MaxCopies
  /\ \E host \in BOOLEAN : Committed(t, Nothing, Nothing, host)
  /\ UNCHANGED <<cache_vars, thread_vars, ended, handler_vars, session_vars, core_vars>>

-----------------------------------------------------------------------------
(***************************************************************************)
(* Completion                                                              *)
(***************************************************************************)

\* The GPU ends the next buffer, which waits for the host work of those before.
End ==
  /\ ended < Len(queue)
  /\ \A i \in 1..ended : queue[i].host => i \in handled
  /\ ended' = ended + 1
  /\ UNCHANGED <<cache_vars, thread_vars, queue, handler_vars, session_vars, core_vars>>

\* NoteTiming: a handler looks whether anybody profiles, outside the lock.
NoteTiming(i) ==
  /\ i \in 1..ended \ (noting \cup handled)
  /\ ~queue[i].host
  /\ IF active THEN noting' = noting \cup {i} /\ UNCHANGED handled
               ELSE handled' = handled \cup {i} /\ UNCHANGED noting
  /\ UNCHANGED <<cache_vars, thread_vars, stream_vars, session_vars, core_vars>>

\* The handler of CommitWithHostCompletion does not ask for timing.
HostCompletion(i) ==
  /\ i \in 1..ended \ (noting \cup handled)
  /\ queue[i].host
  /\ handled' = handled \cup {i}
  /\ UNCHANGED <<cache_vars, thread_vars, stream_vars, noting, session_vars, core_vars>>

NameOf(i) == IF queue[i].label = Nothing THEN "unnamed" ELSE queue[i].label
Ids(name) == {m.id : m \in {n \in metadata : n.name = name}}

\* Mutant: ids start at zero.
MetadataIdFromZero(name) ==
  IF Ids(name) # {} THEN CHOOSE id \in Ids(name) : TRUE ELSE Cardinality(metadata)

\* MetadataIdLocked: the name's id, or the next one.
MetadataId(name) ==
  IF Ids(name) # {} THEN CHOOSE id \in Ids(name) : TRUE ELSE Cardinality(metadata) + 1

Sample(i) ==
  /\ samples' = samples \cup {[buffer |-> i, id |-> MetadataId(NameOf(i))]}
  /\ metadata' = metadata \cup {[name |-> NameOf(i), id |-> MetadataId(NameOf(i))]}

\* Mutant: the session is not looked at again under the lock.
RecordUnchecked(i) ==
  /\ i \in noting
  /\ Sample(i)
  /\ noting' = noting \ {i} /\ handled' = handled \cup {i}
  /\ UNCHANGED <<cache_vars, thread_vars, stream_vars, active, collected, core_vars>>

\* Record: the session is looked at again under its lock, and a buffer for
\* which Metal reports no times is left out.
Record(i) ==
  /\ i \in noting
  /\ \/ active /\ Sample(i)
     \/ UNCHANGED <<samples, metadata>>
  /\ noting' = noting \ {i} /\ handled' = handled \cup {i}
  /\ UNCHANGED <<cache_vars, thread_vars, stream_vars, active, collected, core_vars>>

-----------------------------------------------------------------------------
(***************************************************************************)
(* The session.  Core starts it, stops it, asks for the size of the        *)
(* profile and then for its bytes; one thread at a time.                   *)
(***************************************************************************)

\* Mutant: what an earlier session recorded is kept.
StartKeeping ==
  /\ core = "off" /\ Len(profiles) < MaxSessions
  /\ active' = TRUE /\ collected' = FALSE
  /\ core' = "on"
  /\ UNCHANGED <<samples, metadata, cache_vars, thread_vars, stream_vars,
                 handler_vars, pending, profiles>>

\* Core never starts a session during one, so Start does not refuse.
Start ==
  /\ core = "off" /\ Len(profiles) < MaxSessions
  /\ samples' = {} /\ metadata' = {} /\ collected' = FALSE
  /\ active' = TRUE
  /\ core' = "on"
  /\ UNCHANGED <<cache_vars, thread_vars, stream_vars, handler_vars, pending, profiles>>

Stop ==
  /\ core = "on"
  /\ active' = FALSE
  /\ core' = "stopped"
  /\ UNCHANGED <<cache_vars, thread_vars, stream_vars, handler_vars,
                 samples, metadata, collected, pending, profiles>>

\* What a reader makes of an id: proto3 does not write a zero.
Resolve(id) ==
  IF id # 0 /\ \E m \in metadata : m.id = id
    THEN (CHOOSE m \in metadata : m.id = id).name ELSE Nothing

\* ProfilerCollect without a buffer: the profile is serialised and held.
CollectSize ==
  /\ core = "stopped"
  /\ pending' = IF collected THEN {}
                  ELSE {[buffer |-> s.buffer, name |-> Resolve(s.id)] : s \in samples}
  /\ collected' = (collected \/ samples # {})
  /\ core' = "sized"
  /\ UNCHANGED <<cache_vars, thread_vars, stream_vars, handler_vars,
                 active, samples, metadata, profiles>>

\* With one, of the size just told; core does not ask for the bytes of an empty
\* profile.
CollectBytes ==
  /\ core = "sized"
  /\ profiles' = Append(profiles, pending)
  /\ pending' = {}
  /\ core' = "off"
  /\ UNCHANGED <<cache_vars, thread_vars, stream_vars, handler_vars, session_vars>>

-----------------------------------------------------------------------------
Launch(t) ==
  \/ \E op \in Ops : StreamForContext(t, op)
  \/ Hit(t)
  \/ \E g \in Graphs : Miss(t, g)
  \/ BuildFails(t)
  \/ Publish(t)
  \/ RunGraph(t)

Next ==
  \/ \E t \in Threads : Launch(t) \/ RuntimeWork(t)
  \/ End
  \/ \E i \in 1..Len(queue) : NoteTiming(i) \/ HostCompletion(i) \/ Record(i)
  \/ Start \/ Stop \/ CollectSize \/ CollectBytes

Spec == Init /\ [][Next]_vars

-----------------------------------------------------------------------------
(***************************************************************************)
(* Properties                                                              *)
(***************************************************************************)

\* Every caller runs the published graph of its key: one that is still there
\* and was built for that key, whoever built it and however many raced.
RunsPublishedGraph ==
  /\ \A t \in Threads : call[t].step = "running" =>
       call[t].graph = entries[Key(t)]
  /\ \A i \in 1..Len(queue) : queue[i].graph # Nothing =>
       /\ graphs[queue[i].graph] = [life |-> "live", key |-> KeyOf[queue[i].op]]
       /\ queue[i].graph = entries[KeyOf[queue[i].op]]

\* No graph is lost and none kept twice: one that has not been freed is the
\* published one of its key or in the hands of the one thread building it.
NoGraphLost ==
  \A g \in Graphs : graphs[g].life = "live" =>
    \/ entries[graphs[g].key] = g
    \/ \E t \in Threads : call[t].step = "building" /\ call[t].graph = g

\* A published graph stays: callers hold it for the life of the process.
PublishedStays ==
  [][\A k \in Keys : entries[k] # Nothing => entries'[k] = entries[k]]_vars

\* A buffer shows up in one profile, however late its handler ran.
InOneProfile ==
  \A m, n \in 1..Len(profiles) : \A e \in profiles[m], f \in profiles[n] :
    e.buffer = f.buffer => m = n /\ e = f

\* The profile core is given holds everything its session recorded: no handler
\* adds to it once core has asked for its size.
ProfileIsComplete ==
  core \in {"sized", "off"} /\ Len(profiles) + (IF core = "sized" THEN 1 ELSE 0) > 0 =>
    {s.buffer : s \in samples} =
      {e.buffer : e \in IF core = "sized" THEN pending ELSE profiles[Len(profiles)]}

\* An event of a profile is shown under its own buffer's label.
EventsKeepTheirNames ==
  \A m \in 1..Len(profiles) : \A e \in profiles[m] : e.name = NameOf(e.buffer)

Sampled == {s.buffer : s \in samples}
Shown(events) == {e.buffer : e \in events}

\* What core was given could be a profile: events of buffers whose handler is
\* done, each once and under its own name.
IsProfile(events) ==
  \A e \in events :
    /\ e.buffer \in handled
    /\ e.name = NameOf(e.buffer)
    /\ \A f \in events : e.buffer = f.buffer => e = f

\* So could what is recorded: its ids are those of its buffers' names.
SamplesInv ==
  \A s \in samples :
    /\ s.buffer \in handled
    /\ [name |-> NameOf(s.buffer), id |-> s.id] \in metadata
    /\ \A r \in samples : s.buffer = r.buffer => s = r

\* A reader can take the metadata apart: ids are counted from one, and one name
\* has one id.
MetadataInv ==
  /\ \A m \in metadata : 1 <= m.id /\ m.id <= Cardinality(metadata)
  /\ \A m, n \in metadata : m.id = n.id <=> m.name = n.name

\* What is recorded since Start is of buffers that are in no profile yet.
ProfilesInv ==
  \A n \in 1..Len(profiles) :
    /\ IsProfile(profiles[n])
    /\ \A m \in 1..(n - 1) : Shown(profiles[m]) \cap Shown(profiles[n]) = {}
    /\ core # "off" => Sampled \cap Shown(profiles[n]) = {}

\* Why a buffer is in one profile, whole and under its name: a handler that is
\* still to record has no sample yet, and core's profile is formed from the
\* samples once recording is over.
ProfileInv ==
  /\ noting \cap handled = {}
  /\ SamplesInv /\ MetadataInv /\ ProfilesInv
  /\ active <=> core = "on"
  /\ core \in {"on", "stopped"} => ~collected
  /\ core = "sized" => IsProfile(pending) /\ Shown(pending) = Sampled
  /\ core = "off" => Sampled = IF profiles = << >> THEN {}
                                 ELSE Shown(profiles[Len(profiles)])

\* Why: published graphs, and the ones threads are building, are there and of
\* their keys, and no two of these are one object.
CacheInv ==
  /\ \A k \in Keys : entries[k] # Nothing =>
       graphs[entries[k]] = [life |-> "live", key |-> k]
  /\ \A t \in Threads : call[t].step = "building" =>
       /\ graphs[call[t].graph] = [life |-> "live", key |-> Key(t)]
       /\ \A k \in Keys : entries[k] # call[t].graph
  /\ \A t, u \in Threads :
       /\ t # u
       /\ call[t].step = "building" /\ call[u].step = "building"
       => call[t].graph # call[u].graph
  /\ RunsPublishedGraph
  /\ NoGraphLost

=============================================================================

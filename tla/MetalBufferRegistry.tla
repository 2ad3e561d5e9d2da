------------------------ MODULE MetalBufferRegistry ------------------------
(***************************************************************************)
(* The map from device addresses back to the MTLBuffers behind them        *)
(* (metal_buffer_registry.mm), with the calls that fill and empty it:      *)
(* Allocate, Deallocate and their unified-memory twins                     *)
(* (metal_stream_executor.mm).                                             *)
(*                                                                         *)
(* A device address is a number; 0 is null.  Metal places each buffer on   *)
(* addresses no other existing buffer covers, and takes the addresses back *)
(* when the last reference to the buffer is dropped.                       *)
(***************************************************************************)
EXTENDS Integers, FiniteSets, FiniteSetsExt

CONSTANTS Threads,    \* threads that allocate and deallocate
          Buffers,    \* MTLBuffer objects
          Sizes,      \* sizes that are asked for
          MaxAddress, \* bound on the addresses Metal can use
          MaxAllocs   \* bound on the allocations, give or take one a thread

ASSUME SizesAssumption == Sizes \subseteq Nat
ASSUME LimitAssumption == MaxAddress \in Nat /\ MaxAllocs \in Nat

VARIABLES references,  \* per buffer: its retain count, 0 if it does not exist
          place,       \* per buffer: the base and size of its contents
          allocations, \* the registry's map, as a set of keyed entries
          stats,       \* what get_allocator_stats reports
          memory,      \* what core holds: addresses and sizes it was given
          call         \* per thread: the step and the buffer of its call

vars == <<references, place, allocations, stats, memory, call>>

-----------------------------------------------------------------------------
Placement == [base : Nat, size : Nat]
Entries == [base : Nat, size : Nat, buffer : Buffers]
Memory == [opaque : Nat, size : Nat]

\* "made": newBufferWithLength returned; "registered": so did Register;
\* "refused": Register returned null; "releasing": unregistered, not released.
CallSteps == {"made", "registered", "refused", "releasing"}

Idle == [step |-> "idle"]
Calls == {Idle} \cup [step : CallSteps, buffer : Buffers, size : Nat]

TypeOK ==
  /\ references \in [Buffers -> Nat]
  /\ place \in [Buffers -> Placement]
  /\ allocations \subseteq Entries
  /\ stats \in [num_allocs : Nat, bytes_in_use : Int,
                peak_bytes_in_use : Nat, largest_alloc_size : Nat]
  /\ memory \subseteq Memory
  /\ call \in [Threads -> Calls]

Init ==
  /\ references = [b \in Buffers |-> 0]
  /\ place = [b \in Buffers |-> [base |-> 0, size |-> 0]]
  /\ allocations = {}
  /\ stats = [num_allocs |-> 0, bytes_in_use |-> 0,
              peak_bytes_in_use |-> 0, largest_alloc_size |-> 0]
  /\ memory = {}
  /\ call = [t \in Threads |-> Idle]

-----------------------------------------------------------------------------
Exists(b) == references[b] > 0

\* Where Metal may place a new buffer: on addresses no existing one covers.
Vacant(base, size) ==
  /\ base >= 1
  /\ base + size - 1 <= MaxAddress
  /\ \A b \in Buffers : Exists(b) =>
       base + size <= place[b].base \/ place[b].base + place[b].size <= base

AtLeastOne(size) == IF size = 0 THEN 1 ELSE size

\* Allocate: zero bytes are rounded up to one.  When Metal returns nil the call
\* ends with nothing changed.
NewBuffer(t, b, base, size) ==
  /\ call[t].step = "idle"
  /\ stats.num_allocs < MaxAllocs
  /\ ~Exists(b)
  /\ Vacant(base, AtLeastOne(size))
  /\ references' = [references EXCEPT ![b] = 1]
  /\ place' = [place EXCEPT ![b] = [base |-> base, size |-> AtLeastOne(size)]]
  /\ call' = [call EXCEPT ![t] = [step |-> "made", buffer |-> b, size |-> size]]
  /\ UNCHANGED <<allocations, stats, memory>>

Larger(m, n) == IF m > n THEN m ELSE n

\* Register: the buffer is retained, then entered under `mu` unless its
\* address is taken, in which case the reference is dropped again.
Register(t) ==
  LET b == call[t].buffer
      size == place[b].size
      in_use == stats.bytes_in_use + size
      taken == \E a \in allocations : a.base = place[b].base
  IN
  /\ call[t].step = "made"
  /\ IF taken
       THEN /\ call' = [call EXCEPT ![t].step = "refused"]
            /\ UNCHANGED <<references, allocations, stats>>
       ELSE /\ allocations' = allocations \cup
                 {[base |-> place[b].base, size |-> size, buffer |-> b]}
            /\ references' = [references EXCEPT ![b] = @ + 1]
            /\ stats' = [num_allocs |-> stats.num_allocs + 1,
                         bytes_in_use |-> in_use,
                         peak_bytes_in_use |-> Larger(stats.peak_bytes_in_use, in_use),
                         largest_alloc_size |-> Larger(stats.largest_alloc_size, size)]
            /\ call' = [call EXCEPT ![t].step = "registered"]
  /\ UNCHANGED <<place, memory>>

\* Mutant: the reference newBufferWithLength gave is kept.
ReturnWithoutRelease(t) ==
  /\ call[t].step \in {"registered", "refused"}
  /\ memory' = IF call[t].step = "refused" THEN memory
                 ELSE memory \cup {[opaque |-> place[call[t].buffer].base,
                                    size |-> call[t].size]}
  /\ call' = [call EXCEPT ![t] = Idle]
  /\ UNCHANGED <<references, place, allocations, stats>>

\* The rest of Allocate: its own reference is dropped and core is handed the
\* address with the size it asked for, or nothing.
ReturnFromAllocate(t) ==
  LET b == call[t].buffer IN
  /\ call[t].step \in {"registered", "refused"}
  /\ references' = [references EXCEPT ![b] = @ - 1]
  /\ memory' = IF call[t].step = "refused" THEN memory
                 ELSE memory \cup {[opaque |-> place[b].base, size |-> call[t].size]}
  /\ call' = [call EXCEPT ![t] = Idle]
  /\ UNCHANGED <<place, allocations, stats>>

-----------------------------------------------------------------------------
\* Mutant: the entry stays in the map.
UnregisterWithoutErase(t, m) ==
  /\ call[t].step = "idle"
  /\ m \in memory
  /\ \E a \in allocations :
       /\ a.base = m.opaque
       /\ stats' = [stats EXCEPT !.bytes_in_use = @ - a.size]
       /\ call' = [call EXCEPT ![t] = [step |-> "releasing", buffer |-> a.buffer,
                                       size |-> a.size]]
  /\ memory' = memory \ {m}
  /\ UNCHANGED <<references, place, allocations>>

\* Mutant: the bytes in use are not reduced.
UnregisterUncounted(t, m) ==
  /\ call[t].step = "idle"
  /\ m \in memory
  /\ \E a \in allocations :
       /\ a.base = m.opaque
       /\ allocations' = allocations \ {a}
       /\ call' = [call EXCEPT ![t] = [step |-> "releasing", buffer |-> a.buffer,
                                       size |-> a.size]]
  /\ memory' = memory \ {m}
  /\ UNCHANGED <<references, place, stats>>

\* Deallocate up to the end of Unregister's critical section: core gives up an
\* address it was handed, the entry is erased, the buffer still referenced.
Unregister(t, m) ==
  /\ call[t].step = "idle"
  /\ m \in memory
  /\ \E a \in allocations :
       /\ a.base = m.opaque
       /\ allocations' = allocations \ {a}
       /\ stats' = [stats EXCEPT !.bytes_in_use = @ - a.size]
       /\ call' = [call EXCEPT ![t] = [step |-> "releasing", buffer |-> a.buffer,
                                       size |-> a.size]]
  /\ memory' = memory \ {m}
  /\ UNCHANGED <<references, place>>

\* The registry's reference is dropped outside the lock.
Release(t) ==
  /\ call[t].step = "releasing"
  /\ references' = [references EXCEPT ![call[t].buffer] = @ - 1]
  /\ call' = [call EXCEPT ![t] = Idle]
  /\ UNCHANGED <<place, allocations, stats, memory>>

Next == \E t \in Threads :
  \/ \E b \in Buffers, base \in 1..MaxAddress, size \in Sizes :
       NewBuffer(t, b, base, size)
  \/ Register(t)
  \/ ReturnFromAllocate(t)
  \/ \E m \in memory : Unregister(t, m)
  \/ Release(t)

Spec == Init /\ [][Next]_vars

-----------------------------------------------------------------------------
(***************************************************************************)
(* Lookup                                                                  *)
(***************************************************************************)

Unresolved == [found |-> FALSE]

\* Lookup without its range check, as a mutant of it.
LookupUnchecked(address) ==
  LET below == {a \in allocations : a.base <= address}
      last == CHOOSE a \in below : \A b \in below : b.base <= a.base
  IN IF below = {} THEN Unresolved
     ELSE [found |-> TRUE, buffer |-> last.buffer, offset |-> address - last.base]

\* Lookup: the entry with the greatest base at or below the address, which
\* must reach as far as the address.
Lookup(address) ==
  LET below == {a \in allocations : a.base <= address}
      last == CHOOSE a \in below : \A b \in below : b.base <= a.base
  IN IF address = 0 \/ below = {} \/ address - last.base >= last.size
     THEN Unresolved
     ELSE [found |-> TRUE, buffer |-> last.buffer, offset |-> address - last.base]

-----------------------------------------------------------------------------
(***************************************************************************)
(* Properties                                                              *)
(***************************************************************************)

Covers(a, address) == a.base <= address /\ address < a.base + a.size

\* Any address inside memory core holds resolves to the existing buffer that
\* begins there and to the offset from it; the binary search never lands on a
\* neighbour.
LookupFindsOwner ==
  \A m \in memory :
    \A address \in m.opaque .. (m.opaque + AtLeastOne(m.size) - 1) :
      LET r == Lookup(address) IN
      /\ r.found
      /\ Exists(r.buffer)
      /\ place[r.buffer].base = m.opaque
      /\ r.offset = address - m.opaque

\* An address resolves only when some live allocation covers it, so that
\* ResolveOrFail catches the addresses that were never handed out.
LookupRejectsTheRest ==
  \A address \in 0..(MaxAddress + 1) :
    Lookup(address).found => \E a \in allocations : Covers(a, address)

\* Register never meets an address that is still registered: an entry is gone
\* before Metal can reuse its addresses.
NeverRefused == \A t \in Threads : call[t].step # "refused"

\* A thread's call holds one reference on the buffer it works with.
HeldByCall(b) == \E t \in Threads : call[t].step # "idle" /\ call[t].buffer = b
Registered(b) == \E a \in allocations : a.buffer = b

\* No buffer leaks and none is released once too often: its references are
\* the registry's and that of the one call working on it.
ReferencesAddUp ==
  \A b \in Buffers :
    references[b] = (IF Registered(b) THEN 1 ELSE 0) + (IF HeldByCall(b) THEN 1 ELSE 0)

Bytes(entries) == MapThenSumSet(LAMBDA a : a.size, entries)

\* The statistics agree with the map: the bytes in use are those of its
\* entries, and the two maxima bound them.
StatsAgree ==
  /\ stats.bytes_in_use = Bytes(allocations)
  /\ stats.bytes_in_use <= stats.peak_bytes_in_use
  /\ \A a \in allocations : a.size <= stats.largest_alloc_size

-----------------------------------------------------------------------------
(***************************************************************************)
(* Inductive invariant                                                     *)
(***************************************************************************)

Apart(p, q) == p.base + p.size <= q.base \/ q.base + q.size <= p.base

\* A call has its buffer to itself until it is registered and again once it is
\* unregistered.
CallInv(t) ==
  /\ call[t].step \in {"made", "releasing"} => ~Registered(call[t].buffer)
  /\ call[t].step = "registered" => Registered(call[t].buffer)
  /\ call[t].step \in {"made", "registered"} =>
       place[call[t].buffer].size = AtLeastOne(call[t].size)

\* Why: existing buffers lie apart, an entry describes an existing buffer, and
\* what core holds is registered and in nobody's call.
RegistryInv ==
  /\ \A b \in Buffers : Exists(b) => place[b].base >= 1 /\ place[b].size >= 1
  /\ \A b, c \in Buffers : b # c /\ Exists(b) /\ Exists(c) => Apart(place[b], place[c])
  /\ \A a \in allocations : a.base = place[a.buffer].base /\ a.size = place[a.buffer].size
  /\ \A t, u \in Threads :
       t # u /\ call[t].step # "idle" /\ call[u].step # "idle" =>
         call[t].buffer # call[u].buffer
  /\ \A t \in Threads : CallInv(t)
  /\ \A m \in memory : \E a \in allocations :
       a.base = m.opaque /\ a.size = AtLeastOne(m.size) /\ ~HeldByCall(a.buffer)
  /\ \A m, n \in memory : m.opaque = n.opaque => m = n
  /\ ReferencesAddUp
  /\ NeverRefused

=============================================================================

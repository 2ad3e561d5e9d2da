--------------------- MODULE MetalBufferRegistryProofs ---------------------
(***************************************************************************)
(* Proofs about MetalBufferRegistry: for any number of threads, buffers    *)
(* and addresses.                                                          *)
(***************************************************************************)
EXTENDS MetalBufferRegistry, FiniteSetTheorems, WellFoundedInduction, TLAPS

\* What is known of a thread's call from the step it has reached.
LEMMA CallFacts ==
  ASSUME NEW c \in Calls
  PROVE  /\ c.step = "idle" <=> c = Idle
         /\ c.step # "idle" => /\ c.step \in CallSteps
                                /\ c.buffer \in Buffers
                                /\ c.size \in Nat
         /\ c.step # "idle" => c = [step |-> c.step, buffer |-> c.buffer, size |-> c.size]
  BY DEF Calls, Idle, CallSteps

\* One more or one fewer than asked is never less than one.
LEMMA Rounded ==
  ASSUME NEW n \in Nat PROVE AtLeastOne(n) \in Nat /\ AtLeastOne(n) >= 1
  BY DEF AtLeastOne

\* Initially there is no buffer and no entry.
LEMMA RegistryInit == Init => TypeOK /\ RegistryInv
<1> SUFFICES ASSUME Init PROVE TypeOK /\ RegistryInv
  OBVIOUS
<1>1. TypeOK
  BY DEF Init, TypeOK, Placement, Calls
<1>2. \A b \in Buffers : ~Exists(b) /\ ~Registered(b) /\ ~HeldByCall(b)
  BY DEF Init, Exists, Registered, HeldByCall, Idle
<1>3. \A t \in Threads : CallInv(t) /\ call[t].step = "idle"
  BY DEF Init, CallInv, Idle
<1> QED BY <1>1, <1>2, <1>3 DEF Init, RegistryInv, ReferencesAddUp, NeverRefused

\* A new buffer is placed apart from all existing ones.
LEMMA NewBufferKeeps ==
  ASSUME TypeOK, RegistryInv,
         NEW t \in Threads, NEW b \in Buffers, NEW base \in 1..MaxAddress,
         NEW size \in Sizes, NewBuffer(t, b, base, size)
  PROVE  TypeOK' /\ RegistryInv'
<1> DEFINE new == [step |-> "made", buffer |-> b, size |-> size]
<1>1. size \in Nat /\ base \in Nat /\ base >= 1
  BY SizesAssumption, LimitAssumption
<1>2. AtLeastOne(size) \in Nat /\ AtLeastOne(size) >= 1
  BY <1>1, Rounded
<1>3. new \in Calls /\ new.step = "made"
  BY <1>1 DEF Calls, CallSteps
<1>4. call' = [call EXCEPT ![t] = new] /\ call[t].step = "idle"
  BY DEF NewBuffer
<1>5. TypeOK'
  BY <1>1, <1>2, <1>3, <1>4 DEF NewBuffer, TypeOK, Placement
<1>6. references[b] = 0 /\ ~Registered(b) /\ ~HeldByCall(b)
  BY DEF NewBuffer, TypeOK, RegistryInv, ReferencesAddUp, Exists, Registered, HeldByCall
<1>7. \A c \in Buffers : Exists(c)' <=> c = b \/ Exists(c)
  BY DEF NewBuffer, Exists, TypeOK
<1>8. \A c \in Buffers : place'[c] = IF c = b THEN [base |-> base, size |-> AtLeastOne(size)]
                                              ELSE place[c]
  BY DEF NewBuffer, TypeOK
<1>9. \A c \in Buffers : Registered(c)' <=> Registered(c)
  BY DEF NewBuffer, Registered
<1>10. \A c \in Buffers : HeldByCall(c)' <=> c = b \/ HeldByCall(c)
  BY <1>3, <1>4 DEF HeldByCall, TypeOK
<1>11. \A c \in Buffers : Exists(c)' => place'[c].base >= 1 /\ place'[c].size >= 1
  BY <1>1, <1>2, <1>7, <1>8 DEF RegistryInv
<1>12. \A c, d \in Buffers : c # d /\ Exists(c)' /\ Exists(d)' => Apart(place'[c], place'[d])
  <2> SUFFICES ASSUME NEW c \in Buffers, NEW d \in Buffers, c # d, Exists(c)', Exists(d)'
               PROVE  Apart(place'[c], place'[d])
    OBVIOUS
  <2>1. CASE c = b
    BY <2>1, <1>7, <1>8 DEF NewBuffer, Vacant, Apart
  <2>2. CASE d = b
    BY <2>2, <1>7, <1>8 DEF NewBuffer, Vacant, Apart
  <2>3. CASE c # b /\ d # b
    BY <2>3, <1>7, <1>8 DEF RegistryInv
  <2> QED BY <2>1, <2>2, <2>3
<1>13. \A a \in allocations' : a.base = place'[a.buffer].base /\ a.size = place'[a.buffer].size
  BY <1>6, <1>8 DEF NewBuffer, RegistryInv, Registered, TypeOK, Entries
<1>14. \A u, v \in Threads : u # v /\ call'[u].step # "idle" /\ call'[v].step # "idle" =>
         call'[u].buffer # call'[v].buffer
  BY <1>3, <1>4, <1>6 DEF RegistryInv, HeldByCall, TypeOK
<1>15. ASSUME NEW u \in Threads PROVE CallInv(u)'
  <2>1. CASE u = t
    <3>1. call'[t] = new /\ place'[b].size = AtLeastOne(size) /\ ~Registered(b)'
      BY <1>4, <1>6, <1>8, <1>9 DEF TypeOK
    <3> QED BY <2>1, <3>1, <1>3 DEF CallInv, Registered
  <2>2. CASE u # t
    <3>1. call'[u] = call[u]
      BY <2>2, <1>4 DEF TypeOK
    <3>2. call[u].step # "idle" => call[u].buffer \in Buffers /\ call[u].buffer # b
      BY <1>6, CallFacts DEF TypeOK, HeldByCall
    <3>3. CallInv(u)
      BY DEF RegistryInv
    <3> QED BY <3>1, <3>2, <3>3, <1>8, <1>9 DEF CallInv, Registered, NewBuffer
  <2> QED BY <2>1, <2>2
<1>16. \A m \in memory' : \E a \in allocations' :
         a.base = m.opaque /\ a.size = AtLeastOne(m.size) /\ ~HeldByCall(a.buffer)'
  <2> SUFFICES ASSUME NEW m \in memory
               PROVE  \E a \in allocations : a.base = m.opaque /\ a.size = AtLeastOne(m.size)
                                              /\ ~HeldByCall(a.buffer)'
    BY DEF NewBuffer
  <2>1. PICK a \in allocations : a.base = m.opaque /\ a.size = AtLeastOne(m.size)
                                  /\ ~HeldByCall(a.buffer)
    BY DEF RegistryInv
  <2>2. a.buffer \in Buffers /\ a.buffer # b
    BY <1>6 DEF TypeOK, Entries, Registered
  <2> QED BY <2>1, <2>2, <1>10
<1>19. \A m, n \in memory' : m.opaque = n.opaque => m = n
  BY DEF NewBuffer, RegistryInv
<1>17. ReferencesAddUp'
  BY <1>6, <1>9, <1>10 DEF ReferencesAddUp, RegistryInv, NewBuffer, TypeOK
<1>18. NeverRefused'
  BY <1>3, <1>4 DEF NeverRefused, RegistryInv, TypeOK
<1> QED BY <1>5, <1>11, <1>12, <1>13, <1>14, <1>15, <1>16, <1>17, <1>18, <1>19 DEF RegistryInv

\* What a registered buffer is to its entry: they agree, and it is the only one.
LEMMA EntryFacts ==
  ASSUME TypeOK, RegistryInv, NEW a \in allocations
  PROVE  /\ a.buffer \in Buffers
         /\ Registered(a.buffer)
         /\ Exists(a.buffer)
         /\ a.base = place[a.buffer].base /\ a.base \in Nat
         /\ a.size = place[a.buffer].size /\ a.size \in Nat
         /\ a.base >= 1 /\ a.size >= 1
         /\ \A c \in allocations : c.buffer = a.buffer => c = a
         /\ \A c \in allocations : c # a => Apart(c, a) /\ c.base # a.base
<1>1. a.buffer \in Buffers /\ Registered(a.buffer) /\ a.base \in Nat /\ a.size \in Nat
  BY DEF TypeOK, Entries, Registered
<1>2. \A c \in allocations : Exists(c.buffer) /\ c.buffer \in Buffers
  BY DEF TypeOK, Entries, Registered, RegistryInv, ReferencesAddUp, Exists
<1>3. a.base = place[a.buffer].base /\ a.size = place[a.buffer].size
  BY DEF RegistryInv
<1>4. a.base >= 1 /\ a.size >= 1
  BY <1>1, <1>2, <1>3 DEF RegistryInv
<1>5. \A c \in allocations : c.buffer = a.buffer => c = a
  BY DEF RegistryInv, TypeOK, Entries
<1>6. ASSUME NEW c \in allocations, c # a PROVE Apart(c, a) /\ c.base # a.base
  <2>1. c.buffer # a.buffer
    BY <1>5, <1>6
  <2>2. /\ Apart(place[c.buffer], place[a.buffer])
        /\ c.base = place[c.buffer].base /\ c.size = place[c.buffer].size
        /\ c.size >= 1 /\ c.size \in Nat /\ c.base \in Nat
    BY <1>1, <1>2, <2>1 DEF RegistryInv, TypeOK, Entries
  <2> QED BY <1>1, <1>3, <1>4, <2>2 DEF Apart
<1> QED BY <1>1, <1>2, <1>3, <1>4, <1>5, <1>6

\* Register finds the address free: whatever else is registered exists, lies
\* apart, and so begins elsewhere.
LEMMA AddressIsFree ==
  ASSUME TypeOK, RegistryInv, NEW t \in Threads, call[t].step = "made"
  PROVE  ~ \E a \in allocations : a.base = place[call[t].buffer].base
<1> DEFINE b == call[t].buffer
<1>1. b \in Buffers /\ HeldByCall(b) /\ ~Registered(b)
  BY CallFacts DEF TypeOK, HeldByCall, RegistryInv, CallInv
<1>2. Exists(b)
  BY <1>1 DEF RegistryInv, ReferencesAddUp, Exists
<1>3. ASSUME NEW a \in allocations PROVE a.base # place[b].base
  <2>1. a.buffer # b
    BY <1>1 DEF Registered
  <2>2. /\ a.buffer \in Buffers /\ Exists(a.buffer) /\ a.base = place[a.buffer].base
        /\ a.size = place[a.buffer].size /\ a.base >= 1 /\ a.size >= 1
        /\ a.base \in Nat /\ a.size \in Nat
    BY EntryFacts
  <2>3. Apart(place[a.buffer], place[b]) /\ place[b].size >= 1
    BY <1>1, <1>2, <2>1, <2>2 DEF RegistryInv
  <2>4. place[b].base \in Nat /\ place[b].size \in Nat
    BY <1>1 DEF TypeOK, Placement
  <2> QED BY <2>2, <2>3, <2>4 DEF Apart
<1> QED BY <1>3

\* Register adds the one entry of its buffer.
LEMMA RegisterKeeps ==
  ASSUME TypeOK, RegistryInv, NEW t \in Threads, Register(t)
  PROVE  TypeOK' /\ RegistryInv'
<1> DEFINE b == call[t].buffer
           new == [base |-> place[b].base, size |-> place[b].size, buffer |-> b]
<1>1. call[t].step = "made"
  BY DEF Register
<1>2. b \in Buffers /\ HeldByCall(b) /\ ~Registered(b) /\ call[t].size \in Nat
  BY <1>1, CallFacts DEF TypeOK, HeldByCall, RegistryInv, CallInv
<1>3. /\ allocations' = allocations \cup {new}
      /\ references' = [references EXCEPT ![b] = @ + 1]
      /\ call' = [call EXCEPT ![t].step = "registered"]
      /\ UNCHANGED <<place, memory>>
  BY <1>1, AddressIsFree DEF Register
<1>4. /\ place[b] \in Placement
      /\ place[b].size \in Nat /\ place[b].base \in Nat
      /\ references[b] = 1
  BY <1>2 DEF TypeOK, Placement, RegistryInv, ReferencesAddUp
<1>5. new \in Entries
  BY <1>2, <1>4 DEF Entries
<1>6. /\ call' \in [Threads -> Calls]
      /\ call'[t].step = "registered" /\ call'[t].buffer = b /\ call'[t].size = call[t].size
      /\ \A u \in Threads \ {t} : call'[u] = call[u]
  <2>1. call \in [Threads -> Calls] /\ call[t] \in [step : CallSteps, buffer : Buffers, size : Nat]
    BY <1>1 DEF TypeOK, Calls, Idle
  <2>2. [call[t] EXCEPT !.step = "registered"] \in [step : CallSteps, buffer : Buffers, size : Nat]
    BY <2>1 DEF CallSteps
  <2>3. call'[t] = [call[t] EXCEPT !.step = "registered"]
    BY <1>3, <2>1
  <2>4. call'[t] \in Calls
    BY <2>2, <2>3 DEF Calls
  <2>5. call'[t].step = "registered" /\ call'[t].buffer = b /\ call'[t].size = call[t].size
    BY <2>1, <2>3
  <2> QED BY <1>3, <2>1, <2>4, <2>5
<1>7. stats' \in [num_allocs : Nat, bytes_in_use : Int,
                  peak_bytes_in_use : Nat, largest_alloc_size : Nat]
  <2>1. stats \in [num_allocs : Nat, bytes_in_use : Int,
                   peak_bytes_in_use : Nat, largest_alloc_size : Nat]
    BY DEF TypeOK
  <2>2. stats' = [num_allocs |-> stats.num_allocs + 1,
                  bytes_in_use |-> stats.bytes_in_use + place[b].size,
                  peak_bytes_in_use |-> Larger(stats.peak_bytes_in_use,
                                               stats.bytes_in_use + place[b].size),
                  largest_alloc_size |-> Larger(stats.largest_alloc_size, place[b].size)]
    BY <1>1, AddressIsFree DEF Register
  <2> QED BY <2>1, <2>2, <1>4 DEF Larger
<1>8. TypeOK'
  <2>1. references' \in [Buffers -> Nat]
    BY <1>2, <1>3, <1>4 DEF TypeOK
  <2> QED BY <1>3, <1>5, <1>6, <1>7, <2>1 DEF TypeOK
<1>9. \A c \in Buffers :
        /\ Exists(c)' <=> Exists(c)
        /\ Registered(c)' <=> (c = b \/ Registered(c))
        /\ HeldByCall(c)' <=> HeldByCall(c)
  <2>1. \A c \in Buffers : Exists(c)' <=> Exists(c)
    <3>1. references' = [references EXCEPT ![b] = 2] /\ references[b] = 1
      BY <1>3, <1>4
    <3> QED BY <3>1, <1>2 DEF Exists, TypeOK
  <2>2. \A c \in Buffers : Registered(c)' <=> c = b \/ Registered(c)
    <3>1. new.buffer = b /\ new \in allocations' /\ allocations \subseteq allocations'
      BY <1>3
    <3>2. \A a \in allocations' : a = new \/ a \in allocations
      BY <1>3
    <3>3. \A c \in Buffers : c = b => Registered(c)'
      BY <3>1 DEF Registered
    <3>4. ASSUME NEW c \in Buffers, c # b PROVE Registered(c)' <=> Registered(c)
      <4>1. \A a \in allocations' : a.buffer = c => a \in allocations
        BY <3>1, <3>2, <3>4
      <4>2. (\E a \in allocations' : a.buffer = c) <=> (\E a \in allocations : a.buffer = c)
        BY <3>1, <4>1
      <4> QED BY <4>2 DEF Registered
    <3> QED BY <3>3, <3>4
  <2>3. \A c \in Buffers : HeldByCall(c)' <=> HeldByCall(c)
    BY <1>1, <1>6 DEF HeldByCall, TypeOK
  <2> QED BY <2>1, <2>2, <2>3
<1>10. \A u, v \in Threads : u # v /\ call'[u].step # "idle" /\ call'[v].step # "idle" =>
         call'[u].buffer # call'[v].buffer
  BY <1>1, <1>6 DEF RegistryInv, TypeOK
<1>11. ASSUME NEW u \in Threads PROVE CallInv(u)'
  <2>1. CASE u = t
    <3>1. place[b].size = AtLeastOne(call[t].size)
      BY <1>1 DEF RegistryInv, CallInv
    <3> QED BY <2>1, <3>1, <1>2, <1>3, <1>6, <1>9 DEF CallInv, TypeOK, Registered
  <2>2. CASE u # t
    <3>1. call'[u] = call[u]
      BY <2>2, <1>6 DEF TypeOK
    <3>2. call[u].step # "idle" => call[u].buffer \in Buffers /\ call[u].buffer # b
      BY <1>1, <2>2, CallFacts DEF TypeOK, RegistryInv
    <3>3. CallInv(u)
      BY DEF RegistryInv
    <3> QED BY <3>1, <3>2, <3>3, <1>3 DEF CallInv, Registered
  <2> QED BY <2>1, <2>2
<1>12. \A a \in allocations' : a.base = place'[a.buffer].base /\ a.size = place'[a.buffer].size
  BY <1>3 DEF RegistryInv
<1>13. \A m \in memory' : \E a \in allocations' :
         a.base = m.opaque /\ a.size = AtLeastOne(m.size) /\ ~HeldByCall(a.buffer)'
  <2> SUFFICES ASSUME NEW m \in memory
               PROVE  \E a \in allocations' : a.base = m.opaque /\ a.size = AtLeastOne(m.size)
                                               /\ ~HeldByCall(a.buffer)'
    BY <1>3
  <2>1. PICK a \in allocations : a.base = m.opaque /\ a.size = AtLeastOne(m.size)
                                  /\ ~HeldByCall(a.buffer)
    BY DEF RegistryInv
  <2> QED BY <2>1, <1>3, <1>9, EntryFacts
<1>14. ReferencesAddUp'
  BY <1>2, <1>3, <1>4, <1>9 DEF ReferencesAddUp, RegistryInv, TypeOK
<1>15. NeverRefused'
  BY <1>6 DEF NeverRefused, RegistryInv, TypeOK
<1>16. /\ \A c \in Buffers : Exists(c)' => place'[c].base >= 1 /\ place'[c].size >= 1
       /\ \A c, d \in Buffers : c # d /\ Exists(c)' /\ Exists(d)' => Apart(place'[c], place'[d])
       /\ \A m, n \in memory' : m.opaque = n.opaque => m = n
  BY <1>3, <1>9 DEF RegistryInv
<1> QED BY <1>8, <1>10, <1>11, <1>12, <1>13, <1>14, <1>15, <1>16 DEF RegistryInv

\* Allocate hands core an address no other memory has.
LEMMA ReturnKeeps ==
  ASSUME TypeOK, RegistryInv, NEW t \in Threads, ReturnFromAllocate(t)
  PROVE  TypeOK' /\ RegistryInv'
<1> DEFINE b == call[t].buffer
           new == [opaque |-> place[b].base, size |-> call[t].size]
<1>1. call[t].step = "registered"
  BY DEF ReturnFromAllocate, RegistryInv, NeverRefused
<1>2. b \in Buffers /\ HeldByCall(b) /\ Registered(b) /\ call[t].size \in Nat
  BY <1>1, CallFacts DEF TypeOK, HeldByCall, RegistryInv, CallInv
<1>3. /\ references[b] = 2
      /\ references' = [references EXCEPT ![b] = 1]
      /\ memory' = memory \cup {new}
      /\ call' = [call EXCEPT ![t] = Idle]
      /\ UNCHANGED <<place, allocations, stats>>
  <2>1. references[b] = 2
    BY <1>2 DEF RegistryInv, ReferencesAddUp
  <2> QED BY <2>1, <1>1 DEF ReturnFromAllocate
<1>4. Idle \in Calls /\ Idle.step = "idle"
  BY DEF Calls, Idle
<1>5. place[b].base \in Nat /\ new \in Memory
  BY <1>2 DEF TypeOK, Placement, Memory
<1>6. TypeOK'
  BY <1>2, <1>3, <1>4, <1>5 DEF TypeOK
<1>7. \A c \in Buffers :
        /\ Exists(c)' <=> Exists(c)
        /\ Registered(c)' <=> Registered(c)
        /\ HeldByCall(c)' <=> (c # b /\ HeldByCall(c))
  <2>1. \A c \in Buffers : Exists(c)' <=> Exists(c)
    BY <1>2, <1>3 DEF Exists, TypeOK
  <2>2. \A c \in Buffers : Registered(c)' <=> Registered(c)
    BY <1>3 DEF Registered
  <2>3. \A c \in Buffers : HeldByCall(c)' <=> (c # b /\ HeldByCall(c))
    <3>1. \A u \in Threads : u # t => call'[u] = call[u]
      BY <1>3 DEF TypeOK
    <3>2. call'[t].step = "idle"
      BY <1>3, <1>4 DEF TypeOK
    <3>3. \A u \in Threads : u # t /\ call[u].step # "idle" => call[u].buffer # b
      BY <1>1 DEF RegistryInv
    <3> QED BY <3>1, <3>2, <3>3, <1>1 DEF HeldByCall
  <2> QED BY <2>1, <2>2, <2>3
<1>8. PICK e \in allocations : e.buffer = b
  BY <1>2 DEF Registered
<1>9. e.base = new.opaque /\ e.size = AtLeastOne(new.size)
  BY <1>1, <1>8, EntryFacts DEF RegistryInv, CallInv
<1>10. \A u, v \in Threads : u # v /\ call'[u].step # "idle" /\ call'[v].step # "idle" =>
         call'[u].buffer # call'[v].buffer
  BY <1>3, <1>4 DEF RegistryInv, TypeOK
<1>11. ASSUME NEW u \in Threads PROVE CallInv(u)'
  <2>1. CASE u = t
    BY <2>1, <1>3, <1>4 DEF CallInv, TypeOK
  <2>2. CASE u # t
    <3>1. call'[u] = call[u]
      BY <2>2, <1>3 DEF TypeOK
    <3>2. CallInv(u)
      BY DEF RegistryInv
    <3> QED BY <3>1, <3>2, <1>3 DEF CallInv, Registered
  <2> QED BY <2>1, <2>2
<1>12. \A m \in memory : \E a \in allocations :
         /\ a.base = m.opaque /\ a.size = AtLeastOne(m.size)
         /\ ~HeldByCall(a.buffer) /\ a.buffer # b /\ a.base # new.opaque
  <2> SUFFICES ASSUME NEW m \in memory
               PROVE  \E a \in allocations :
                        /\ a.base = m.opaque /\ a.size = AtLeastOne(m.size)
                        /\ ~HeldByCall(a.buffer) /\ a.buffer # b /\ a.base # new.opaque
    OBVIOUS
  <2>1. PICK a \in allocations : a.base = m.opaque /\ a.size = AtLeastOne(m.size)
                                  /\ ~HeldByCall(a.buffer)
    BY DEF RegistryInv
  <2>2. a # e
    BY <2>1, <1>2, <1>8
  <2>3. a.base # e.base /\ a.buffer # b
    BY <2>1, <2>2, <1>2, EntryFacts
  <2> QED BY <2>1, <2>3, <1>9
<1>13. \A m \in memory' : \E a \in allocations' :
         a.base = m.opaque /\ a.size = AtLeastOne(m.size) /\ ~HeldByCall(a.buffer)'
  <2>1. e \in allocations' /\ ~HeldByCall(e.buffer)'
    BY <1>2, <1>3, <1>7, <1>8
  <2>2. \A a \in allocations : a \in allocations' /\ (~HeldByCall(a.buffer) => ~HeldByCall(a.buffer)')
    BY <1>3, <1>7, EntryFacts
  <2> QED BY <2>1, <2>2, <1>3, <1>9, <1>12
<1>14. \A m, n \in memory' : m.opaque = n.opaque => m = n
  <2>1. \A m \in memory : m.opaque # new.opaque
    BY <1>12
  <2> QED BY <2>1, <1>3 DEF RegistryInv
<1>15. ReferencesAddUp'
  BY <1>2, <1>3, <1>7 DEF ReferencesAddUp, RegistryInv, TypeOK
<1>16. NeverRefused'
  BY <1>3, <1>4 DEF NeverRefused, RegistryInv, TypeOK
<1>17. /\ \A c \in Buffers : Exists(c)' => place'[c].base >= 1 /\ place'[c].size >= 1
       /\ \A c, d \in Buffers : c # d /\ Exists(c)' /\ Exists(d)' => Apart(place'[c], place'[d])
       /\ \A a \in allocations' : a.base = place'[a.buffer].base /\ a.size = place'[a.buffer].size
  BY <1>3, <1>7 DEF RegistryInv
<1> QED BY <1>6, <1>10, <1>11, <1>13, <1>14, <1>15, <1>16, <1>17 DEF RegistryInv

\* Erasing an entry takes along the one memory that core gave up.
LEMMA UnregisterKeeps ==
  ASSUME TypeOK, RegistryInv, NEW t \in Threads, NEW m \in memory, Unregister(t, m)
  PROVE  TypeOK' /\ RegistryInv'
<1>1. PICK e \in allocations :
        /\ e.base = m.opaque
        /\ allocations' = allocations \ {e}
        /\ stats' = [stats EXCEPT !.bytes_in_use = @ - e.size]
        /\ call' = [call EXCEPT ![t] = [step |-> "releasing", buffer |-> e.buffer,
                                        size |-> e.size]]
  BY DEF Unregister
<1> DEFINE b == e.buffer
           new == [step |-> "releasing", buffer |-> b, size |-> e.size]
<1>2. /\ call[t].step = "idle"
      /\ memory' = memory \ {m}
      /\ UNCHANGED <<references, place>>
  BY DEF Unregister
<1>3. /\ b \in Buffers /\ Registered(b) /\ Exists(b)
      /\ e.base \in Nat /\ e.size \in Nat
      /\ \A a \in allocations : a # e => a.base # e.base /\ a.buffer # b
  BY EntryFacts
<1>4. ~HeldByCall(b)
  <2>1. PICK a \in allocations : a.base = m.opaque /\ ~HeldByCall(a.buffer)
    BY DEF RegistryInv
  <2>2. a = e
    BY <2>1, <1>1, <1>3
  <2> QED BY <2>1, <2>2
<1>5. new \in Calls /\ new.step = "releasing" /\ new.buffer = b
  BY <1>3 DEF Calls, CallSteps
<1>6. TypeOK'
  <2>1. stats' \in [num_allocs : Nat, bytes_in_use : Int,
                    peak_bytes_in_use : Nat, largest_alloc_size : Nat]
    BY <1>1, <1>3 DEF TypeOK
  <2>2. call' \in [Threads -> Calls]
    BY <1>1, <1>5 DEF TypeOK
  <2> QED BY <1>1, <1>2, <2>1, <2>2 DEF TypeOK
<1>7. \A c \in Buffers :
        /\ Exists(c)' <=> Exists(c)
        /\ Registered(c)' <=> (c # b /\ Registered(c))
        /\ HeldByCall(c)' <=> (c = b \/ HeldByCall(c))
  <2>1. \A c \in Buffers : Exists(c)' <=> Exists(c)
    BY <1>2 DEF Exists
  <2>2. \A c \in Buffers : Registered(c)' <=> (c # b /\ Registered(c))
    BY <1>1, <1>3 DEF Registered
  <2>3. \A c \in Buffers : HeldByCall(c)' <=> (c = b \/ HeldByCall(c))
    BY <1>1, <1>2, <1>5 DEF HeldByCall, TypeOK
  <2> QED BY <2>1, <2>2, <2>3
<1>8. \A u, v \in Threads : u # v /\ call'[u].step # "idle" /\ call'[v].step # "idle" =>
         call'[u].buffer # call'[v].buffer
  BY <1>1, <1>2, <1>4, <1>5 DEF RegistryInv, HeldByCall, TypeOK
<1>9. ASSUME NEW u \in Threads PROVE CallInv(u)'
  <2>1. CASE u = t
    <3>1. call'[u] = new
      BY <2>1, <1>1 DEF TypeOK
    <3>2. ~Registered(b)'
      BY <1>3, <1>7
    <3> QED BY <3>1, <3>2, <1>5 DEF CallInv, Registered
  <2>2. CASE u # t
    <3>1. call'[u] = call[u]
      BY <2>2, <1>1 DEF TypeOK
    <3>2. CallInv(u)
      BY DEF RegistryInv
    <3>3. call[u].step # "idle" => call[u].buffer \in Buffers /\ call[u].buffer # b
      BY <1>4, CallFacts DEF TypeOK, HeldByCall
    <3>4. call[u].step # "idle" => (Registered(call[u].buffer) <=>
             \E a \in allocations' : a.buffer = call[u].buffer)
      BY <3>3, <1>1, <1>3 DEF Registered
    <3> QED BY <3>1, <3>2, <3>4, <1>2 DEF CallInv, Registered
  <2> QED BY <2>1, <2>2
<1>10. \A n \in memory' : \E a \in allocations' :
         a.base = n.opaque /\ a.size = AtLeastOne(n.size) /\ ~HeldByCall(a.buffer)'
  <2> SUFFICES ASSUME NEW n \in memory, n # m
               PROVE  \E a \in allocations' : a.base = n.opaque /\ a.size = AtLeastOne(n.size)
                                               /\ ~HeldByCall(a.buffer)'
    BY <1>2
  <2>1. PICK a \in allocations : a.base = n.opaque /\ a.size = AtLeastOne(n.size)
                                  /\ ~HeldByCall(a.buffer)
    BY DEF RegistryInv
  <2>2. n.opaque # m.opaque
    BY DEF RegistryInv
  <2>3. a # e
    BY <2>1, <2>2, <1>1
  <2>4. a \in allocations' /\ a.buffer # b /\ a.buffer \in Buffers
    BY <2>3, <1>1, <1>3, EntryFacts
  <2> QED BY <2>1, <2>4, <1>7
<1>11. ReferencesAddUp'
  BY <1>2, <1>3, <1>4, <1>7 DEF ReferencesAddUp, RegistryInv
<1>12. NeverRefused'
  BY <1>1, <1>5 DEF NeverRefused, RegistryInv, TypeOK
<1>13. /\ \A c \in Buffers : Exists(c)' => place'[c].base >= 1 /\ place'[c].size >= 1
       /\ \A c, d \in Buffers : c # d /\ Exists(c)' /\ Exists(d)' => Apart(place'[c], place'[d])
       /\ \A a \in allocations' : a.base = place'[a.buffer].base /\ a.size = place'[a.buffer].size
       /\ \A n, p \in memory' : n.opaque = p.opaque => n = p
  BY <1>1, <1>2, <1>7 DEF RegistryInv
<1> QED BY <1>6, <1>8, <1>9, <1>10, <1>11, <1>12, <1>13 DEF RegistryInv

\* The last reference to a buffer goes, and with it its place.
LEMMA ReleaseKeeps ==
  ASSUME TypeOK, RegistryInv, NEW t \in Threads, Release(t)
  PROVE  TypeOK' /\ RegistryInv'
<1> DEFINE b == call[t].buffer
<1>1. call[t].step = "releasing"
  BY DEF Release
<1>2. b \in Buffers /\ HeldByCall(b) /\ ~Registered(b)
  BY <1>1, CallFacts DEF TypeOK, HeldByCall, RegistryInv, CallInv
<1>3. /\ references[b] = 1
      /\ references' = [references EXCEPT ![b] = 0]
      /\ call' = [call EXCEPT ![t] = Idle]
      /\ UNCHANGED <<place, allocations, stats, memory>>
  <2>1. references[b] = 1
    BY <1>2 DEF RegistryInv, ReferencesAddUp
  <2> QED BY <2>1 DEF Release
<1>4. Idle \in Calls /\ Idle.step = "idle"
  BY DEF Calls, Idle
<1>5. TypeOK'
  BY <1>2, <1>3, <1>4 DEF TypeOK
<1>6. \A c \in Buffers :
        /\ Exists(c)' => Exists(c)
        /\ Registered(c)' <=> Registered(c)
        /\ HeldByCall(c)' <=> (c # b /\ HeldByCall(c))
  <2>1. \A c \in Buffers : Exists(c)' => Exists(c)
    BY <1>2, <1>3 DEF Exists, TypeOK
  <2>2. \A c \in Buffers : Registered(c)' <=> Registered(c)
    BY <1>3 DEF Registered
  <2>3. \A c \in Buffers : HeldByCall(c)' <=> (c # b /\ HeldByCall(c))
    <3>1. \A u \in Threads : u # t => call'[u] = call[u]
      BY <1>3 DEF TypeOK
    <3>2. call'[t].step = "idle"
      BY <1>3, <1>4 DEF TypeOK
    <3>3. \A u \in Threads : u # t /\ call[u].step # "idle" => call[u].buffer # b
      BY <1>1 DEF RegistryInv
    <3> QED BY <3>1, <3>2, <3>3, <1>1 DEF HeldByCall
  <2> QED BY <2>1, <2>2, <2>3
<1>7. \A u, v \in Threads : u # v /\ call'[u].step # "idle" /\ call'[v].step # "idle" =>
         call'[u].buffer # call'[v].buffer
  BY <1>3, <1>4 DEF RegistryInv, TypeOK
<1>8. ASSUME NEW u \in Threads PROVE CallInv(u)'
  <2>1. CASE u = t
    BY <2>1, <1>3, <1>4 DEF CallInv, TypeOK
  <2>2. CASE u # t
    <3>1. call'[u] = call[u]
      BY <2>2, <1>3 DEF TypeOK
    <3>2. CallInv(u)
      BY DEF RegistryInv
    <3> QED BY <3>1, <3>2, <1>3 DEF CallInv, Registered
  <2> QED BY <2>1, <2>2
<1>9. \A m \in memory' : \E a \in allocations' :
         a.base = m.opaque /\ a.size = AtLeastOne(m.size) /\ ~HeldByCall(a.buffer)'
  <2>1. \A a \in allocations : a \in allocations' /\ (~HeldByCall(a.buffer) => ~HeldByCall(a.buffer)')
    BY <1>3, <1>6, EntryFacts
  <2> QED BY <2>1, <1>3 DEF RegistryInv
<1>10. ReferencesAddUp'
  BY <1>2, <1>3, <1>6 DEF ReferencesAddUp, RegistryInv, TypeOK
<1>11. NeverRefused'
  BY <1>3, <1>4 DEF NeverRefused, RegistryInv, TypeOK
<1>12. /\ \A c \in Buffers : Exists(c)' => place'[c].base >= 1 /\ place'[c].size >= 1
       /\ \A c, d \in Buffers : c # d /\ Exists(c)' /\ Exists(d)' => Apart(place'[c], place'[d])
       /\ \A a \in allocations' : a.base = place'[a.buffer].base /\ a.size = place'[a.buffer].size
       /\ \A m, n \in memory' : m.opaque = n.opaque => m = n
  BY <1>3, <1>6 DEF RegistryInv
<1> QED BY <1>5, <1>7, <1>8, <1>9, <1>10, <1>11, <1>12 DEF RegistryInv

-----------------------------------------------------------------------------
\* The registry, its callers and Metal's heap stay in step: every buffer has
\* exactly the references that are accounted for, existing buffers lie apart,
\* and all that core holds is registered.
THEOREM RegistryInvHolds == Spec => [](TypeOK /\ RegistryInv)
<1>1. Init => TypeOK /\ RegistryInv
  BY RegistryInit
<1>2. TypeOK /\ RegistryInv /\ [Next]_vars => TypeOK' /\ RegistryInv'
  <2> SUFFICES ASSUME TypeOK, RegistryInv, [Next]_vars PROVE TypeOK' /\ RegistryInv'
    OBVIOUS
  <2>1. CASE UNCHANGED vars
    BY <2>1 DEF vars, TypeOK, RegistryInv, CallInv, ReferencesAddUp, NeverRefused,
                Exists, Registered, HeldByCall
  <2>2. CASE Next
    BY <2>2, NewBufferKeeps, RegisterKeeps, ReturnKeeps, UnregisterKeeps, ReleaseKeeps DEF Next
  <2> QED BY <2>1, <2>2
<1> QED BY <1>1, <1>2, PTL DEF Spec

\* No buffer leaks and none is released once too often, whatever the threads
\* that allocate and deallocate do (Register, Unregister, Allocate).
THEOREM ReferencesAddUpHolds == Spec => []ReferencesAddUp
<1>1. TypeOK /\ RegistryInv => ReferencesAddUp
  BY DEF RegistryInv
<1> QED BY <1>1, RegistryInvHolds, PTL

\* Of the entries at or below an address inside an entry, that entry has the
\* greatest base: those that begin between the two would overlap it.
LEMMA LookupInsideMemory == ASSUME TypeOK, RegistryInv PROVE LookupFindsOwner
<1> SUFFICES ASSUME NEW m \in memory,
                    NEW address \in m.opaque .. (m.opaque + AtLeastOne(m.size) - 1)
             PROVE  LET r == Lookup(address) IN
                    /\ r.found
                    /\ Exists(r.buffer)
                    /\ place[r.buffer].base = m.opaque
                    /\ r.offset = address - m.opaque
  BY DEF LookupFindsOwner
<1>1. PICK e \in allocations : e.base = m.opaque /\ e.size = AtLeastOne(m.size)
  BY DEF RegistryInv
<1> DEFINE below == {a \in allocations : a.base <= address}
           last == CHOOSE a \in below : \A c \in below : c.base <= a.base
<1>2. /\ e.base \in Nat /\ e.size \in Nat /\ e.base >= 1
      /\ address \in Int /\ e.base <= address /\ address < e.base + e.size
  BY <1>1, EntryFacts, Rounded DEF TypeOK, Memory
<1>3. \A c \in below : c.base <= e.base
  <2> SUFFICES ASSUME NEW c \in below, c # e PROVE c.base <= e.base
    BY <1>2
  <2>1. c.base \in Nat /\ c.size \in Nat /\ c.size >= 1 /\ Apart(c, e) /\ c.base <= address
    BY EntryFacts
  <2> QED BY <1>2, <2>1 DEF Apart
<1>4. e \in below /\ \E a \in below : \A c \in below : c.base <= a.base
  BY <1>2, <1>3
<1>5. last \in below /\ \A c \in below : c.base <= last.base
  BY <1>4
<1>6. last.base = e.base
  BY <1>2, <1>3, <1>4, <1>5, EntryFacts
<1>7. last = e
  BY <1>5, <1>6, EntryFacts
<1>8. Lookup(address) = [found |-> TRUE, buffer |-> e.buffer, offset |-> address - e.base]
  <2>1. address - e.base < e.size /\ address # 0 /\ below # {}
    BY <1>2, <1>4
  <2>2. ~(address = 0 \/ below = {} \/ address - last.base >= last.size)
    <3> HIDE DEF below, last
    <3> QED BY <2>1, <1>2, <1>7
  <2>3. Lookup(address) = [found |-> TRUE, buffer |-> last.buffer,
                           offset |-> address - last.base]
    BY <2>2 DEF Lookup
  <2> QED BY <2>3, <1>7
<1> QED BY <1>1, <1>8, EntryFacts

\* Lookup never lands on a neighbour: every address inside memory core holds
\* resolves to the buffer that begins there.
THEOREM LookupFindsOwnerHolds == Spec => []LookupFindsOwner
<1>1. TypeOK /\ RegistryInv => LookupFindsOwner
  BY LookupInsideMemory
<1> QED BY <1>1, RegistryInvHolds, PTL

\* Of some numbers one is the least.
LEMMA Least ==
  ASSUME NEW S, S \subseteq Nat, S # {}
  PROVE  \E k \in S : \A j \in S : k <= j
<1>1. PICK k \in S : \A j \in S : ~(<<j, k>> \in OpToRel(<, Nat))
  BY NatLessThanWellFounded, WFMin
<1>2. \A j \in S : ~(j < k)
  BY <1>1 DEF OpToRel
<1> QED BY <1>2

\* Numbers below a bound have a greatest.
LEMMA Greatest ==
  ASSUME NEW bound \in Nat, NEW S, S # {}, S \subseteq 0..bound
  PROVE  \E x \in S : \A y \in S : y <= x
<1> DEFINE T == {bound - x : x \in S}
<1>1. \A x \in S : x \in Int /\ 0 <= x /\ x <= bound
  OBVIOUS
<1>2. T \subseteq Nat
  <2> SUFFICES ASSUME NEW x \in S PROVE bound - x \in Nat
    OBVIOUS
  <2> QED BY <1>1
<1>3. T # {}
  OBVIOUS
<1>4. PICK least \in T : \A y \in T : least <= y
  BY <1>2, <1>3, Least
<1>5. PICK x \in S : least = bound - x
  OBVIOUS
<1>6. ASSUME NEW y \in S PROVE y <= x
  <2>1. bound - y \in T
    OBVIOUS
  <2>2. x \in Int /\ x <= bound /\ y \in Int /\ y <= bound
    BY <1>1
  <2>3. bound - y \in Nat /\ bound - x \in Nat
    BY <2>2
  <2>4. bound - x <= bound - y
    BY <2>1, <1>4, <1>5
  <2> HIDE DEF T
  <2> QED BY <2>2, <2>4
<1> QED BY <1>6

\* The entry Lookup ends at is the only one whose range it looks at; it
\* resolves nothing that this entry does not reach.
LEMMA LookupStaysInside == ASSUME TypeOK, RegistryInv PROVE LookupRejectsTheRest
<1> SUFFICES ASSUME NEW address \in 0..(MaxAddress + 1), Lookup(address).found
             PROVE  \E a \in allocations : Covers(a, address)
  BY DEF LookupRejectsTheRest
<1> DEFINE below == {a \in allocations : a.base <= address}
           last == CHOOSE a \in below : \A c \in below : c.base <= a.base
<1>1. below # {} /\ ~(address - last.base >= last.size)
  BY DEF Lookup, Unresolved
<1>2. address \in Nat
  BY LimitAssumption
<1>3. \E a \in below : \A c \in below : c.base <= a.base
  <2> DEFINE bases == {a.base : a \in below}
  <2>1. \A a \in below : a.base \in 0..address
    BY <1>2, EntryFacts
  <2>2. bases # {} /\ bases \subseteq 0..address
    BY <1>1, <2>1
  <2>3. PICK x \in bases : \A y \in bases : y <= x
    BY <2>2, <1>2, Greatest
  <2> QED BY <2>3
<1>4. last \in below
  BY <1>3
<1> QED
  <2>1. last \in allocations /\ last.base <= address
    BY <1>4
  <2> HIDE DEF last
  <2> QED BY <2>1, <1>1, <1>2, EntryFacts DEF Covers

\* ResolveOrFail catches an address no live allocation covers: Lookup resolves
\* none such.
THEOREM LookupRejectsTheRestHolds == Spec => []LookupRejectsTheRest
<1>1. TypeOK /\ RegistryInv => LookupRejectsTheRest
  BY LookupStaysInside
<1> QED BY <1>1, RegistryInvHolds, PTL

-----------------------------------------------------------------------------
(***************************************************************************)
(* The statistics                                                          *)
(***************************************************************************)

\* A way to sum sizes that does not depend on the order of the elements.
Additive(S, F) ==
  /\ F \in [SUBSET S -> Int]
  /\ F[{}] = 0
  /\ \A s \in SUBSET S : \A x \in S \ s : F[s \cup {x}] = F[s] + x.size

\* There is one for one more element.
LEMMA AdditiveGrows ==
  ASSUME NEW S, NEW F, Additive(S, F), \A x \in S : x.size \in Int,
         NEW e, e \notin S, e.size \in Int
  PROVE  \E G : Additive(S \cup {e}, G)
<1>1. PICK G : G = [s \in SUBSET (S \cup {e}) |-> IF e \in s THEN F[s \ {e}] + e.size ELSE F[s]]
  OBVIOUS
<1>2. \A s \in SUBSET (S \cup {e}) : /\ s \ {e} \in SUBSET S
                                     /\ e \notin s => s \in SUBSET S /\ s \ {e} = s
  OBVIOUS
<1>3. G \in [SUBSET (S \cup {e}) -> Int]
  BY <1>1, <1>2 DEF Additive
<1>4. G[{}] = 0
  BY <1>1 DEF Additive
<1>5. ASSUME NEW s \in SUBSET (S \cup {e}), NEW x \in (S \cup {e}) \ s
      PROVE  G[s \cup {x}] = G[s] + x.size
  <2>1. s \cup {x} \in SUBSET (S \cup {e})
    OBVIOUS
  <2>2. CASE x = e
    <3>1. (s \cup {x}) \ {e} = s /\ e \in s \cup {x} /\ e \notin s
      BY <2>2
    <3> QED BY <1>1, <2>1, <2>2, <3>1
  <2>3. CASE x # e
    <3>1. F[(s \ {e}) \cup {x}] = F[s \ {e}] + x.size
      BY <1>2, <2>3 DEF Additive
    <3>2. CASE e \in s
      <4>1. (s \cup {x}) \ {e} = (s \ {e}) \cup {x} /\ e \in s \cup {x}
        BY <2>3, <3>2
      <4>2. G[s \cup {x}] = F[(s \ {e}) \cup {x}] + e.size /\ G[s] = F[s \ {e}] + e.size
        BY <1>1, <2>1, <3>2, <4>1
      <4>3. F[s \ {e}] \in Int /\ F[(s \ {e}) \cup {x}] \in Int
        <5>1. s \ {e} \in SUBSET S /\ (s \ {e}) \cup {x} \in SUBSET S
          BY <2>3
        <5> QED BY <5>1 DEF Additive
      <4>4. x.size \in Int
        BY <2>3
      <4> QED BY <3>1, <4>2, <4>3, <4>4
    <3>3. CASE e \notin s
      <4>1. e \notin s \cup {x} /\ s \ {e} = s
        BY <2>3, <3>3
      <4>2. G[s \cup {x}] = F[s \cup {x}] /\ G[s] = F[s]
        BY <1>1, <2>1, <3>3, <4>1
      <4> QED BY <3>1, <4>1, <4>2
    <3> QED BY <3>2, <3>3
  <2> QED BY <2>2, <2>3
<1>6. Additive(S \cup {e}, G)
  BY <1>3, <1>4, <1>5 DEF Additive
<1> QED BY <1>6

\* There is one for every finite set.
LEMMA AdditiveExists ==
  ASSUME NEW S, IsFiniteSet(S), \A x \in S : x.size \in Int
  PROVE  \E F : Additive(S, F)
<1> DEFINE Without == {T \in SUBSET S : ~ \E F : Additive(T, F)}
           Counts == {Cardinality(T) : T \in Without}
<1> SUFFICES ASSUME Without # {} PROVE FALSE
  OBVIOUS
<1>1. \A T \in SUBSET S : IsFiniteSet(T) /\ Cardinality(T) \in Nat
  BY FS_Subset, FS_CardinalityType
<1>2. PICK k \in Counts : \A j \in Counts : k <= j
  <2>1. Counts \subseteq Nat /\ Counts # {}
    BY <1>1
  <2> HIDE DEF Counts
  <2> QED BY <2>1, Least
<1>3. PICK T \in Without : k = Cardinality(T)
  OBVIOUS
<1>4. T # {}
  <2>1. PICK F : F = [s \in SUBSET {} |-> 0]
    OBVIOUS
  <2>2. Additive({}, F)
    BY <2>1 DEF Additive
  <2> QED BY <1>3, <2>2
<1>5. PICK e : e \in T
  BY <1>4
<1>6. /\ T \ {e} \in SUBSET S /\ Cardinality(T \ {e}) = Cardinality(T) - 1
      /\ e.size \in Int /\ T = (T \ {e}) \cup {e}
  BY <1>1, <1>5, FS_RemoveElement
<1>7. T \ {e} \notin Without
  <2> SUFFICES ASSUME T \ {e} \in Without PROVE FALSE
    OBVIOUS
  <2>1. Cardinality(T \ {e}) \in Counts
    OBVIOUS
  <2>2. k <= Cardinality(T \ {e}) /\ Cardinality(T) \in Nat
    BY <1>1, <1>2, <2>1
  <2> HIDE DEF Without, Counts
  <2> QED BY <1>3, <1>6, <2>2
<1>8. \E F : Additive(T \ {e}, F)
  BY <1>6, <1>7
<1>9. \E G : Additive((T \ {e}) \cup {e}, G)
  BY <1>6, <1>8, AdditiveGrows
<1> QED BY <1>3, <1>6, <1>9

\* The sum is the same however it is formed.
LEMMA BytesIsAdditive ==
  ASSUME NEW S, IsFiniteSet(S), \A x \in S : x.size \in Int,
         NEW F, Additive(S, F)
  PROVE  Bytes(S) = F[S]
<1> DEFINE Pick(s) == CHOOSE x \in s : TRUE
           Step(f) == [s \in SUBSET S |->
                         IF s = {} THEN 0 ELSE Pick(s).size + f[s \ {Pick(s)}]]
<1>1. F = Step(F)
  <2>1. ASSUME NEW s \in SUBSET S, s # {}
        PROVE  F[s] = Pick(s).size + F[s \ {Pick(s)}]
    <3>1. PICK x : x = Pick(s)
      OBVIOUS
    <3>2. x \in s
      BY <2>1, <3>1
    <3>3. /\ s \ {x} \in SUBSET S /\ x \in S \ (s \ {x}) /\ s = (s \ {x}) \cup {x}
          /\ x.size \in Int
      BY <3>2
    <3>4. F[s] = F[s \ {x}] + x.size /\ F[s \ {x}] \in Int
      BY <3>3 DEF Additive
    <3> QED BY <3>1, <3>3, <3>4
  <2> QED BY <2>1 DEF Additive
<1>2. PICK iter : iter = Step(iter) /\ Bytes(S) = iter[S]
  BY <1>1 DEF Bytes, MapThenSumSet, MapThenFoldSet
<1> DEFINE Differ == {s \in SUBSET S : iter[s] # F[s]}
           Counts == {Cardinality(s) : s \in Differ}
<1>3. Differ = {}
  <2> SUFFICES ASSUME Differ # {} PROVE FALSE
    OBVIOUS
  <2>1. \A s \in SUBSET S : IsFiniteSet(s) /\ Cardinality(s) \in Nat
    BY FS_Subset, FS_CardinalityType
  <2>2. PICK k \in Counts : \A j \in Counts : k <= j
    <3>1. Counts \subseteq Nat /\ Counts # {}
      BY <2>1
    <3> HIDE DEF Counts
    <3> QED BY <3>1, Least
  <2>3. PICK s \in Differ : k = Cardinality(s)
    OBVIOUS
  <2>4. s \in SUBSET S /\ iter[s] # F[s]
    OBVIOUS
  <2>5. CASE s = {}
    BY <1>1, <1>2, <2>4, <2>5
  <2>6. CASE s # {}
    <3>1. PICK x : x = Pick(s)
      OBVIOUS
    <3>2. x \in s
      BY <2>6, <3>1
    <3>3. s \ {x} \in SUBSET S /\ Cardinality(s \ {x}) = Cardinality(s) - 1
      BY <2>1, <2>4, <3>2, FS_RemoveElement
    <3>4. s \ {x} \notin Differ
      <4> SUFFICES ASSUME s \ {x} \in Differ PROVE FALSE
        OBVIOUS
      <4>1. Cardinality(s \ {x}) \in Counts
        OBVIOUS
      <4>2. k <= Cardinality(s \ {x}) /\ Cardinality(s) \in Nat
        BY <2>1, <2>2, <4>1
      <4> HIDE DEF Differ, Counts
      <4> QED BY <2>3, <3>3, <4>2
    <3>5. iter[s \ {x}] = F[s \ {x}]
      BY <3>3, <3>4
    <3>6. iter[s] = x.size + iter[s \ {x}] /\ F[s] = x.size + F[s \ {x}]
      <4> HIDE DEF Pick
      <4> QED BY <1>1, <1>2, <2>4, <2>6, <3>1
    <3> QED BY <2>4, <3>5, <3>6
  <2> QED BY <2>5, <2>6
<1> QED BY <1>2, <1>3

\* One entry more is its size more.
LEMMA BytesOfOneMore ==
  ASSUME NEW S, IsFiniteSet(S), \A x \in S : x.size \in Int,
         NEW e, e \notin S, e.size \in Int
  PROVE  /\ Bytes(S \cup {e}) = Bytes(S) + e.size
         /\ Bytes(S) \in Int
<1>1. IsFiniteSet(S \cup {e}) /\ \A x \in S \cup {e} : x.size \in Int
  BY FS_AddElement
<1>2. PICK F : Additive(S \cup {e}, F)
  BY <1>1, AdditiveExists
<1>3. PICK G : G = [s \in SUBSET S |-> F[s]]
  OBVIOUS
<1>4. Additive(S, G)
  <2>1. G \in [SUBSET S -> Int]
    BY <1>2, <1>3 DEF Additive
  <2>2. ASSUME NEW s \in SUBSET S, NEW x \in S \ s
        PROVE  G[s \cup {x}] = G[s] + x.size
    BY <1>2, <1>3 DEF Additive
  <2> QED BY <1>2, <1>3, <2>1, <2>2 DEF Additive
<1>5. Bytes(S \cup {e}) = F[S \cup {e}] /\ Bytes(S) = F[S] /\ F[S] \in Int
  <2>1. Bytes(S \cup {e}) = F[S \cup {e}]
    BY <1>1, <1>2, BytesIsAdditive
  <2>2. Bytes(S) = G[S]
    BY <1>4, BytesIsAdditive
  <2> QED BY <1>2, <1>3, <2>1, <2>2 DEF Additive
<1>6. F[S \cup {e}] = F[S] + e.size
  BY <1>2 DEF Additive
<1> QED BY <1>5, <1>6

\* No entries, no bytes.
LEMMA BytesOfNone == Bytes({}) = 0
<1>1. PICK F : F = [s \in SUBSET {} |-> 0]
  OBVIOUS
<1>2. Additive({}, F) /\ F[{}] = 0
  BY <1>1 DEF Additive
<1> QED BY <1>2, BytesIsAdditive, FS_EmptySet

\* The registry's entries are finitely many, and the statistics are theirs.
StatsInv == IsFiniteSet(allocations) /\ StatsAgree

\* Register counts the entry it adds, Unregister the one it erases, under the
\* same lock as the map.
LEMMA StatsStep ==
  ASSUME TypeOK, RegistryInv, StatsInv, [Next]_vars
  PROVE  StatsInv'
<1>1. /\ stats \in [num_allocs : Nat, bytes_in_use : Int,
                    peak_bytes_in_use : Nat, largest_alloc_size : Nat]
      /\ stats.bytes_in_use = Bytes(allocations)
      /\ stats.bytes_in_use <= stats.peak_bytes_in_use
      /\ \A a \in allocations : a.size \in Nat /\ a.size <= stats.largest_alloc_size
      /\ IsFiniteSet(allocations)
  BY DEF StatsInv, StatsAgree, TypeOK, Entries
<1>2. ASSUME NEW t \in Threads, Register(t)
      PROVE  StatsInv'
  <2>1. PICK b, new : b = call[t].buffer
                      /\ new = [base |-> place[b].base, size |-> place[b].size, buffer |-> b]
    OBVIOUS
  <2>2. call[t].step = "made" /\ b \in Buffers
    BY <1>2, <2>1, CallFacts DEF Register, TypeOK
  <2>3. ~ \E a \in allocations : a.base = place[b].base
    BY <2>1, <2>2, AddressIsFree
  <2>4. new.size = place[b].size /\ new.size \in Nat /\ new \notin allocations
    BY <2>1, <2>2, <2>3 DEF TypeOK, Placement
  <2>5. /\ allocations' = allocations \cup {new}
        /\ stats'.bytes_in_use = stats.bytes_in_use + new.size
        /\ stats'.peak_bytes_in_use =
             Larger(stats.peak_bytes_in_use, stats.bytes_in_use + new.size)
        /\ stats'.largest_alloc_size = Larger(stats.largest_alloc_size, new.size)
    BY <1>2, <2>1, <2>3, <2>4 DEF Register
  <2>6. Bytes(allocations') = Bytes(allocations) + new.size /\ IsFiniteSet(allocations')
    BY <1>1, <2>4, <2>5, BytesOfOneMore, FS_AddElement
  <2>7. stats'.bytes_in_use <= stats'.peak_bytes_in_use
    BY <1>1, <2>4, <2>5 DEF Larger
  <2>8. \A a \in allocations' : a.size <= stats'.largest_alloc_size
    BY <1>1, <2>4, <2>5 DEF Larger
  <2> QED BY <1>1, <2>5, <2>6, <2>7, <2>8 DEF StatsInv, StatsAgree
<1>3. ASSUME NEW t \in Threads, NEW m \in memory, Unregister(t, m)
      PROVE  StatsInv'
  <2>1. PICK e \in allocations :
          /\ allocations' = allocations \ {e}
          /\ stats' = [stats EXCEPT !.bytes_in_use = @ - e.size]
    BY <1>3 DEF Unregister
  <2>2. /\ stats'.bytes_in_use = stats.bytes_in_use - e.size
        /\ stats'.peak_bytes_in_use = stats.peak_bytes_in_use
        /\ stats'.largest_alloc_size = stats.largest_alloc_size
    BY <1>1, <2>1
  <2>3. IsFiniteSet(allocations') /\ allocations = allocations' \cup {e} /\ e \notin allocations'
    BY <1>1, <2>1, FS_RemoveElement
  <2>4. Bytes(allocations' \cup {e}) = Bytes(allocations') + e.size /\ Bytes(allocations') \in Int
    BY <1>1, <2>1, <2>3, BytesOfOneMore
  <2>5. Bytes(allocations) = Bytes(allocations') + e.size
    BY <2>3, <2>4
  <2>6. stats'.bytes_in_use = Bytes(allocations') /\ e.size \in Nat
    BY <1>1, <2>2, <2>4, <2>5
  <2>7. stats'.bytes_in_use <= stats'.peak_bytes_in_use
    BY <1>1, <2>2, <2>6
  <2> QED BY <1>1, <2>1, <2>2, <2>3, <2>6, <2>7 DEF StatsInv, StatsAgree
<1>4. CASE UNCHANGED <<allocations, stats>>
  BY <1>4 DEF StatsInv, StatsAgree
<1> QED
  BY <1>2, <1>3, <1>4 DEF Next, NewBuffer, ReturnFromAllocate, Release, vars

\* The bytes the plugin reports in use are exactly those of the registered
\* buffers, whatever threads allocate and release at once; the reported maxima
\* are never below what is registered.
THEOREM StatsAgreeHolds == Spec => []StatsAgree
<1>1. Init => StatsInv
  BY BytesOfNone, FS_EmptySet DEF Init, StatsInv, StatsAgree
<1>2. TypeOK /\ RegistryInv /\ StatsInv /\ [Next]_vars => StatsInv'
  BY StatsStep
<1>3. StatsInv => StatsAgree
  BY DEF StatsInv
<1> QED BY <1>1, <1>2, <1>3, RegistryInvHolds, PTL DEF Spec

=============================================================================

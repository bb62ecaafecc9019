--------------------------- MODULE VirtqueueProofs --------------------------
(* Theorems about Virtqueue, for every value of its constants. *)
EXTENDS Virtqueue, RingProofs, SequenceTheorems, FiniteSetTheorems, TLAPS

\* Wrapping arithmetic stays inside the counters, and a ring position inside
\* the ring.
LEMMA CounterArith ==
    /\ 0 \in Counter
    /\ \A c \in Counter : Inc(c) \in Counter
    /\ \A c \in Nat : Slot(c) \in Desc
    /\ \A a, b \in Int : Dist(a, b) \in Counter
  BY QueueSizeAssumption, ModulusAssumption DEF Counter, Inc, Slot, Desc, Dist

\* A request is a non-empty sequence of buffers.
LEMMA RequestTypes ==
    ASSUME NEW b \in Requests
    PROVE  b \in Seq(Buffers) /\ b # << >> /\ Len(b) \in Nat \ {0}
  BY RequestsAssumption DEF WellFormed

\* Driver::new and Device::new on zeroed memory are typed.
LEMMA InitType == Init => TypeOK
  <1> SUFFICES ASSUME Init PROVE TypeOK
    OBVIOUS
  <1>1. 0 \in Desc /\ 0 \in Counter
    BY QueueSizeAssumption, ModulusAssumption DEF Desc, Counter
  <1>2. free_descs \in Seq(Desc)
    BY QueueSizeAssumption DEF Init, Desc
  <1>3. desc \in [Desc -> Descriptor]
    BY <1>1 DEF Init, ZeroDesc, Descriptor
  <1>4. it \in [next_index : Desc, ttl : 0 .. QueueSize, bytes : Nat,
                seen_writable : BOOLEAN, done : BOOLEAN]
    BY <1>1, QueueSizeAssumption DEF Init, NewIter
  <1>5. SharedTypeOK
    BY <1>1, <1>3 DEF Init, SharedTypeOK
  <1>6. DriverTypeOK
    <2>1. << >> \in Seq(Desc) /\ << >> \in Seq(Buffers) /\ Len(<< >>) = 0
      BY EmptySeq
    <2>2. outstanding \in [Desc -> Seq(Desc)] /\ request \in [Desc -> Seq(Buffers)]
      BY <2>1 DEF Init
    <2>3. /\ bufs = << >> /\ indices = << >> /\ pos = 1 /\ dpc = "idle"
          /\ last_kick = 0 /\ last_used = 0 /\ used_seen = 0
          /\ armed = FALSE /\ arrived = FALSE
      BY DEF Init
    <2>4. /\ dpc \in {"idle", "desc", "slot", "idx", "submitted", "collect", "wait"}
          /\ ~(dpc \in {"desc", "slot", "idx"}) /\ dpc # "desc"
          /\ pos \in Nat \ {0}
      BY <2>3
    <2>5. /\ last_kick \in Counter /\ last_used \in Counter /\ used_seen \in Counter
          /\ bufs \in Seq(Buffers) /\ indices \in Seq(Desc) /\ Len(indices) = Len(bufs)
      BY <1>1, <2>1, <2>3
    <2>6. armed \in BOOLEAN /\ arrived \in BOOLEAN
      BY DEF Init
    <2> QED BY <1>2, <2>2, <2>4, <2>5, <2>6 DEF DriverTypeOK
  <1>7. DeviceTypeOK
    BY <1>1, <1>4 DEF Init, DeviceTypeOK, NoError
  <1> QED
    BY <1>5, <1>6, <1>7 DEF TypeOK

(***************************************************************************)
(* Each driver action preserves the types.  Most leave the device's        *)
(* variables alone, so DeviceTypeOK carries over unchanged.                *)
(***************************************************************************)
LEMMA DriverStepType == TypeOK /\ DriverNext => TypeOK'
  <1> SUFFICES ASSUME TypeOK, DriverNext PROVE TypeOK'
    OBVIOUS
  <1> USE DEF sharedByDriver, sharedByDevice, addChainVars, deviceVars
  <1>a. SharedTypeOK /\ DriverTypeOK /\ DeviceTypeOK
    BY DEF TypeOK
  <1>b. ASSUME UNCHANGED deviceVars PROVE DeviceTypeOK'
    BY <1>a, <1>b DEF DeviceTypeOK
  <1>1. ASSUME NEW b \in Requests, AddChain(b) PROVE TypeOK'
    <2> DEFINE n == Len(free_descs)
               popped == [i \in 1 .. Len(b) |-> free_descs[n - i + 1]]
    <2>1. b \in Seq(Buffers) /\ b # << >> /\ Len(b) \in Nat \ {0}
      BY RequestTypes
    <2>2. n \in Nat /\ Len(b) <= n /\ free_descs \in Seq(Desc)
      BY <1>1, <1>a DEF AddChain, DriverTypeOK
    <2>3. popped \in Seq(Desc) /\ Len(popped) = Len(b)
      BY <2>1, <2>2
    <2>4. popped[1] \in Desc
      BY <2>1, <2>2, <2>3
    <2>5. SubSeq(free_descs, 1, n - Len(b)) \in Seq(Desc)
      BY <2>1, <2>2
    <2>6. /\ free_descs' = SubSeq(free_descs, 1, n - Len(b))
          /\ indices' = popped
          /\ outstanding' = [outstanding EXCEPT ![popped[1]] = popped]
          /\ request' = [request EXCEPT ![popped[1]] = b]
          /\ bufs' = b /\ pos' = 1 /\ dpc' = "desc"
          /\ UNCHANGED <<last_kick, last_used, used_seen, armed, arrived>>
      BY <1>1 DEF AddChain
    <2> HIDE DEF popped, n
    <2>7. outstanding' \in [Desc -> Seq(Desc)] /\ request' \in [Desc -> Seq(Buffers)]
      BY <1>a, <2>1, <2>3, <2>4, <2>6 DEF DriverTypeOK
    <2>8. DriverTypeOK'
      <3>1. /\ last_kick' \in Counter /\ last_used' \in Counter /\ used_seen' \in Counter
            /\ armed' \in BOOLEAN /\ arrived' \in BOOLEAN
        BY <1>a, <2>6 DEF DriverTypeOK
      <3>2. /\ free_descs' \in Seq(Desc) /\ bufs' \in Seq(Buffers)
            /\ indices' \in Seq(Desc) /\ Len(indices') = Len(bufs')
        BY <2>1, <2>3, <2>5, <2>6
      <3>3. dpc' = "desc" /\ pos' = 1 /\ bufs' # << >> /\ pos' <= Len(bufs')
        BY <2>1, <2>6
      <3>4. pos' \in Nat \ {0} /\ dpc' \in {"idle", "desc"}
        BY <3>3
      <3> QED BY <2>7, <3>1, <3>2, <3>3, <3>4 DEF DriverTypeOK
    <2>9. SharedTypeOK'
      BY <1>1, <1>a DEF AddChain, SharedTypeOK
    <2> QED
      BY <1>1, <1>b, <2>8, <2>9 DEF AddChain, TypeOK
  <1>2. ASSUME WriteDescriptor PROVE TypeOK'
    <2>1. /\ pos \in 1 .. Len(bufs)
          /\ bufs[pos] \in Buffers /\ indices[pos] \in Desc
          /\ pos # Len(bufs) => indices[pos + 1] \in Desc
      BY <1>2, <1>a DEF WriteDescriptor, DriverTypeOK
    <2>2. /\ bufs[pos].addr \in {b.addr : b \in Buffers} \cup {0}
          /\ bufs[pos].len \in Nat /\ bufs[pos].write \in BOOLEAN
      BY <2>1, BuffersAssumption
    <2>3. NextIndex \in Desc
      BY <2>1, QueueSizeAssumption DEF NextIndex, Desc
    <2>4. desc' \in [Desc -> Descriptor]
      BY <1>2, <1>a, <2>1, <2>2, <2>3 DEF WriteDescriptor, SharedTypeOK, Descriptor
    <2>5. SharedTypeOK'
      BY <1>2, <1>a, <2>4 DEF WriteDescriptor, SharedTypeOK
    <2>6. DriverTypeOK'
      BY <1>2, <1>a, <2>1 DEF WriteDescriptor, DriverTypeOK
    <2> QED
      BY <1>2, <1>b, <2>5, <2>6 DEF WriteDescriptor, TypeOK
  <1>3. ASSUME WriteSlot PROVE TypeOK'
    <2>1. indices[1] \in Desc
      BY <1>3, <1>a DEF WriteSlot, DriverTypeOK
    <2>2. SharedTypeOK'
      BY <1>3, <1>a, <2>1 DEF WriteSlot, SharedTypeOK
    <2>3. DriverTypeOK'
      BY <1>3, <1>a DEF WriteSlot, DriverTypeOK
    <2> QED
      BY <1>3, <1>b, <2>2, <2>3 DEF WriteSlot, TypeOK
  <1>4. ASSUME PublishIdx PROVE TypeOK'
    <2>1. SharedTypeOK'
      BY <1>4, <1>a, CounterArith DEF PublishIdx, SharedTypeOK
    <2>2. DriverTypeOK'
      BY <1>4, <1>a DEF PublishIdx, DriverTypeOK
    <2> QED
      BY <1>4, <1>b, <2>1, <2>2 DEF PublishIdx, TypeOK
  <1>5. ASSUME NeedsKick PROVE TypeOK'
    BY <1>5, <1>a, <1>b DEF NeedsKick, KickNeeded, TypeOK, SharedTypeOK, DriverTypeOK
  <1>6. ASSUME ArmUsedEvent PROVE TypeOK'
    BY <1>6, <1>a, <1>b DEF ArmUsedEvent, TypeOK, SharedTypeOK, DriverTypeOK
  <1>7. ASSUME CollectBegin PROVE TypeOK'
    BY <1>7, <1>a, <1>b
       DEF CollectBegin, LoadUsedIdx, TypeOK, SharedTypeOK, DriverTypeOK
  <1>8. ASSUME CollectOne PROVE TypeOK'
    <2> DEFINE id == used_ring[Slot(last_used)].id
    <2>1. id \in Desc /\ Inc(last_used) \in Counter
      BY <1>a, CounterArith DEF SharedTypeOK, DriverTypeOK, Counter
    <2>2. /\ free_descs' \in Seq(Desc)
          /\ outstanding' \in [Desc -> Seq(Desc)]
          /\ request' \in [Desc -> Seq(Buffers)]
      BY <1>8, <1>a, <2>1 DEF CollectOne, ReturnedBy, DriverTypeOK
    <2>3. DriverTypeOK'
      BY <1>8, <1>a, <2>1, <2>2 DEF CollectOne, DriverTypeOK
    <2> QED
      BY <1>8, <1>a, <1>b, <2>3 DEF CollectOne, TypeOK, SharedTypeOK
  <1>9. ASSUME WaitForInterrupt PROVE TypeOK'
    BY <1>9, <1>a, <1>b DEF WaitForInterrupt, TypeOK, SharedTypeOK, DriverTypeOK
  <1>10. ASSUME TakeInterrupt PROVE TypeOK'
    BY <1>10, <1>a, <1>b
       DEF TakeInterrupt, LoadUsedIdx, TypeOK, SharedTypeOK, DriverTypeOK
  <1> QED
    BY <1>1, <1>2, <1>3, <1>4, <1>5, <1>6, <1>7, <1>8, <1>9, <1>10 DEF DriverNext

(***************************************************************************)
(* Each device action preserves the types.                                 *)
(***************************************************************************)
LEMMA DeviceStepType == TypeOK /\ DeviceNext => TypeOK'
  <1> SUFFICES ASSUME TypeOK, DeviceNext PROVE TypeOK'
    OBVIOUS
  <1> USE DEF sharedByDriver, sharedByDevice, addChainVars, driverVars, walkVars,
              deviceVars
  <1> DEFINE IterType == [next_index : Desc, ttl : 0 .. QueueSize, bytes : Nat,
                          seen_writable : BOOLEAN, done : BOOLEAN]
  <1>a. SharedTypeOK /\ DriverTypeOK /\ DeviceTypeOK
    BY DEF TypeOK
  <1>b. ASSUME UNCHANGED driverVars PROVE DriverTypeOK'
    BY <1>a, <1>b DEF DriverTypeOK
  <1>c. \A h \in Desc : NewIter(h) \in IterType
    BY QueueSizeAssumption DEF NewIter
  <1>1. ASSUME TakeKick PROVE TypeOK'
    BY <1>1, <1>a, <1>b DEF TakeKick, TypeOK, SharedTypeOK, DeviceTypeOK
  <1>2. ASSUME DisableNotification PROVE TypeOK'
    BY <1>2, <1>a, <1>b DEF DisableNotification, TypeOK, SharedTypeOK, DeviceTypeOK
  <1>3. ASSUME PopLoad PROVE TypeOK'
    BY <1>3, <1>a, <1>b DEF PopLoad, TypeOK, SharedTypeOK, DeviceTypeOK
  <1>4. ASSUME PopSlot PROVE TypeOK'
    <2>1. head' \in Desc /\ next_avail' \in Counter
      BY <1>4, <1>a, CounterArith
         DEF PopSlot, SharedTypeOK, DeviceTypeOK, Counter
    <2>2. DeviceTypeOK'
      BY <1>4, <1>a, <1>c, <2>1 DEF PopSlot, DeviceTypeOK
    <2> QED
      BY <1>4, <1>a, <1>b, <2>2 DEF PopSlot, TypeOK, SharedTypeOK
  <1>5. ASSUME WalkDescriptor PROVE TypeOK'
    <2> DEFINE e == IterError(it, desc)
               d == desc[it.next_index]
    <2>1. d \in Descriptor /\ it \in IterType
      BY <1>a DEF SharedTypeOK, DeviceTypeOK
    <2>2. SharedTypeOK' /\ DriverTypeOK'
      BY <1>5, <1>a, <1>b DEF WalkDescriptor, SharedTypeOK
    <2>3. CASE e = NoError
      <3>1. it.ttl # 0
        BY <2>3 DEF IterError, NoError
      <3>2. IterAfter(it, d) \in IterType
        BY <2>1, <3>1, QueueSizeAssumption DEF IterAfter, Descriptor
      <3>3. [addr |-> d.addr, len |-> d.len, write |-> d.write] \in Buffer
        BY <2>1 DEF Descriptor, Buffer
      <3>4. capacity + d.len \in Nat
        BY <1>a, <2>1 DEF Descriptor, DeviceTypeOK
      <3>5. /\ it' = IterAfter(it, d)
            /\ walked' = Append(walked,
                    [addr |-> d.addr, len |-> d.len, write |-> d.write])
            /\ capacity' = IF d.write THEN capacity + d.len ELSE capacity
            /\ vpc' = IF d.has_next THEN "walk" ELSE "respond"
            /\ UNCHANGED <<err, next_avail, num_added, head>>
        BY <1>5, <2>3 DEF WalkDescriptor
      <3> HIDE DEF d, e
      <3> QED
        BY <1>a, <2>2, <3>2, <3>3, <3>4, <3>5 DEF DeviceTypeOK, TypeOK
    <2>4. CASE e # NoError
      <3>1. e \in ChainErrors
        BY <2>4 DEF IterError, ChainErrors, NoError
      <3>2. IterFailed(it) \in IterType
        BY <2>1 DEF IterFailed
      <3>3. /\ it' = IterFailed(it) /\ err' = e /\ vpc' = "respond"
            /\ UNCHANGED <<walked, capacity, next_avail, num_added, head>>
        BY <1>5, <2>4 DEF WalkDescriptor
      <3> HIDE DEF d, e
      <3> QED
        BY <1>a, <2>2, <3>1, <3>2, <3>3 DEF DeviceTypeOK, TypeOK
    <2> QED
      BY <2>3, <2>4
  <1>6. ASSUME Respond PROVE TypeOK'
    <2>1. PICK n \in 0 .. MaxResponse :
            used_ring' = [used_ring EXCEPT ![UsedSlot] =
                [id |-> head,
                 len |-> IF err = NoError THEN Min2(n, capacity) ELSE 0]]
      BY <1>6 DEF Respond
    <2>2. (IF err = NoError THEN Min2(n, capacity) ELSE 0) \in Nat
      BY <1>a, <2>1, BoundsAssumption DEF DeviceTypeOK, Min2
    <2>3. used_ring' \in [Desc -> [id : Desc, len : Nat]]
      BY <1>a, <2>1, <2>2 DEF SharedTypeOK, DeviceTypeOK
    <2> QED
      BY <1>6, <1>a, <1>b, <2>3 DEF Respond, TypeOK, SharedTypeOK, DeviceTypeOK
  <1>7. ASSUME PublishUsed PROVE TypeOK'
    <2>1. DeviceTypeOK'
      BY <1>7, <1>a, <1>c, CounterArith, QueueSizeAssumption
         DEF PublishUsed, DeviceTypeOK, Desc
    <2>2. SharedTypeOK'
      BY <1>7, <1>a, CounterArith DEF PublishUsed, SharedTypeOK
    <2>3. DriverTypeOK'
      BY <1>7, <1>a DEF PublishUsed, DriverTypeOK
    <2> QED
      BY <2>1, <2>2, <2>3 DEF TypeOK
  <1>8. ASSUME NeedsNotification PROVE TypeOK'
    BY <1>8, <1>a, <1>b, CounterArith
       DEF NeedsNotification, InterruptNeeded, TypeOK, SharedTypeOK, DeviceTypeOK
  <1>9. ASSUME EnableNotification PROVE TypeOK'
    BY <1>9, <1>a, <1>b DEF EnableNotification, TypeOK, SharedTypeOK, DeviceTypeOK
  <1>10. ASSUME RecheckAvailable PROVE TypeOK'
    BY <1>10, <1>a, <1>b DEF RecheckAvailable, TypeOK, SharedTypeOK, DeviceTypeOK
  <1> QED
    BY <1>1, <1>2, <1>3, <1>4, <1>5, <1>6, <1>7, <1>8, <1>9, <1>10 DEF DeviceNext

\* Every index either side keeps or writes to shared memory stays inside the
\* descriptor table, and add_chain never runs past its buffers, for every queue
\* size, counter width and schedule (driver.rs, device.rs).
THEOREM TypeCorrect == Spec => []TypeOK
  <1>1. TypeOK /\ UNCHANGED vars => TypeOK'
    <2> SUFFICES ASSUME TypeOK, UNCHANGED vars PROVE TypeOK'
      OBVIOUS
    <2> USE DEF vars, TypeOK
    <2>1. SharedTypeOK'
      BY DEF SharedTypeOK
    <2>2. DriverTypeOK'
      BY DEF DriverTypeOK
    <2>3. DeviceTypeOK'
      BY DEF DeviceTypeOK
    <2> QED BY <2>1, <2>2, <2>3
  <1>2. TypeOK /\ [Next]_vars => TypeOK'
    BY <1>1, DriverStepType, DeviceStepType DEF Next
  <1> QED
    BY InitType, <1>2, PTL DEF Spec

-----------------------------------------------------------------------------
\* Driver::new puts every descriptor on the free list, once.
LEMMA InitOwnership == Init => DescriptorOwnership
  <1> SUFFICES ASSUME Init PROVE DescriptorOwnership
    OBVIOUS
  <1>1. /\ free_descs = [i \in 1 .. QueueSize |-> QueueSize - i]
        /\ outstanding = [d \in Desc |-> << >>]
    BY DEF Init
  <1>2. FreeListDistinct
    BY <1>1, QueueSizeAssumption DEF FreeListDistinct
  <1>3. ChainsWellFormed /\ OneOwner
    BY <1>1 DEF ChainsWellFormed, OneOwner
  <1>4. ASSUME NEW d \in Desc
        PROVE  QueueSize - d \in DOMAIN free_descs /\ free_descs[QueueSize - d] = d
    BY <1>1, QueueSizeAssumption DEF Desc
  <1>5. NoLeak
    BY <1>4 DEF NoLeak
  <1> QED
    BY <1>2, <1>3, <1>5 DEF DescriptorOwnership

(***************************************************************************)
(* add_chain moves the last descriptors of the free list into one chain.   *)
(***************************************************************************)
LEMMA AddChainOwnership ==
    ASSUME TypeOK, DescriptorOwnership, NEW b \in Requests, AddChain(b)
    PROVE  DescriptorOwnership'
  <1> DEFINE n == Len(free_descs)
             k == Len(b)
             popped == [i \in 1 .. k |-> free_descs[n - i + 1]]
             h == popped[1]
  <1>1. k \in Nat \ {0} /\ n \in Nat /\ k <= n /\ free_descs \in Seq(Desc)
    BY RequestTypes DEF AddChain, TypeOK, DriverTypeOK
  <1>2. outstanding \in [Desc -> Seq(Desc)]
    BY DEF TypeOK, DriverTypeOK
  <1>3. /\ popped \in Seq(Desc) /\ Len(popped) = k /\ DOMAIN popped = 1 .. k
        /\ \A i \in 1 .. k : popped[i] = free_descs[n - i + 1]
        /\ h \in Desc /\ h = free_descs[n]
    BY <1>1
  <1>4. /\ free_descs' \in Seq(Desc) /\ DOMAIN free_descs = 1 .. n
        /\ DOMAIN free_descs' = 1 .. n - k
        /\ \A i \in 1 .. n - k : free_descs'[i] = free_descs[i]
    BY <1>1 DEF AddChain
  <1>5. outstanding' = [outstanding EXCEPT ![h] = popped]
    BY DEF AddChain
  <1>6. outstanding'[h] = popped /\ \A g \in Desc \ {h} : outstanding'[g] = outstanding[g]
    BY <1>2, <1>3, <1>5
  <1> HIDE DEF n, k, popped, h
  <1>7. outstanding[h] = << >>
    <2> SUFFICES ASSUME outstanding[h] # << >> PROVE FALSE
      OBVIOUS
    <2>1. 1 \in DOMAIN outstanding[h] /\ outstanding[h][1] = h
      BY <1>2, <1>3 DEF DescriptorOwnership, ChainsWellFormed
    <2>2. n \in DOMAIN free_descs /\ free_descs[n] = h
      BY <1>1, <1>3, <1>4
    <2> QED
      BY <1>3, <2>1, <2>2 DEF DescriptorOwnership, OneOwner
  <1>p. \A i \in 1 .. k : /\ n - i + 1 \in DOMAIN free_descs
                           /\ n - i + 1 > n - k
                           /\ popped[i] = free_descs[n - i + 1]
    BY <1>1, <1>3, <1>4
  <1>8. FreeListDistinct'
    BY <1>1, <1>4 DEF DescriptorOwnership, FreeListDistinct
  <1>9. ChainsWellFormed'
    <2> SUFFICES ASSUME NEW g \in Desc
                 PROVE  /\ outstanding'[g] # << >> => outstanding'[g][1] = g
                        /\ \A i, j \in DOMAIN outstanding'[g] :
                              outstanding'[g][i] = outstanding'[g][j] => i = j
      BY DEF ChainsWellFormed
    <2>1. CASE g = h
      <3>1. popped[1] = h
        BY DEF h
      <3>2. ASSUME NEW i \in 1 .. k, NEW j \in 1 .. k, popped[i] = popped[j]
            PROVE  i = j
        <4>1. n - i + 1 = n - j + 1
          BY <1>p, <3>2 DEF DescriptorOwnership, FreeListDistinct
        <4> QED
          BY <1>1, <4>1
      <3> QED
        BY <1>3, <1>6, <2>1, <3>1, <3>2
    <2>2. CASE g # h
      BY <1>6, <2>2 DEF DescriptorOwnership, ChainsWellFormed
    <2> QED
      BY <2>1, <2>2
  <1>10. OneOwner'
    <2>1. ASSUME NEW g \in Desc, NEW f \in Desc,
                 NEW i \in DOMAIN outstanding'[g], NEW j \in DOMAIN outstanding'[f],
                 outstanding'[g][i] = outstanding'[f][j]
          PROVE  g = f
      <3>1. CASE g # h /\ f # h
        BY <1>6, <2>1, <3>1 DEF DescriptorOwnership, OneOwner
      <3>2. CASE g = h /\ f # h
        <4>1. i \in 1 .. k /\ outstanding[f][j] = popped[i] /\ j \in DOMAIN outstanding[f]
          BY <1>3, <1>6, <2>1, <3>2
        <4> QED
          BY <1>p, <4>1 DEF DescriptorOwnership, OneOwner
      <3>3. CASE g # h /\ f = h
        <4>1. j \in 1 .. k /\ outstanding[g][i] = popped[j] /\ i \in DOMAIN outstanding[g]
          BY <1>3, <1>6, <2>1, <3>3
        <4> QED
          BY <1>p, <4>1 DEF DescriptorOwnership, OneOwner
      <3> QED
        BY <3>1, <3>2, <3>3
    <2>2. ASSUME NEW g \in Desc,
                 NEW i \in DOMAIN outstanding'[g], NEW j \in DOMAIN free_descs'
          PROVE  outstanding'[g][i] # free_descs'[j]
      <3>1. CASE g # h
        BY <1>1, <1>4, <1>6, <2>2, <3>1 DEF DescriptorOwnership, OneOwner
      <3>2. CASE g = h
        <4>1. i \in 1 .. k /\ outstanding'[g][i] = popped[i]
          BY <1>3, <1>6, <2>2, <3>2
        <4>2. j \in DOMAIN free_descs /\ j <= n - k /\ free_descs'[j] = free_descs[j]
          BY <1>1, <1>4, <2>2
        <4>3. n - i + 1 # j
          BY <1>1, <1>p, <4>1, <4>2
        <4> QED
          BY <1>p, <4>1, <4>2, <4>3 DEF DescriptorOwnership, FreeListDistinct
      <3> QED
        BY <3>1, <3>2
    <2> QED
      BY <2>1, <2>2 DEF OneOwner
  <1>11. NoLeak'
    <2> SUFFICES ASSUME NEW d \in Desc
                 PROVE  \/ \E i \in DOMAIN free_descs' : free_descs'[i] = d
                        \/ \E g \in Desc : \E i \in DOMAIN outstanding'[g] :
                              outstanding'[g][i] = d
      BY DEF NoLeak
    <2>1. CASE \E i \in DOMAIN free_descs : free_descs[i] = d
      <3>1. PICK i \in 1 .. n : free_descs[i] = d
        BY <1>4, <2>1
      <3>2. CASE i <= n - k
        BY <1>1, <1>4, <3>1, <3>2
      <3>3. CASE i > n - k
        <4>1. n - i + 1 \in 1 .. k /\ popped[n - i + 1] = d
          BY <1>1, <1>3, <3>1, <3>3
        <4> QED
          BY <1>3, <1>6, <4>1
      <3> QED
        BY <1>1, <3>2, <3>3
    <2>2. CASE \E g \in Desc : \E i \in DOMAIN outstanding[g] : outstanding[g][i] = d
      <3>1. PICK g \in Desc : \E i \in DOMAIN outstanding[g] : outstanding[g][i] = d
        BY <2>2
      <3>2. g # h
        BY <1>7, <3>1
      <3> QED
        BY <1>6, <3>1, <3>2
    <2> QED
      BY <2>1, <2>2 DEF DescriptorOwnership, NoLeak
  <1> QED
    BY <1>8, <1>9, <1>10, <1>11 DEF DescriptorOwnership

(***************************************************************************)
(* collect_used moves one whole chain back to the free list, whatever id   *)
(* the used ring holds.                                                    *)
(***************************************************************************)
LEMMA CollectOwnership ==
    ASSUME TypeOK, DescriptorOwnership, CollectOne
    PROVE  DescriptorOwnership'
  <1> DEFINE id == used_ring[Slot(last_used)].id
             c == outstanding[id]
             n == Len(free_descs)
  <1>1. id \in Desc
    BY CounterArith DEF TypeOK, SharedTypeOK, DriverTypeOK, Counter
  <1>2. outstanding \in [Desc -> Seq(Desc)] /\ free_descs \in Seq(Desc)
    BY DEF TypeOK, DriverTypeOK
  <1>3. free_descs' = free_descs \o c /\ outstanding' = [outstanding EXCEPT ![id] = << >>]
    BY DEF CollectOne, ReturnedBy
  <1>4. c \in Seq(Desc) /\ n \in Nat /\ Len(c) \in Nat /\ DOMAIN free_descs = 1 .. n
        /\ DOMAIN c = 1 .. Len(c)
    BY <1>1, <1>2
  <1> HIDE DEF c, n, id
  <1>5. /\ DOMAIN free_descs' = 1 .. n + Len(c)
        /\ \A i \in 1 .. n : free_descs'[i] = free_descs[i]
        /\ \A i \in 1 .. Len(c) : free_descs'[n + i] = c[i]
        /\ \A i \in n + 1 .. n + Len(c) : free_descs'[i] = c[i - n]
    BY <1>2, <1>3, <1>4 DEF n
  <1>6. outstanding'[id] = << >> /\ \A g \in Desc \ {id} : outstanding'[g] = outstanding[g]
    BY <1>1, <1>2, <1>3
  <1>7. \A i \in 1 .. n, j \in 1 .. Len(c) : free_descs[i] # c[j]
    BY <1>1, <1>4 DEF DescriptorOwnership, OneOwner, c
  <1>8. \A i, j \in 1 .. Len(c) : c[i] = c[j] => i = j
    BY <1>1, <1>4 DEF DescriptorOwnership, ChainsWellFormed, c
  <1>9. FreeListDistinct'
    <2> SUFFICES ASSUME NEW i \in 1 .. n + Len(c), NEW j \in 1 .. n + Len(c),
                        free_descs'[i] = free_descs'[j]
                 PROVE  i = j
      BY <1>5 DEF FreeListDistinct
    <2>1. CASE i <= n /\ j <= n
      BY <1>4, <1>5, <2>1 DEF DescriptorOwnership, FreeListDistinct
    <2>2. CASE i > n /\ j > n
      <3>1. i - n \in 1 .. Len(c) /\ j - n \in 1 .. Len(c) /\ c[i - n] = c[j - n]
        BY <1>4, <1>5, <2>2
      <3>2. i - n = j - n
        BY <1>8, <3>1
      <3> QED
        BY <1>4, <3>2
    <2>3. CASE i <= n /\ j > n
      BY <1>4, <1>5, <1>7, <2>3
    <2>4. CASE i > n /\ j <= n
      BY <1>4, <1>5, <1>7, <2>4
    <2> QED
      BY <1>4, <2>1, <2>2, <2>3, <2>4
  <1>10. ChainsWellFormed'
    BY <1>6 DEF DescriptorOwnership, ChainsWellFormed
  <1>11. OneOwner'
    <2>1. ASSUME NEW g \in Desc, NEW f \in Desc,
                 NEW i \in DOMAIN outstanding'[g], NEW j \in DOMAIN outstanding'[f],
                 outstanding'[g][i] = outstanding'[f][j]
          PROVE  g = f
      <3>1. g # id /\ f # id
        BY <1>6, <2>1
      <3> QED
        BY <1>6, <2>1, <3>1 DEF DescriptorOwnership, OneOwner
    <2>2. ASSUME NEW g \in Desc,
                 NEW i \in DOMAIN outstanding'[g], NEW j \in DOMAIN free_descs'
          PROVE  outstanding'[g][i] # free_descs'[j]
      <3>1. g # id /\ outstanding'[g] = outstanding[g]
        BY <1>6, <2>2
      <3>2. j \in 1 .. n + Len(c)
        BY <1>5, <2>2
      <3>3. CASE j <= n
        BY <1>4, <1>5, <2>2, <3>1, <3>2, <3>3 DEF DescriptorOwnership, OneOwner
      <3>4. CASE j > n
        <4>1. j - n \in DOMAIN c /\ free_descs'[j] = c[j - n]
          BY <1>4, <1>5, <3>2, <3>4
        <4> QED
          BY <1>1, <2>2, <3>1, <4>1 DEF DescriptorOwnership, OneOwner, c
      <3> QED
        BY <1>4, <3>2, <3>3, <3>4
    <2> QED
      BY <2>1, <2>2 DEF OneOwner
  <1>12. NoLeak'
    <2> SUFFICES ASSUME NEW d \in Desc
                 PROVE  \/ \E i \in DOMAIN free_descs' : free_descs'[i] = d
                        \/ \E g \in Desc : \E i \in DOMAIN outstanding'[g] :
                              outstanding'[g][i] = d
      BY DEF NoLeak
    <2>1. CASE \E i \in DOMAIN free_descs : free_descs[i] = d
      BY <1>4, <1>5, <2>1
    <2>2. CASE \E i \in DOMAIN c : c[i] = d
      <3>1. PICK i \in 1 .. Len(c) : c[i] = d
        BY <1>4, <2>2
      <3>2. n + i \in 1 .. n + Len(c) /\ free_descs'[n + i] = d
        BY <1>4, <1>5, <3>1
      <3> QED
        BY <1>5, <3>2
    <2>3. CASE \E g \in Desc \ {id} : \E i \in DOMAIN outstanding[g] : outstanding[g][i] = d
      BY <1>6, <2>3
    <2> QED
      BY <1>1, <2>1, <2>2, <2>3 DEF DescriptorOwnership, NoLeak, c
  <1> QED
    BY <1>9, <1>10, <1>11, <1>12 DEF DescriptorOwnership

\* No other action touches the free list or the outstanding map.
LEMMA OwnershipUntouched ==
    ASSUME DescriptorOwnership, UNCHANGED <<free_descs, outstanding>>
    PROVE  DescriptorOwnership'
  BY DEF DescriptorOwnership, FreeListDistinct, ChainsWellFormed, OneOwner, NoLeak

\* The driver never loses a descriptor, never hands one out twice and never
\* shares one between two chains, for every queue size and every schedule.
THEOREM OwnershipInvariant == Spec => []DescriptorOwnership
  <1>1. TypeOK /\ DescriptorOwnership /\ [Next]_vars => DescriptorOwnership'
    <2> SUFFICES ASSUME TypeOK, DescriptorOwnership, [Next]_vars
                 PROVE  DescriptorOwnership'
      OBVIOUS
    <2>1. ASSUME NEW b \in Requests, AddChain(b) PROVE DescriptorOwnership'
      BY <2>1, AddChainOwnership
    <2>2. ASSUME CollectOne PROVE DescriptorOwnership'
      BY <2>2, CollectOwnership
    <2>3. ASSUME UNCHANGED <<free_descs, outstanding>> PROVE DescriptorOwnership'
      BY <2>3, OwnershipUntouched
    <2>4. CASE DriverNext
      BY <2>1, <2>2, <2>3, <2>4
         DEF DriverNext, WriteDescriptor, WriteSlot, PublishIdx, NeedsKick,
             ArmUsedEvent, CollectBegin, WaitForInterrupt, TakeInterrupt
    <2>5. CASE DeviceNext
      BY <2>3, <2>5
         DEF DeviceNext, TakeKick, DisableNotification, PopLoad, PopSlot,
             WalkDescriptor, Respond, PublishUsed, NeedsNotification,
             EnableNotification, RecheckAvailable, driverVars
    <2>6. CASE UNCHANGED vars
      BY <2>3, <2>6 DEF vars
    <2> QED
      BY <2>4, <2>5, <2>6 DEF Next
  <1> QED
    BY InitOwnership, TypeCorrect, <1>1, PTL DEF Spec

-----------------------------------------------------------------------------
\* Both suppression decisions are exact, for every queue size and counter width:
\* needs_kick and needs_notification answer yes if and only if their counter took
\* the value after the other side's threshold since the previous decision.
THEOREM SuppressionExact == Spec => SuppressionIsExact
  <1>1. ASSUME TypeOK, [Next]_vars, EventIdx
        PROVE  KickIsCrossing
    <2> SUFFICES ASSUME dpc = "submitted", dpc' = "idle"
                 PROVE  kick' <=> kick \/ Crossed(avail_event, avail_idx, last_kick)
      BY DEF KickIsCrossing
    <2>1. NeedsKick
      BY <1>1 DEF Next, DriverNext, DeviceNext, vars, AddChain, WriteDescriptor,
         WriteSlot, PublishIdx, ArmUsedEvent, CollectBegin, CollectOne,
         WaitForInterrupt, TakeInterrupt, TakeKick, DisableNotification, PopLoad,
         PopSlot, WalkDescriptor, Respond, PublishUsed, NeedsNotification,
         EnableNotification, RecheckAvailable, driverVars
    <2>2. avail_event \in Counter /\ avail_idx \in Counter /\ last_kick \in Counter
      BY <1>1 DEF TypeOK, SharedTypeOK, DriverTypeOK
    <2> QED
      BY <1>1, <2>1, <2>2, NeedEventCorrect, Zenon DEF NeedsKick, KickNeeded
  <1>2. ASSUME TypeOK, [Next]_vars, EventIdx
        PROVE  InterruptIsCrossing
    <2> SUFFICES ASSUME vpc = "notify", vpc' = "enable"
                 PROVE  irq' <=> irq \/ Crossed(used_event, used_idx,
                                                Dist(used_idx, num_added))
      BY DEF InterruptIsCrossing
    <2>1. NeedsNotification
      BY <1>2 DEF Next, DriverNext, DeviceNext, vars, AddChain, WriteDescriptor,
         WriteSlot, PublishIdx, NeedsKick, ArmUsedEvent, CollectBegin, CollectOne,
         WaitForInterrupt, TakeInterrupt, TakeKick, DisableNotification, PopLoad,
         PopSlot, WalkDescriptor, Respond, PublishUsed, EnableNotification,
         RecheckAvailable, deviceVars
    <2>2. used_event \in Counter /\ used_idx \in Counter /\ num_added \in Counter
      BY <1>2 DEF TypeOK, SharedTypeOK, DeviceTypeOK
    <2>3. Dist(used_idx, num_added) \in Counter
      BY <2>2, CounterArith DEF Counter
    <2> QED
      BY <1>2, <2>1, <2>2, <2>3, NeedEventCorrect, Zenon
         DEF NeedsNotification, InterruptNeeded
  <1>3. TypeOK /\ [Next]_vars =>
            [EventIdx => KickIsCrossing /\ InterruptIsCrossing]_vars
    BY <1>1, <1>2
  <1> QED
    BY TypeCorrect, <1>3, PTL DEF Spec, SuppressionIsExact

-----------------------------------------------------------------------------
(***************************************************************************)
(* The rings.  Between last_used and avail_idx lie the chains in flight:   *)
(* first those completed and not collected, up to used_idx, then the one   *)
(* in the device's hands, then from next_avail those it has not seen.      *)
(***************************************************************************)
Adding == dpc \in {"desc", "slot", "idx"}
InHand == vpc \in {"walk", "respond", "publish"}
Window == Between(last_used, avail_idx)
HeadAt(c) == avail_ring[Slot(c)]

\* The counters follow each other round the circle, never more than a ring apart.
CountersInOrder ==
    /\ Dist(avail_idx, last_used) <= QueueSize
    /\ Dist(used_idx, last_used) <= Dist(next_avail, last_used)
    /\ Dist(next_avail, last_used) <= Dist(avail_idx, last_used)
    /\ next_avail = IF InHand THEN Inc(used_idx) ELSE used_idx
    /\ vpc = "slot" => next_avail # avail_idx
    /\ dpc = "collect" => /\ used_seen # last_used
                          /\ Dist(used_seen, last_used) <= Dist(used_idx, last_used)

\* Every position of the window names a chain of its own, which the driver
\* remembers; the one being added is not among them yet.
HeadsFiled ==
    /\ \A c \in Window : outstanding[HeadAt(c)] # << >>
    /\ \A c, d \in Window : HeadAt(c) = HeadAt(d) => c = d
    /\ Adding => /\ outstanding[indices[1]] = indices
                 /\ request[indices[1]] = bufs
                 /\ \A c \in Window : HeadAt(c) # indices[1]
    /\ dpc = "idx" => HeadAt(avail_idx) = indices[1]

\* The device completes in the order it was given.
CompletedInOrder ==
    /\ \A c \in Between(last_used, used_idx) : used_ring[Slot(c)].id = HeadAt(c)
    /\ InHand => head = HeadAt(used_idx)
    /\ vpc = "publish" => used_ring[Slot(used_idx)].id = head

\* A remembered chain has one descriptor for every buffer of its request.
RequestsFiled ==
    \A h \in Desc :
        outstanding[h] # << >> =>
            request[h] \in Requests /\ Len(request[h]) = Len(outstanding[h])

\* The descriptor the i-th buffer of the chain at h must have, and that its first
\* n have it.
Link(h, i) ==
    [addr |-> request[h][i].addr, len |-> request[h][i].len,
     write |-> request[h][i].write, has_next |-> i # Len(request[h]),
     next |-> IF i = Len(request[h]) THEN 0 ELSE outstanding[h][i + 1],
     indirect |-> FALSE]
Linked(h, n) == \A i \in 1 .. n : desc[outstanding[h][i]] = Link(h, i)

\* The table holds every chain of the window, and of the one being added as much
\* as has been written.
ChainsLinked ==
    /\ \A c \in Window : Linked(HeadAt(c), Len(request[HeadAt(c)]))
    /\ Adding => Linked(indices[1], pos - 1)
    /\ dpc \in {"slot", "idx"} => pos = Len(bufs) + 1

\* The running totals of a request's bytes.
Totals(b) == CHOOSE total \in [0 .. Len(b) -> 0 .. ByteLimit - 1] : IsTotals(b, total)

\* The walk has read a prefix of the request, and its iterator is where that
\* prefix ends.
WalkFollows ==
    LET r == request[head]
        k == Len(walked)
    IN  /\ InHand => /\ err = NoError
                     /\ k <= Len(r)
                     /\ \A i \in 1 .. k : walked[i] = r[i]
        /\ vpc \in {"respond", "publish"} => k = Len(r)
        /\ vpc = "walk" => /\ k < Len(r)
                           /\ it.next_index = outstanding[head][k + 1]
                           /\ it.ttl = QueueSize - k
                           /\ it.bytes = Totals(r)[k]
                           /\ it.seen_writable => k # 0 /\ r[k].write

RingInv == CountersInOrder /\ HeadsFiled /\ CompletedInOrder /\ RequestsFiled
           /\ ChainsLinked /\ WalkFollows

\* The types of what the counters and slots are made of.
LEMMA RingTypes ==
    ASSUME TypeOK
    PROVE  /\ avail_idx \in Counter /\ used_idx \in Counter /\ next_avail \in Counter
           /\ last_used \in Counter /\ used_seen \in Counter /\ last_kick \in Counter
           /\ avail_event \in Counter /\ used_event \in Counter /\ num_added \in Counter
           /\ \A c \in Counter : Slot(c) \in Desc /\ HeadAt(c) \in Desc
           /\ avail_ring \in [Desc -> Desc] /\ used_ring \in [Desc -> [id : Desc, len : Nat]]
           /\ outstanding \in [Desc -> Seq(Desc)] /\ request \in [Desc -> Seq(Buffers)]
           /\ desc \in [Desc -> Descriptor] /\ head \in Desc
           /\ Window \subseteq Counter
  <1>1. /\ avail_idx \in Counter /\ used_idx \in Counter /\ next_avail \in Counter
        /\ last_used \in Counter /\ used_seen \in Counter /\ last_kick \in Counter
        /\ avail_event \in Counter /\ used_event \in Counter /\ num_added \in Counter
        /\ avail_ring \in [Desc -> Desc] /\ used_ring \in [Desc -> [id : Desc, len : Nat]]
        /\ outstanding \in [Desc -> Seq(Desc)] /\ request \in [Desc -> Seq(Buffers)]
        /\ desc \in [Desc -> Descriptor] /\ head \in Desc
    BY DEF TypeOK, SharedTypeOK, DriverTypeOK, DeviceTypeOK
  <1>2. \A c \in Counter : Slot(c) \in Desc
    BY CounterArith, CounterRange
  <1>3. \A c \in Counter : HeadAt(c) \in Desc
    BY <1>1, <1>2 DEF HeadAt
  <1>4. Window \subseteq Counter
    BY DEF Window, Between
  <1> QED BY <1>1, <1>2, <1>3, <1>4

\* There are no more than QueueSize different descriptors.
LEMMA PigeonHole ==
    ASSUME NEW n \in Nat, NEW f \in [1 .. n -> Desc],
           \A i, j \in 1 .. n : f[i] = f[j] => i = j
    PROVE  n <= QueueSize
  <1>1. IsFiniteSet(1 .. n) /\ Cardinality(1 .. n) = n
    BY FS_Interval
  <1>2. IsFiniteSet(Desc) /\ Cardinality(Desc) = QueueSize
    BY FS_Interval, QueueSizeAssumption DEF Desc
  <1>3. ~ \E x, y \in 1 .. n : x # y /\ f[x] = f[y]
    OBVIOUS
  <1>4. ~(Cardinality(Desc) < Cardinality(1 .. n))
    BY <1>1, <1>2, <1>3, FS_PigeonHole
  <1> QED BY <1>1, <1>2, <1>4, QueueSizeAssumption

\* A chain is no longer than the table.
LEMMA ChainFits ==
    ASSUME TypeOK, DescriptorOwnership, NEW h \in Desc
    PROVE  Len(outstanding[h]) \in 0 .. QueueSize
  <1>1. outstanding[h] \in [1 .. Len(outstanding[h]) -> Desc] /\ Len(outstanding[h]) \in Nat
    <2>1. outstanding[h] \in Seq(Desc)
      BY RingTypes
    <2> QED BY <2>1, LenProperties
  <1>2. \A i, j \in 1 .. Len(outstanding[h]) : outstanding[h][i] = outstanding[h][j] => i = j
    BY <1>1 DEF DescriptorOwnership, ChainsWellFormed
  <1>3. Len(outstanding[h]) <= QueueSize
    BY <1>1, <1>2, PigeonHole
  <1> QED BY <1>1, <1>3, QueueSizeAssumption

\* While a chain is being added there is a slot for it.
LEMMA RoomToAdd ==
    ASSUME TypeOK, CountersInOrder, HeadsFiled, Adding
    PROVE  Dist(avail_idx, last_used) < QueueSize
  <1> DEFINE n == Dist(avail_idx, last_used)
             at(i) == (last_used + (i - 1)) % Modulus
             f == [i \in 1 .. n + 1 |-> IF i = n + 1 THEN indices[1] ELSE HeadAt(at(i))]
  <1>1. n \in Counter /\ n \in Nat /\ n <= QueueSize
    BY RingTypes, DistFacts, CounterRange DEF CountersInOrder
  <1>2. indices[1] \in Desc
    BY DEF Adding, TypeOK, DriverTypeOK
  <1>3. \A i \in 1 .. n : at(i) \in Counter /\ Dist(at(i), last_used) = i - 1
    <2> SUFFICES ASSUME NEW i \in 1 .. n
                 PROVE  at(i) \in Counter /\ Dist(at(i), last_used) = i - 1
      OBVIOUS
    <2>1. i - 1 \in Int /\ 0 <= i - 1 /\ i - 1 < Modulus
      BY <1>1, CounterRange
    <2> QED BY <2>1, RingTypes, Position
  <1>4. \A i \in 1 .. n : at(i) \in Window
    BY <1>1, <1>3 DEF Window, Between
  <1>5. \A i, j \in 1 .. n : at(i) = at(j) => i = j
    BY <1>1, <1>3
  <1> HIDE DEF n, at
  <1>6. f \in [1 .. n + 1 -> Desc]
    <2>1. \A i \in 1 .. n : HeadAt(at(i)) \in Desc
      BY <1>3, RingTypes
    <2>2. \A i \in 1 .. n + 1 : i # n + 1 => i \in 1 .. n
      BY <1>1
    <2> QED BY <1>2, <2>1, <2>2
  <1>7. ASSUME NEW i \in 1 .. n + 1, NEW j \in 1 .. n + 1, f[i] = f[j]
        PROVE  i = j
    <2>1. \A c \in Window : HeadAt(c) # indices[1]
      BY DEF HeadsFiled
    <2>2. CASE i \in 1 .. n /\ j \in 1 .. n
      BY <1>1, <1>4, <1>5, <1>7, <2>2 DEF HeadsFiled
    <2>3. CASE i = n + 1 /\ j \in 1 .. n
      BY <1>1, <1>4, <1>7, <2>1, <2>3
    <2>4. CASE i \in 1 .. n /\ j = n + 1
      BY <1>1, <1>4, <1>7, <2>1, <2>4
    <2> QED BY <1>1, <2>2, <2>3, <2>4
  <1> HIDE DEF f
  <1>8. n + 1 <= QueueSize
    BY <1>1, <1>6, <1>7, PigeonHole
  <1> QED BY <1>1, <1>8, CounterRange DEF n

\* Slots of the window differ; what has been completed, what is in hand and what
\* is still to be seen are parts of it.
LEMMA WindowParts ==
    ASSUME TypeOK, CountersInOrder
    PROVE  /\ \A c, d \in Window : Slot(c) = Slot(d) => c = d
           /\ avail_idx \notin Window
           /\ Dist(avail_idx, last_used) < QueueSize
                => \A c \in Window : Slot(c) # Slot(avail_idx)
           /\ Between(last_used, used_idx) \subseteq Window
           /\ Between(next_avail, avail_idx) \subseteq Window
           /\ used_idx \notin Between(last_used, used_idx)
           /\ InHand => used_idx \in Window
  <1>1. /\ last_used \in Counter /\ avail_idx \in Counter /\ used_idx \in Counter
        /\ next_avail \in Counter
    BY RingTypes
  <1>2. \A c \in Window : c \in Counter /\ Dist(c, last_used) < QueueSize
    BY <1>1, DistFacts, CounterRange DEF Window, Between, CountersInOrder
  <1>3. \A c, d \in Window : Slot(c) = Slot(d) => c = d
    BY <1>1, <1>2, SlotsDiffer
  <1>4. avail_idx \notin Window /\ used_idx \notin Between(last_used, used_idx)
    BY <1>1, BetweenFacts DEF Window
  <1>5. Dist(avail_idx, last_used) < QueueSize
          => \A c \in Window : Slot(c) # Slot(avail_idx)
    BY <1>1, <1>2, <1>4, SlotsDiffer
  <1>6. Dist(used_idx, last_used) <= Dist(avail_idx, last_used)
    BY <1>1, DistFacts, CounterRange DEF CountersInOrder
  <1>7. Between(last_used, used_idx) \subseteq Window
    BY <1>1, <1>6, BetweenParts DEF Window
  <1>8. Between(next_avail, avail_idx) \subseteq Window
    BY <1>1, BetweenParts DEF Window, CountersInOrder
  <1>9. InHand => used_idx \in Window
    <2> SUFFICES ASSUME InHand PROVE used_idx \in Window
      OBVIOUS
    <2>1. next_avail = Inc(used_idx) /\ Dist(used_idx, last_used) <= Dist(next_avail, last_used)
          /\ Dist(next_avail, last_used) <= Dist(avail_idx, last_used)
      BY DEF CountersInOrder
    <2>2. used_idx # next_avail
      BY <1>1, <2>1, IncCases, CounterRange
    <2>3. Dist(used_idx, last_used) # Dist(next_avail, last_used)
      BY <1>1, <2>1, <2>2, DistSplit
    <2>4. Dist(used_idx, last_used) # Dist(avail_idx, last_used)
      <3>1. /\ Dist(used_idx, last_used) \in Int /\ Dist(next_avail, last_used) \in Int
            /\ Dist(avail_idx, last_used) \in Int
        BY <1>1, DistFacts, CounterRange
      <3> QED BY <2>1, <2>3, <3>1
    <2>5. used_idx # avail_idx
      BY <2>4
    <2> QED BY <1>1, <1>6, <2>5, BetweenParts DEF Window
  <1> QED BY <1>3, <1>4, <1>5, <1>7, <1>8, <1>9

\* The chain in hand is one of the window, remembered and linked.
LEMMA ChainInHand ==
    ASSUME TypeOK, RingInv, InHand
    PROVE  /\ used_idx \in Window /\ head = HeadAt(used_idx) /\ head \in Desc
           /\ outstanding[head] # << >> /\ request[head] \in Requests
           /\ Len(request[head]) = Len(outstanding[head])
           /\ Linked(head, Len(request[head]))
           /\ Adding => head # indices[1]
  BY WindowParts, RingTypes
     DEF RingInv, HeadsFiled, CompletedInOrder, RequestsFiled, ChainsLinked

-----------------------------------------------------------------------------
(***************************************************************************)
(* What each action does to the rings.                                     *)
(***************************************************************************)
\* Decisions, doorbells and the loads that begin a collection or a pop touch
\* nothing in flight.
LEMMA QuietStep ==
    ASSUME RingInv,
           UNCHANGED <<desc, avail_ring, avail_idx, used_ring, used_idx, outstanding,
                       request, last_used, indices, bufs, pos, next_avail, head, it,
                       walked, err>>,
           \/ dpc' = dpc /\ used_seen' = used_seen
           \/ dpc' \in {"idle", "submitted", "wait"}
           \/ dpc' = "collect" /\ used_seen' = used_idx /\ used_idx # last_used,
           \/ vpc' = vpc
           \/ ~InHand /\ vpc' \in {"sleep", "pop", "notify", "enable", "recheck"}
           \/ ~InHand /\ vpc' = "slot" /\ next_avail # avail_idx,
           Dist(used_idx, last_used) \in Int
    PROVE  RingInv'
  <1>1. CountersInOrder'
    BY DEF RingInv, CountersInOrder, InHand
  <1>2. Window' = Window /\ (\A c : HeadAt(c)' = HeadAt(c)) /\ (Adding' => Adding)
        /\ (InHand' <=> InHand) /\ (dpc' \in {"slot", "idx"} => dpc' = dpc)
        /\ (vpc' \in {"walk", "respond", "publish"} => vpc' = vpc)
    BY DEF Window, HeadAt, Adding, InHand
  <1>3. HeadsFiled'
    BY <1>2 DEF RingInv, HeadsFiled
  <1>4. CompletedInOrder'
    BY <1>2 DEF RingInv, CompletedInOrder
  <1>5. RequestsFiled'
    BY DEF RingInv, RequestsFiled
  <1>6. ChainsLinked'
    BY <1>2 DEF RingInv, ChainsLinked, Linked, Link
  <1>7. WalkFollows'
    BY <1>2 DEF RingInv, WalkFollows
  <1> QED BY <1>1, <1>3, <1>4, <1>5, <1>6, <1>7 DEF RingInv

\* A chain stays linked if it, its request and its descriptors are left alone.
LEMMA LinkedStays ==
    ASSUME NEW g, NEW n, Linked(g, n),
           outstanding'[g] = outstanding[g], request'[g] = request[g],
           \A i \in 1 .. n : desc'[outstanding[g][i]] = desc[outstanding[g][i]]
    PROVE  Linked(g, n)'
  BY DEF Linked, Link

\* So do the chains of the window if those of its positions are left alone.
LEMMA WindowStaysLinked ==
    ASSUME ChainsLinked, NEW c \in Window, HeadAt(c)' = HeadAt(c),
           outstanding'[HeadAt(c)] = outstanding[HeadAt(c)],
           request'[HeadAt(c)] = request[HeadAt(c)],
           \A i \in 1 .. Len(request[HeadAt(c)]) :
              desc'[outstanding[HeadAt(c)][i]] = desc[outstanding[HeadAt(c)][i]]
    PROVE  Linked(HeadAt(c), Len(request[HeadAt(c)]))'
  <1>1. PICK g, n : g = HeadAt(c) /\ n = Len(request[g])
    OBVIOUS
  <1>2. Linked(g, n)
    BY <1>1 DEF ChainsLinked
  <1>3. Linked(g, n)'
    BY <1>1, <1>2, LinkedStays
  <1>4. g = HeadAt(c)' /\ n = Len(request'[g])
    BY <1>1
  <1> QED BY <1>3, <1>4 DEF Linked, Link

\* A step that leaves the table and the chains alone leaves the links alone.
LEMMA LinksStay ==
    ASSUME ChainsLinked, Window' = Window, \A c \in Window : HeadAt(c)' = HeadAt(c),
           UNCHANGED <<desc, outstanding, request, indices, bufs, pos>>,
           Adding' => Adding, dpc' \in {"slot", "idx"} => dpc \in {"slot", "idx"}
    PROVE  ChainsLinked'
  <1>1. \A c \in Window : Linked(HeadAt(c), Len(request[HeadAt(c)]))'
    BY WindowStaysLinked
  <1>2. PICK g, n : g = indices[1] /\ n = pos - 1
    OBVIOUS
  <1>3. Adding' => Linked(indices[1], pos - 1)'
    <2> SUFFICES ASSUME Adding PROVE Linked(indices[1], pos - 1)'
      OBVIOUS
    <2>1. Linked(g, n)'
      BY <1>2, LinkedStays DEF ChainsLinked
    <2> QED BY <1>2, <2>1 DEF Linked, Link
  <1>4. dpc' \in {"slot", "idx"} => pos' = Len(bufs') + 1
    BY DEF ChainsLinked
  <1> QED BY <1>1, <1>3, <1>4 DEF ChainsLinked, Linked, Link

\* add_chain takes descriptors no chain in flight has.
LEMMA AddChainRings ==
    ASSUME TypeOK, DescriptorOwnership, RingInv, NEW b \in Requests, AddChain(b)
    PROVE  RingInv' /\ \A c \in Window : request'[HeadAt(c)] = request[HeadAt(c)]
  <1> DEFINE n == Len(free_descs)
             popped == [i \in 1 .. Len(b) |-> free_descs[n - i + 1]]
             h == popped[1]
  <1>1. Len(b) \in Nat \ {0} /\ n \in Nat /\ Len(b) <= n /\ free_descs \in Seq(Desc)
    BY RequestTypes DEF AddChain, TypeOK, DriverTypeOK
  <1>2. /\ popped \in Seq(Desc) /\ Len(popped) = Len(b) /\ popped # << >>
        /\ h \in Desc /\ h = free_descs[n] /\ n \in DOMAIN free_descs
    BY <1>1
  <1>3. /\ outstanding' = [outstanding EXCEPT ![h] = popped]
        /\ request' = [request EXCEPT ![h] = b]
        /\ indices' = popped /\ bufs' = b /\ pos' = 1 /\ dpc' = "desc"
        /\ UNCHANGED <<desc, avail_ring, avail_idx, used_ring, used_idx, last_used,
                       next_avail, head, it, walked, err, vpc>>
    BY DEF AddChain, sharedByDriver, sharedByDevice, deviceVars
  <1> HIDE DEF n, popped
  <1>4. outstanding[h] = << >>
    <2> SUFFICES ASSUME outstanding[h] # << >> PROVE FALSE
      OBVIOUS
    <2>1. outstanding[h] \in Seq(Desc)
      BY <1>2, RingTypes
    <2>2. 1 \in DOMAIN outstanding[h] /\ outstanding[h][1] = h
      BY <1>2, <2>1 DEF DescriptorOwnership, ChainsWellFormed
    <2> QED BY <1>2, <2>2 DEF DescriptorOwnership, OneOwner
  <1>5. /\ outstanding'[h] = popped /\ request'[h] = b
        /\ \A g \in Desc : g # h => outstanding'[g] = outstanding[g] /\ request'[g] = request[g]
    BY <1>2, <1>3, RingTypes
  <1>6. Window' = Window /\ (\A c : HeadAt(c)' = HeadAt(c)) /\ (InHand' <=> InHand) /\ Adding'
    BY <1>3 DEF Window, HeadAt, InHand, Adding
  <1>7. \A c \in Window : HeadAt(c) \in Desc /\ HeadAt(c) # h
    BY <1>4, RingTypes DEF RingInv, HeadsFiled
  <1>8. InHand => head \in Desc /\ head # h
    BY <1>4, ChainInHand
  <1> HIDE DEF h
  <1>9. CountersInOrder'
    BY <1>3, <1>6 DEF RingInv, CountersInOrder
  <1>10. HeadsFiled'
    <2>1. \A c \in Window : outstanding'[HeadAt(c)] # << >>
      BY <1>5, <1>7 DEF RingInv, HeadsFiled
    <2>2. indices'[1] = h
      BY <1>3 DEF h
    <2> QED BY <1>3, <1>5, <1>6, <1>7, <2>1, <2>2 DEF RingInv, HeadsFiled
  <1>11. CompletedInOrder'
    BY <1>3, <1>6 DEF RingInv, CompletedInOrder
  <1>12. RequestsFiled'
    BY <1>2, <1>5 DEF RingInv, RequestsFiled
  <1>13. ChainsLinked'
    <2>1. \A c \in Window : Linked(HeadAt(c), Len(request[HeadAt(c)]))'
      BY <1>3, <1>5, <1>6, <1>7, WindowStaysLinked DEF RingInv
    <2>2. Linked(indices[1], pos - 1)'
      BY <1>3 DEF Linked
    <2> QED BY <1>3, <1>6, <2>1, <2>2 DEF ChainsLinked
  <1>14. WalkFollows'
    BY <1>3, <1>5, <1>6, <1>8 DEF RingInv, WalkFollows, InHand
  <1> QED BY <1>5, <1>7, <1>9, <1>10, <1>11, <1>12, <1>13, <1>14 DEF RingInv

\* Writing a descriptor of the chain being added changes no other chain's.
LEMMA WriteDescriptorRings ==
    ASSUME TypeOK, DescriptorOwnership, RingInv, WriteDescriptor
    PROVE  RingInv'
  <1> DEFINE h == indices[1]
             d == [addr |-> bufs[pos].addr, len |-> bufs[pos].len,
                   write |-> bufs[pos].write, has_next |-> pos # Len(bufs),
                   next |-> NextIndex, indirect |-> FALSE]
  <1>1. /\ desc' = [desc EXCEPT ![indices[pos]] = d]
        /\ dpc' = (IF pos = Len(bufs) THEN "slot" ELSE "desc") /\ pos' = pos + 1
        /\ dpc = "desc" /\ Adding /\ Adding'
        /\ UNCHANGED <<avail_ring, avail_idx, used_ring, used_idx, outstanding,
                       request, last_used, indices, bufs, next_avail, head, it,
                       walked, err, vpc>>
    BY DEF WriteDescriptor, sharedByDevice, deviceVars, Adding
  <1>2. /\ indices \in Seq(Desc) /\ bufs \in Seq(Buffers) /\ Len(indices) = Len(bufs)
        /\ pos \in 1 .. Len(bufs) /\ Len(bufs) \in Nat /\ DOMAIN indices = 1 .. Len(bufs)
    BY <1>1 DEF TypeOK, DriverTypeOK
  <1>3. /\ h \in Desc /\ indices[pos] \in Desc
        /\ outstanding[h] = indices /\ request[h] = bufs
        /\ \A c \in Window : HeadAt(c) # h /\ HeadAt(c) \in Desc
    <2>1. h \in Desc /\ indices[pos] \in Desc
      BY <1>2
    <2>2. \A c \in Window : HeadAt(c) \in Desc
      BY RingTypes
    <2> QED BY <1>1, <2>1, <2>2 DEF RingInv, HeadsFiled
  <1>4. \A g \in Desc : g # h =>
          \A i \in DOMAIN outstanding[g] : outstanding[g][i] # indices[pos]
    BY <1>2, <1>3 DEF DescriptorOwnership, OneOwner
  <1>5. \A i \in 1 .. Len(bufs) : i # pos => indices[i] # indices[pos]
    BY <1>2, <1>3 DEF DescriptorOwnership, ChainsWellFormed
  <1>6. Window' = Window /\ (\A c : HeadAt(c)' = HeadAt(c)) /\ (InHand' <=> InHand)
    BY <1>1 DEF Window, HeadAt, InHand
  <1>7. /\ desc'[indices[pos]] = d
        /\ \A e \in Desc : e # indices[pos] => desc'[e] = desc[e]
    BY <1>1, <1>3, RingTypes
  <1>8. d = Link(h, pos)
    BY <1>2, <1>3 DEF Link, NextIndex
  <1> HIDE DEF h, d
  <1>9. CountersInOrder' /\ HeadsFiled' /\ CompletedInOrder' /\ RequestsFiled' /\ WalkFollows'
    <2>1. CountersInOrder'
      BY <1>1, <1>6 DEF RingInv, CountersInOrder
    <2>2. HeadsFiled'
      BY <1>1, <1>6 DEF RingInv, HeadsFiled
    <2>3. CompletedInOrder'
      BY <1>1, <1>6 DEF RingInv, CompletedInOrder
    <2>4. RequestsFiled'
      BY <1>1 DEF RingInv, RequestsFiled
    <2>5. WalkFollows'
      BY <1>1, <1>6 DEF RingInv, WalkFollows
    <2> QED BY <2>1, <2>2, <2>3, <2>4, <2>5
  <1>10. ASSUME NEW c \in Window
         PROVE  Linked(HeadAt(c), Len(request[HeadAt(c)]))'
    <2>1. PICK g \in Desc : g = HeadAt(c) /\ g # h
      BY <1>3, <1>10
    <2>2. outstanding[g] \in Seq(Desc) /\ Len(outstanding[g]) = Len(request[g])
      BY <1>10, <2>1, RingTypes DEF RingInv, HeadsFiled, RequestsFiled
    <2>3. \A i \in 1 .. Len(request[g]) : desc'[outstanding[g][i]] = desc[outstanding[g][i]]
      BY <1>4, <1>7, <2>1, <2>2
    <2> QED BY <1>1, <1>6, <1>10, <2>1, <2>3, WindowStaysLinked DEF RingInv
  <1>11. Linked(indices[1], pos - 1)'
    <2>1. PICK g, p : g = h /\ p = pos
      OBVIOUS
    <2>2. \A i \in 1 .. p - 1 : desc[outstanding[g][i]] = Link(g, i)
      BY <1>1, <2>1 DEF RingInv, ChainsLinked, Linked, h
    <2>3. \A i \in 1 .. p - 1 : desc'[outstanding[g][i]] = Link(g, i)
      BY <1>2, <1>3, <1>5, <1>7, <2>1, <2>2
    <2>4. \A i \in 1 .. p : desc'[outstanding[g][i]] = Link(g, i)
      BY <1>2, <1>3, <1>7, <1>8, <2>1, <2>3
    <2>5. \A i : Link(g, i)' = Link(g, i)
      BY <1>1 DEF Link
    <2>6. Linked(g, p)'
      BY <1>1, <2>4, <2>5 DEF Linked
    <2>7. g = indices'[1]
      BY <1>1, <2>1 DEF h
    <2>8. p = pos' - 1
      <3>1. pos' = pos + 1
        BY DEF WriteDescriptor
      <3>2. pos \in Int
        BY <1>2
      <3> QED BY <2>1, <3>1, <3>2
    <2> QED BY <2>6, <2>7, <2>8 DEF Linked, Link
  <1>12. ChainsLinked'
    <2>1. dpc' \in {"slot", "idx"} => pos' = Len(bufs') + 1
      BY <1>1
    <2> QED BY <1>6, <1>10, <1>11, <2>1 DEF ChainsLinked
  <1> QED BY <1>9, <1>12 DEF RingInv

\* The slot the head goes into is no slot of the window.
LEMMA WriteSlotRings ==
    ASSUME TypeOK, RingInv, WriteSlot
    PROVE  RingInv'
  <1>1. /\ avail_ring' = [avail_ring EXCEPT ![Slot(avail_idx)] = indices[1]]
        /\ dpc = "slot" /\ dpc' = "idx" /\ Adding /\ Adding'
        /\ UNCHANGED <<desc, avail_idx, used_ring, used_idx, outstanding, request,
                       last_used, indices, bufs, pos, next_avail, head, it, walked,
                       err, vpc>>
    BY DEF WriteSlot, sharedByDevice, deviceVars, addChainVars, Adding
  <1>2. Dist(avail_idx, last_used) < QueueSize
    BY <1>1, RoomToAdd DEF RingInv
  <1>3. \A c \in Window : Slot(c) # Slot(avail_idx) /\ Slot(c) \in Desc
    BY <1>2, WindowParts, RingTypes DEF RingInv
  <1>4. Slot(avail_idx) \in Desc
    BY RingTypes
  <1>5. Window' = Window /\ (InHand' <=> InHand)
        /\ (\A c \in Window : HeadAt(c)' = HeadAt(c)) /\ HeadAt(avail_idx)' = indices[1]
    BY <1>1, <1>3, <1>4, RingTypes DEF Window, HeadAt, InHand
  <1>6. Between(last_used, used_idx) \subseteq Window /\ (InHand => used_idx \in Window)
    BY WindowParts DEF RingInv
  <1>7. CountersInOrder'
    BY <1>1, <1>5 DEF RingInv, CountersInOrder
  <1>8. HeadsFiled'
    BY <1>1, <1>5 DEF RingInv, HeadsFiled
  <1>9. CompletedInOrder'
    <2>1. \A c \in Between(last_used, used_idx) : used_ring'[Slot(c)].id = HeadAt(c)'
      BY <1>1, <1>5, <1>6 DEF RingInv, CompletedInOrder
    <2>2. InHand' => head' = HeadAt(used_idx)'
      BY <1>1, <1>5, <1>6 DEF RingInv, CompletedInOrder
    <2>3. vpc' = "publish" => used_ring'[Slot(used_idx')].id = head'
      BY <1>1 DEF RingInv, CompletedInOrder
    <2> QED BY <1>1, <2>1, <2>2, <2>3 DEF CompletedInOrder, HeadAt
  <1>10. RequestsFiled' /\ WalkFollows'
    BY <1>1, <1>5 DEF RingInv, RequestsFiled, WalkFollows
  <1>11. ChainsLinked'
    BY <1>1, <1>5, LinksStay DEF RingInv
  <1> QED BY <1>7, <1>8, <1>9, <1>10, <1>11 DEF RingInv

\* The release store of avail.idx: the chain joins the window.
LEMMA PublishIdxRings ==
    ASSUME TypeOK, RingInv, PublishIdx
    PROVE  RingInv'
  <1>1. /\ avail_idx' = Inc(avail_idx) /\ dpc = "idx" /\ dpc' = "submitted"
        /\ Adding /\ ~Adding'
        /\ UNCHANGED <<desc, avail_ring, used_ring, used_idx, outstanding, request,
                       last_used, next_avail, head, it, walked, err, vpc, used_seen>>
    BY DEF PublishIdx, sharedByDevice, deviceVars, Adding
  <1>2. Dist(avail_idx, last_used) < QueueSize
    BY <1>1, RoomToAdd DEF RingInv
  <1>3. /\ avail_idx \in Counter /\ last_used \in Counter /\ next_avail \in Counter
        /\ avail_idx' \in Counter
        /\ Dist(avail_idx, last_used) \in Int /\ Dist(next_avail, last_used) \in Int
    BY <1>1, RingTypes, IncCases, DistFacts, CounterRange
  <1>4. /\ Dist(avail_idx', last_used) = Dist(avail_idx, last_used) + 1
        /\ Window' = Window \cup {avail_idx}
    <2>1. Dist(avail_idx, last_used) + 1 < Modulus
      BY <1>2, <1>3, QueueSizeAssumption, ModulusAssumption
    <2>2. Dist(Inc(avail_idx), last_used) = Dist(avail_idx, last_used) + 1
      BY <1>3, <2>1, DistMoves
    <2>3. Between(last_used, Inc(avail_idx)) = Between(last_used, avail_idx) \cup {avail_idx}
      BY <1>3, <2>1, BetweenFacts
    <2> QED BY <1>1, <2>2, <2>3 DEF Window
  <1>5. (\A c : HeadAt(c)' = HeadAt(c)) /\ (InHand' <=> InHand)
    BY <1>1 DEF HeadAt, InHand
  <1>6. /\ outstanding[HeadAt(avail_idx)] # << >>
        /\ \A c \in Window : HeadAt(c) # HeadAt(avail_idx)
    <2>1. HeadAt(avail_idx) = indices[1] /\ outstanding[indices[1]] = indices
      BY <1>1 DEF RingInv, HeadsFiled
    <2>2. indices # << >>
      BY <1>1 DEF TypeOK, DriverTypeOK
    <2> QED BY <1>1, <2>1, <2>2 DEF RingInv, HeadsFiled
  <1>7. CountersInOrder'
    <2>1. next_avail # avail_idx'
      <3>1. Dist(next_avail, last_used) # Dist(avail_idx', last_used)
        BY <1>3, <1>4 DEF RingInv, CountersInOrder
      <3> QED BY <3>1
    <2>2. Dist(avail_idx', last_used) <= QueueSize
          /\ Dist(next_avail, last_used) <= Dist(avail_idx', last_used)
      BY <1>2, <1>3, <1>4, CounterRange DEF RingInv, CountersInOrder
    <2> QED BY <1>1, <1>5, <2>1, <2>2 DEF RingInv, CountersInOrder
  <1>8. HeadsFiled'
    <2>1. \A c \in Window' : outstanding'[HeadAt(c)'] # << >>
      BY <1>1, <1>4, <1>5, <1>6 DEF RingInv, HeadsFiled
    <2>2. \A c, d \in Window' : HeadAt(c)' = HeadAt(d)' => c = d
      BY <1>4, <1>5, <1>6 DEF RingInv, HeadsFiled
    <2> QED BY <1>1, <2>1, <2>2 DEF HeadsFiled, HeadAt
  <1>9. CompletedInOrder'
    BY <1>1, <1>5 DEF RingInv, CompletedInOrder
  <1>10. RequestsFiled' /\ WalkFollows'
    BY <1>1, <1>5 DEF RingInv, RequestsFiled, WalkFollows
  <1>11. ChainsLinked'
    <2>1. \A c \in Window : Linked(HeadAt(c), Len(request[HeadAt(c)]))'
      BY <1>1, <1>5, WindowStaysLinked DEF RingInv
    <2>2. Linked(HeadAt(avail_idx), Len(request[HeadAt(avail_idx)]))
      <3>1. HeadAt(avail_idx) = indices[1] /\ request[indices[1]] = bufs
            /\ Linked(indices[1], pos - 1) /\ pos = Len(bufs) + 1
        BY <1>1 DEF RingInv, HeadsFiled, ChainsLinked
      <3>2. pos - 1 = Len(bufs)
        BY <3>1 DEF TypeOK, DriverTypeOK
      <3> QED BY <3>1, <3>2
    <2>3. ASSUME NEW c \in Window'
          PROVE  Linked(HeadAt(c), Len(request[HeadAt(c)]))'
      <3>1. CASE c \in Window
        BY <2>1, <3>1
      <3>2. CASE c = avail_idx
        BY <1>1, <1>5, <2>2, <3>2 DEF Linked, Link
      <3> QED BY <1>4, <2>3, <3>1, <3>2
    <2> QED BY <1>1, <2>3 DEF ChainsLinked
  <1> QED BY <1>7, <1>8, <1>9, <1>10, <1>11 DEF RingInv

\* The first chain of the window leaves it; it is the one the used ring names.
LEMMA CollectOneRings ==
    ASSUME TypeOK, RingInv, CollectOne
    PROVE  /\ RingInv' /\ last_used # used_idx
           /\ used_ring[Slot(last_used)].id = HeadAt(last_used)
           /\ Window' = Window \ {last_used}
           /\ \A c \in Window' : request'[HeadAt(c)] = request[HeadAt(c)]
           /\ \A c \in Window' : HeadAt(c) # HeadAt(last_used)
  <1> DEFINE id == used_ring[Slot(last_used)].id
  <1>1. /\ dpc = "collect" /\ last_used' = Inc(last_used)
        /\ outstanding' = [outstanding EXCEPT ![id] = << >>]
        /\ request' = [request EXCEPT ![id] = << >>]
        /\ dpc' = (IF Inc(last_used) = used_seen THEN "idle" ELSE "collect")
        /\ ~Adding /\ ~Adding'
        /\ UNCHANGED <<desc, avail_ring, avail_idx, used_ring, used_idx, next_avail,
                       head, it, walked, err, vpc, used_seen>>
    BY DEF CollectOne, sharedByDriver, sharedByDevice, deviceVars, Adding
  <1>2. /\ last_used \in Counter /\ used_idx \in Counter /\ avail_idx \in Counter
        /\ next_avail \in Counter /\ used_seen \in Counter /\ id \in Desc
        /\ Inc(last_used) \in Counter
    BY RingTypes, IncCases
  <1>3. /\ used_seen # last_used
        /\ Dist(used_seen, last_used) <= Dist(used_idx, last_used)
        /\ Dist(used_idx, last_used) <= Dist(next_avail, last_used)
        /\ Dist(next_avail, last_used) <= Dist(avail_idx, last_used)
        /\ Dist(avail_idx, last_used) <= QueueSize
    BY <1>1 DEF RingInv, CountersInOrder
  <1>4. /\ Dist(used_seen, last_used) \in Int /\ Dist(used_seen, last_used) > 0
        /\ Dist(used_idx, last_used) \in Int /\ Dist(next_avail, last_used) \in Int
        /\ Dist(avail_idx, last_used) \in Int
    BY <1>2, <1>3, DistFacts, CounterRange
  <1>5. last_used # used_idx /\ last_used # next_avail /\ last_used # avail_idx
    <2>1. Dist(last_used, last_used) = 0
      BY <1>2, DistFacts
    <2> QED BY <1>3, <1>4, <2>1
  <1>6. /\ Dist(used_seen, Inc(last_used)) = Dist(used_seen, last_used) - 1
        /\ Dist(used_idx, Inc(last_used)) = Dist(used_idx, last_used) - 1
        /\ Dist(next_avail, Inc(last_used)) = Dist(next_avail, last_used) - 1
        /\ Dist(avail_idx, Inc(last_used)) = Dist(avail_idx, last_used) - 1
    BY <1>2, <1>3, <1>5, DistMoves
  <1>7. /\ Window' = Window \ {last_used} /\ last_used \in Window
        /\ Between(last_used', used_idx') = Between(last_used, used_idx) \ {last_used}
        /\ last_used \in Between(last_used, used_idx)
    BY <1>1, <1>2, <1>5, BetweenFacts DEF Window
  <1>8. id = HeadAt(last_used)
    BY <1>7 DEF RingInv, CompletedInOrder
  <1>9. \A c \in Window' : c \in Window /\ HeadAt(c) \in Desc /\ HeadAt(c) # id
    BY <1>7, <1>8, RingTypes DEF RingInv, HeadsFiled
  <1>10. (\A c : HeadAt(c)' = HeadAt(c)) /\ (InHand' <=> InHand)
    BY <1>1 DEF HeadAt, InHand
  <1>11. InHand => used_idx \in Window' /\ head \in Desc /\ head # id
    BY <1>5, <1>7, <1>9, ChainInHand
  <1> HIDE DEF id
  <1>12. /\ outstanding'[id] = << >>
         /\ \A g \in Desc : g # id => outstanding'[g] = outstanding[g] /\ request'[g] = request[g]
    BY <1>1, <1>2, RingTypes
  <1>13. CountersInOrder'
    <2>1. dpc' = "collect" => used_seen' # last_used'
      BY <1>1
    <2>2. /\ Dist(avail_idx', last_used') <= QueueSize
          /\ Dist(used_idx', last_used') <= Dist(next_avail', last_used')
          /\ Dist(next_avail', last_used') <= Dist(avail_idx', last_used')
          /\ Dist(used_seen', last_used') <= Dist(used_idx', last_used')
      BY <1>1, <1>3, <1>4, <1>6, CounterRange
    <2> QED BY <1>1, <1>10, <2>1, <2>2 DEF RingInv, CountersInOrder
  <1>14. HeadsFiled'
    <2>1. \A c \in Window' : outstanding'[HeadAt(c)] # << >>
      BY <1>9, <1>12 DEF RingInv, HeadsFiled
    <2>2. \A c, d \in Window' : HeadAt(c) = HeadAt(d) => c = d
      BY <1>9 DEF RingInv, HeadsFiled
    <2> QED BY <1>1, <1>10, <2>1, <2>2 DEF HeadsFiled
  <1>15. CompletedInOrder'
    BY <1>1, <1>7, <1>10 DEF RingInv, CompletedInOrder
  <1>16. RequestsFiled'
    BY <1>12 DEF RingInv, RequestsFiled
  <1>17. ChainsLinked'
    <2>1. \A c \in Window' : Linked(HeadAt(c), Len(request[HeadAt(c)]))'
      BY <1>1, <1>9, <1>10, <1>12, WindowStaysLinked DEF RingInv
    <2> QED BY <1>1, <2>1 DEF ChainsLinked
  <1>18. WalkFollows'
    BY <1>1, <1>10, <1>11, <1>12 DEF RingInv, WalkFollows, InHand
  <1> QED BY <1>5, <1>7, <1>8, <1>9, <1>12, <1>13, <1>14, <1>15, <1>16, <1>17, <1>18 DEF RingInv, id

\* The device takes the next chain of the window in hand.
LEMMA PopSlotRings ==
    ASSUME TypeOK, DescriptorOwnership, RingInv, PopSlot
    PROVE  RingInv' /\ next_avail # avail_idx /\ head' = HeadAt(next_avail)
  <1>1. /\ vpc = "slot" /\ vpc' = "walk" /\ ~InHand /\ InHand'
        /\ head' = HeadAt(next_avail) /\ next_avail' = Inc(next_avail)
        /\ it' = NewIter(head') /\ walked' = << >> /\ err' = NoError
        /\ UNCHANGED <<desc, avail_ring, avail_idx, used_ring, used_idx, outstanding,
                       request, last_used, indices, bufs, pos, dpc, used_seen>>
    BY DEF PopSlot, sharedByDriver, sharedByDevice, driverVars, InHand, HeadAt
  <1>2. /\ next_avail = used_idx /\ next_avail # avail_idx
        /\ Dist(next_avail, last_used) <= Dist(avail_idx, last_used)
        /\ Dist(avail_idx, last_used) <= QueueSize
    BY <1>1 DEF RingInv, CountersInOrder
  <1>3. /\ next_avail \in Counter /\ avail_idx \in Counter /\ last_used \in Counter
        /\ Dist(next_avail, last_used) \in Int /\ Dist(avail_idx, last_used) \in Int
    BY RingTypes, DistFacts, CounterRange
  <1>4. Dist(next_avail, last_used) # Dist(avail_idx, last_used)
    BY <1>2, <1>3, DistSplit
  <1>5. Dist(next_avail', last_used) = Dist(next_avail, last_used) + 1
    <2>1. Dist(next_avail, last_used) + 1 < Modulus
      BY <1>2, <1>3, <1>4, CounterRange
    <2> QED BY <1>1, <1>3, <2>1, DistMoves
  <1>6. Window' = Window /\ (\A c : HeadAt(c)' = HeadAt(c)) /\ (Adding' <=> Adding)
    BY <1>1 DEF Window, HeadAt, Adding
  <1>7. next_avail \in Window
    BY <1>2, <1>3, BetweenParts DEF Window
  <1>8. /\ head' \in Desc /\ outstanding[head'] # << >>
        /\ Len(request[head']) = Len(outstanding[head']) /\ request[head'] \in Requests
    BY <1>1, <1>7, RingTypes DEF RingInv, HeadsFiled, RequestsFiled
  <1>9. CountersInOrder'
    BY <1>1, <1>2, <1>3, <1>4, <1>5 DEF RingInv, CountersInOrder
  <1>10. HeadsFiled' /\ RequestsFiled'
    BY <1>1, <1>6 DEF RingInv, HeadsFiled, RequestsFiled
  <1>11. CompletedInOrder'
    BY <1>1, <1>2, <1>6 DEF RingInv, CompletedInOrder
  <1>12. ChainsLinked'
    BY <1>1, <1>6, LinksStay DEF RingInv
  <1>13. WalkFollows'
    <2> DEFINE r == request[head']
    <2>1. outstanding[head'][1] = head'
      BY <1>8 DEF DescriptorOwnership, ChainsWellFormed
    <2>2. r \in Requests /\ Len(r) \in Nat \ {0} /\ r = request'[head']
      BY <1>1, <1>8, RequestTypes
    <2>3. Totals(r)[0] = 0
      BY <2>2, BytesAssumption DEF Totals, IsTotals
    <2>4. /\ it'.next_index = head' /\ it'.ttl = QueueSize /\ it'.bytes = 0
          /\ it'.seen_writable = FALSE
      BY <1>1 DEF NewIter
    <2>5. Len(walked') = 0 /\ QueueSize - 0 = QueueSize /\ 0 + 1 = 1
      BY <1>1, QueueSizeAssumption
    <2> HIDE DEF r
    <2> QED BY <1>1, <2>1, <2>2, <2>3, <2>4, <2>5 DEF WalkFollows, r
  <1> QED BY <1>1, <1>2, <1>9, <1>10, <1>11, <1>12, <1>13 DEF RingInv

\* The running totals of a request stay below the limit.
LEMMA TotalsFacts ==
    ASSUME NEW b \in Requests
    PROVE  /\ Totals(b) \in [0 .. Len(b) -> 0 .. ByteLimit - 1]
           /\ Totals(b)[0] = 0
           /\ \A i \in 1 .. Len(b) : Totals(b)[i] = Totals(b)[i - 1] + b[i].len
  <1>1. \E total \in [0 .. Len(b) -> 0 .. ByteLimit - 1] : IsTotals(b, total)
    BY BytesAssumption
  <1>2. Totals(b) \in [0 .. Len(b) -> 0 .. ByteLimit - 1] /\ IsTotals(b, Totals(b))
    BY <1>1 DEF Totals
  <1> QED BY <1>2 DEF IsTotals

\* The descriptor the walk reads next is the one written for the next buffer of
\* the request, and ChainIter::next finds nothing wrong with it.
LEMMA WalkReads ==
    ASSUME TypeOK, DescriptorOwnership, RingInv, vpc = "walk",
           NEW r, NEW k, r = request[head], k = Len(walked)
    PROVE  /\ r \in Requests /\ Len(r) \in Nat /\ k \in Nat /\ k + 1 \in 1 .. Len(r)
           /\ r[k + 1] \in Buffers
           /\ desc[it.next_index] = Link(head, k + 1)
           /\ IterError(it, desc) = NoError
           /\ it.bytes + r[k + 1].len = Totals(r)[k + 1]
           /\ it.seen_writable => r[k + 1].write
           /\ it.ttl = QueueSize - k
           /\ k + 1 < Len(r) => outstanding[head][k + 2] \in Desc
  <1>1. /\ InHand /\ head \in Desc /\ r \in Requests
        /\ Len(r) = Len(outstanding[head]) /\ Linked(head, Len(r))
    BY ChainInHand DEF InHand
  <1>2. /\ k < Len(r) /\ it.next_index = outstanding[head][k + 1]
        /\ it.ttl = QueueSize - k /\ it.bytes = Totals(r)[k]
        /\ it.seen_writable => k # 0 /\ r[k].write
    BY DEF RingInv, WalkFollows
  <1>3. r \in Seq(Buffers) /\ Len(r) \in Nat /\ outstanding[head] \in Seq(Desc)
        /\ k \in Nat
    BY <1>1, RequestTypes, RingTypes DEF TypeOK, DeviceTypeOK
  <1>4. k + 1 \in 1 .. Len(r) /\ r[k + 1] \in Buffers /\ it.next_index \in Desc
        /\ (k + 1 < Len(r) => outstanding[head][k + 2] \in Desc)
    BY <1>1, <1>2, <1>3
  <1>5. desc[it.next_index] = Link(head, k + 1)
    BY <1>1, <1>2, <1>4 DEF Linked
  <1>6. it.ttl # 0
    <2>1. Len(r) <= QueueSize
      BY <1>1, ChainFits
    <2> QED BY <1>2, <1>3, <2>1, QueueSizeAssumption
  <1>7. it.next_index \in DOMAIN desc /\ ~(it.next_index >= QueueSize)
    <2>1. DOMAIN desc = Desc
      BY RingTypes
    <2>2. ~(it.next_index >= QueueSize)
      BY <1>4, QueueSizeAssumption DEF Desc
    <2> QED BY <1>4, <2>1, <2>2
  <1>8. it.seen_writable => r[k + 1].write
    <2> SUFFICES ASSUME it.seen_writable PROVE r[k + 1].write
      OBVIOUS
    <2>1. k \in 1 .. Len(r) - 1 /\ r[k].write
      BY <1>2, <1>3
    <2> QED BY <1>1, <2>1, RequestsAssumption DEF WellFormed
  <1>9. /\ it.bytes + r[k + 1].len = Totals(r)[k + 1]
        /\ ~(it.bytes + r[k + 1].len >= ByteLimit)
    <2>1. Totals(r)[k + 1] = Totals(r)[(k + 1) - 1] + r[k + 1].len
      BY <1>1, <1>4, TotalsFacts
    <2>2. (k + 1) - 1 = k
      BY <1>3
    <2>3. Totals(r)[k + 1] \in 0 .. ByteLimit - 1
      <3>1. k + 1 \in 0 .. Len(r)
        BY <1>3, <1>4
      <3>2. Totals(r) \in [0 .. Len(r) -> 0 .. ByteLimit - 1]
        BY <1>1, TotalsFacts
      <3> QED BY <3>1, <3>2
    <2> QED BY <1>2, <2>1, <2>2, <2>3, ByteLimitAssumption
  <1>10. /\ Link(head, k + 1).indirect = FALSE
         /\ Link(head, k + 1).len = r[k + 1].len
         /\ Link(head, k + 1).write = r[k + 1].write
    BY DEF Link
  <1>11. IterError(it, desc) = NoError
    BY <1>5, <1>6, <1>7, <1>8, <1>9, <1>10 DEF IterError
  <1> QED BY <1>1, <1>2, <1>3, <1>4, <1>5, <1>8, <1>9, <1>11

\* The walk adds the next buffer of the request to what it has collected.
LEMMA WalkDescriptorRings ==
    ASSUME TypeOK, DescriptorOwnership, RingInv, WalkDescriptor
    PROVE  RingInv'
  <1>1. PICK r, k, h : r = request[head] /\ k = Len(walked) /\ h = head
    OBVIOUS
  <1>2. vpc = "walk" /\ InHand
    BY DEF WalkDescriptor, InHand
  <1>3. /\ r \in Requests /\ Len(r) \in Nat /\ k \in Nat /\ k + 1 \in 1 .. Len(r)
        /\ r[k + 1] \in Buffers
        /\ desc[it.next_index] = Link(h, k + 1)
        /\ IterError(it, desc) = NoError
        /\ it.bytes + r[k + 1].len = Totals(r)[k + 1]
        /\ it.seen_writable => r[k + 1].write
        /\ it.ttl = QueueSize - k
    BY <1>1, <1>2, WalkReads
  <1>4. PICK d : d = Link(h, k + 1)
    OBVIOUS
  <1>5. /\ d.addr = r[k + 1].addr /\ d.len = r[k + 1].len /\ d.write = r[k + 1].write
        /\ d.has_next = (k + 1 # Len(r))
        /\ d.next = IF k + 1 = Len(r) THEN 0 ELSE outstanding[h][(k + 1) + 1]
    BY <1>1, <1>4 DEF Link
  <1>6. /\ it' = IterAfter(it, d) /\ err' = err
        /\ walked' = Append(walked, [addr |-> d.addr, len |-> d.len, write |-> d.write])
        /\ vpc' = (IF d.has_next THEN "walk" ELSE "respond")
        /\ UNCHANGED <<desc, avail_ring, avail_idx, used_ring, used_idx, outstanding,
                       request, last_used, indices, bufs, pos, next_avail, head,
                       dpc, used_seen>>
    BY <1>3, <1>4 DEF WalkDescriptor, sharedByDriver, sharedByDevice, driverVars
  <1>7. r[k + 1] = [addr |-> d.addr, len |-> d.len, write |-> d.write]
    <2>1. PICK b : b = r[k + 1]
      OBVIOUS
    <2>2. b = [addr |-> b.addr, len |-> b.len, write |-> b.write]
      BY <1>3, <2>1, BuffersAssumption
    <2> QED BY <1>5, <2>1, <2>2
  <1>8. walked \in Seq(Buffer) /\ walked' = Append(walked, r[k + 1])
    BY <1>6, <1>7 DEF TypeOK, DeviceTypeOK
  <1>9. /\ Len(walked') = k + 1 /\ walked'[k + 1] = r[k + 1]
        /\ \A i \in 1 .. k : walked'[i] = walked[i]
    BY <1>1, <1>8, AppendProperties
  <1>10. InHand'
    BY <1>6 DEF InHand
  <1>11. Window' = Window /\ (\A c : HeadAt(c)' = HeadAt(c)) /\ (Adding' <=> Adding)
    BY <1>6 DEF Window, HeadAt, Adding
  <1>12. CountersInOrder'
    BY <1>2, <1>6, <1>10 DEF RingInv, CountersInOrder
  <1>13. HeadsFiled' /\ RequestsFiled'
    BY <1>6, <1>11 DEF RingInv, HeadsFiled, RequestsFiled
  <1>14. CompletedInOrder'
    BY <1>2, <1>6, <1>11 DEF RingInv, CompletedInOrder
  <1>15. ChainsLinked'
    BY <1>6, <1>11, LinksStay DEF RingInv
  <1>16. WalkFollows'
    <2>1. request'[head'] = r /\ err' = NoError
      BY <1>1, <1>2, <1>6 DEF RingInv, WalkFollows
    <2>2. \A i \in 1 .. k : walked'[i] = r[i]
      BY <1>1, <1>2, <1>9 DEF RingInv, WalkFollows
    <2>3. \A i \in 1 .. k + 1 : i \in 1 .. k \/ i = k + 1
      BY <1>3
    <2>4. \A i \in 1 .. k + 1 : walked'[i] = r[i]
      BY <1>9, <2>2, <2>3
    <2>5. vpc' \in {"respond", "publish"} => k + 1 = Len(r)
      BY <1>5, <1>6
    <2>6. ASSUME vpc' = "walk"
          PROVE  /\ k + 1 < Len(r)
                 /\ it'.next_index = outstanding'[head'][(k + 1) + 1]
                 /\ it'.ttl = QueueSize - (k + 1)
                 /\ it'.bytes = Totals(r)[k + 1]
                 /\ it'.seen_writable => k + 1 # 0 /\ r[k + 1].write
      <3>1. d.has_next /\ k + 1 # Len(r)
        BY <1>5, <1>6, <2>6
      <3>2. k + 1 < Len(r) /\ k + 1 # 0
        BY <1>3, <3>1
      <3>3. /\ it'.next_index = d.next /\ it'.ttl = it.ttl - 1
            /\ it'.bytes = it.bytes + d.len
            /\ it'.seen_writable = (it.seen_writable \/ d.write)
        BY <1>6, <3>1 DEF IterAfter
      <3>4. it'.next_index = outstanding'[head'][(k + 1) + 1]
        BY <1>1, <1>5, <1>6, <3>1, <3>3
      <3>5. it'.ttl = QueueSize - (k + 1)
        BY <1>3, <3>3, QueueSizeAssumption
      <3>6. it'.bytes = Totals(r)[k + 1]
        BY <1>3, <1>5, <3>3
      <3>7. it'.seen_writable => r[k + 1].write
        BY <1>3, <1>5, <3>3
      <3> QED BY <3>2, <3>4, <3>5, <3>6, <3>7
    <2>7. k + 1 <= Len(r)
      BY <1>3
    <2>8. PICK s, m : s = request'[head'] /\ m = Len(walked')
      OBVIOUS
    <2>9. s = r /\ m = k + 1
      BY <1>9, <2>1, <2>8
    <2> QED BY <2>1, <2>4, <2>5, <2>6, <2>7, <2>8, <2>9 DEF WalkFollows
  <1> QED BY <1>12, <1>13, <1>14, <1>15, <1>16 DEF RingInv

\* add_used fills a slot no collected element is read from.
LEMMA RespondRings ==
    ASSUME TypeOK, RingInv, Respond
    PROVE  /\ RingInv'
           /\ \A c \in Between(last_used, used_idx) :
                 used_ring'[Slot(c)] = used_ring[Slot(c)]
  <1>1. /\ vpc = "respond" /\ vpc' = "publish" /\ InHand /\ InHand'
        /\ UNCHANGED <<desc, avail_ring, avail_idx, used_idx, outstanding, request,
                       last_used, indices, bufs, pos, next_avail, head, it, walked,
                       err, dpc, used_seen>>
    BY DEF Respond, sharedByDriver, driverVars, walkVars, InHand
  <1>2. PICK n : used_ring' = [used_ring EXCEPT ![Slot(used_idx)] = [id |-> head, len |-> n]]
    BY DEF Respond, UsedSlot
  <1>3. used_idx \in Counter /\ Slot(used_idx) \in Desc /\ last_used \in Counter
        /\ used_ring \in [Desc -> [id : Desc, len : Nat]]
    BY RingTypes
  <1>4. \A c \in Between(last_used, used_idx) : Slot(c) # Slot(used_idx)
    BY <1>1, WindowParts DEF RingInv
  <1>5. \A c \in Between(last_used, used_idx) : used_ring'[Slot(c)] = used_ring[Slot(c)]
    BY <1>2, <1>3, <1>4
  <1>6. used_ring'[Slot(used_idx)].id = head
    BY <1>2, <1>3
  <1>7. Window' = Window /\ (\A c : HeadAt(c)' = HeadAt(c)) /\ (Adding' <=> Adding)
    BY <1>1 DEF Window, HeadAt, Adding
  <1>8. CountersInOrder'
    BY <1>1 DEF RingInv, CountersInOrder
  <1>9. HeadsFiled' /\ RequestsFiled'
    BY <1>1, <1>7 DEF RingInv, HeadsFiled, RequestsFiled
  <1>10. CompletedInOrder'
    BY <1>1, <1>5, <1>6, <1>7 DEF RingInv, CompletedInOrder
  <1>11. ChainsLinked'
    BY <1>1, <1>7 DEF RingInv, ChainsLinked, Linked, Link
  <1>12. WalkFollows'
    BY <1>1 DEF RingInv, WalkFollows
  <1> QED BY <1>5, <1>8, <1>9, <1>10, <1>11, <1>12 DEF RingInv

\* The release store of used.idx: the chain in hand is completed.
LEMMA PublishUsedRings ==
    ASSUME TypeOK, RingInv, PublishUsed
    PROVE  /\ RingInv'
           /\ Dist(used_idx', last_used) = Dist(used_idx, last_used) + 1
           /\ used_ring[Slot(used_idx)].id = head
  <1>1. /\ vpc = "publish" /\ vpc' = "pop" /\ InHand /\ ~InHand'
        /\ used_idx' = Inc(used_idx)
        /\ UNCHANGED <<desc, avail_ring, avail_idx, used_ring, outstanding, request,
                       last_used, indices, bufs, pos, next_avail, err, dpc, used_seen>>
    BY DEF PublishUsed, sharedByDriver, addChainVars, InHand
  <1>2. /\ used_idx \in Counter /\ last_used \in Counter /\ next_avail \in Counter
        /\ avail_idx \in Counter /\ used_seen \in Counter
        /\ Dist(used_idx, last_used) \in Int /\ Dist(next_avail, last_used) \in Int
        /\ Dist(avail_idx, last_used) \in Int /\ Dist(used_seen, last_used) \in Int
    BY RingTypes, DistFacts, CounterRange
  <1>3. /\ next_avail = Inc(used_idx)
        /\ Dist(used_idx, last_used) <= Dist(next_avail, last_used)
        /\ Dist(next_avail, last_used) <= Dist(avail_idx, last_used)
        /\ Dist(avail_idx, last_used) <= QueueSize
    BY <1>1 DEF RingInv, CountersInOrder
  <1>4. Dist(used_idx, last_used) # Dist(next_avail, last_used)
    <2>1. used_idx # next_avail
      BY <1>2, <1>3, IncCases, CounterRange
    <2> QED BY <1>2, <2>1, DistSplit
  <1>5. Dist(used_idx, last_used) + 1 < Modulus
    BY <1>2, <1>3, <1>4, CounterRange
  <1>6. Dist(used_idx', last_used) = Dist(used_idx, last_used) + 1
    BY <1>1, <1>2, <1>5, DistMoves
  <1>7. Between(last_used', used_idx') = Between(last_used, used_idx) \cup {used_idx}
    BY <1>1, <1>2, <1>5, BetweenFacts
  <1>8. Window' = Window /\ (\A c : HeadAt(c)' = HeadAt(c)) /\ (Adding' <=> Adding)
    BY <1>1 DEF Window, HeadAt, Adding
  <1>9. head = HeadAt(used_idx) /\ used_ring[Slot(used_idx)].id = head
    BY <1>1 DEF RingInv, CompletedInOrder
  <1>10. CountersInOrder'
    <2>1. Dist(used_idx', last_used) = Dist(next_avail, last_used)
      BY <1>1, <1>3
    <2>2. dpc = "collect" => Dist(used_seen, last_used) <= Dist(used_idx', last_used)
      BY <1>2, <1>6 DEF RingInv, CountersInOrder
    <2> QED BY <1>1, <1>2, <1>3, <2>1, <2>2 DEF RingInv, CountersInOrder
  <1>11. HeadsFiled' /\ RequestsFiled'
    BY <1>1, <1>8 DEF RingInv, HeadsFiled, RequestsFiled
  <1>12. CompletedInOrder'
    <2>1. \A c \in Between(last_used', used_idx') : used_ring'[Slot(c)].id = HeadAt(c)'
      BY <1>1, <1>7, <1>8, <1>9 DEF RingInv, CompletedInOrder
    <2> QED BY <1>1, <2>1 DEF CompletedInOrder
  <1>13. ChainsLinked'
    BY <1>1, <1>8 DEF RingInv, ChainsLinked, Linked, Link
  <1>14. WalkFollows'
    BY <1>1 DEF WalkFollows, InHand
  <1> QED BY <1>6, <1>9, <1>10, <1>11, <1>12, <1>13, <1>14 DEF RingInv

-----------------------------------------------------------------------------
\* Driver::new and Device::new: nothing is in flight.
LEMMA InitRings == Init => RingInv
  <1> SUFFICES ASSUME Init PROVE RingInv
    OBVIOUS
  <1>1. Window = {} /\ Dist(0, 0) = 0 /\ Between(last_used, used_idx) = {}
    BY CounterArith, DistFacts, BetweenFacts DEF Init, Window
  <1>2. CountersInOrder
    BY <1>1, QueueSizeAssumption DEF Init, CountersInOrder, InHand
  <1>3. HeadsFiled /\ CompletedInOrder /\ ChainsLinked
    BY <1>1 DEF Init, HeadsFiled, CompletedInOrder, ChainsLinked, Adding, InHand
  <1>4. RequestsFiled
    BY DEF Init, RequestsFiled
  <1>5. WalkFollows
    BY DEF Init, WalkFollows, InHand
  <1> QED BY <1>2, <1>3, <1>4, <1>5 DEF RingInv

\* Every driver action preserves it.
LEMMA DriverStepRings ==
    ASSUME TypeOK, DescriptorOwnership, RingInv, DriverNext
    PROVE  RingInv'
  <1> USE DEF sharedByDriver, sharedByDevice, deviceVars, addChainVars
  <1>1. Dist(used_idx, last_used) \in Int
    BY RingTypes, DistFacts, CounterRange
  <1>2. ASSUME NEW b \in Requests, AddChain(b) PROVE RingInv'
    BY <1>2, AddChainRings
  <1>3. CASE WriteDescriptor
    BY <1>3, WriteDescriptorRings
  <1>4. CASE WriteSlot
    BY <1>4, WriteSlotRings
  <1>5. CASE PublishIdx
    BY <1>5, PublishIdxRings
  <1>6. CASE NeedsKick
    BY <1>1, <1>6, QuietStep DEF NeedsKick
  <1>7. CASE ArmUsedEvent
    BY <1>1, <1>7, QuietStep DEF ArmUsedEvent
  <1>8. CASE CollectBegin
    BY <1>1, <1>8, QuietStep DEF CollectBegin, LoadUsedIdx
  <1>9. CASE CollectOne
    BY <1>9, CollectOneRings
  <1>10. CASE WaitForInterrupt
    BY <1>1, <1>10, QuietStep DEF WaitForInterrupt
  <1>11. CASE TakeInterrupt
    BY <1>1, <1>11, QuietStep DEF TakeInterrupt, LoadUsedIdx
  <1> QED BY <1>2, <1>3, <1>4, <1>5, <1>6, <1>7, <1>8, <1>9, <1>10, <1>11 DEF DriverNext

\* Every device action preserves it.
LEMMA DeviceStepRings ==
    ASSUME TypeOK, DescriptorOwnership, RingInv, DeviceNext
    PROVE  RingInv'
  <1> USE DEF sharedByDriver, sharedByDevice, driverVars, walkVars
  <1>1. Dist(used_idx, last_used) \in Int
    BY RingTypes, DistFacts, CounterRange
  <1>2. CASE TakeKick
    BY <1>1, <1>2, QuietStep DEF TakeKick, InHand
  <1>3. CASE DisableNotification
    BY <1>1, <1>3, QuietStep DEF DisableNotification, deviceVars
  <1>4. CASE PopLoad
    <2>1. Available = 0 <=> avail_idx = next_avail
      BY RingTypes, DistFacts DEF Available
    <2> QED BY <1>1, <1>4, <2>1, QuietStep DEF PopLoad, InHand
  <1>5. CASE PopSlot
    BY <1>5, PopSlotRings
  <1>6. CASE WalkDescriptor
    BY <1>6, WalkDescriptorRings
  <1>7. CASE Respond
    BY <1>7, RespondRings
  <1>8. CASE PublishUsed
    BY <1>8, PublishUsedRings
  <1>9. CASE NeedsNotification
    BY <1>1, <1>9, QuietStep DEF NeedsNotification, InHand
  <1>10. CASE EnableNotification
    BY <1>1, <1>10, QuietStep DEF EnableNotification, InHand
  <1>11. CASE RecheckAvailable
    BY <1>1, <1>11, QuietStep DEF RecheckAvailable, InHand
  <1> QED BY <1>2, <1>3, <1>4, <1>5, <1>6, <1>7, <1>8, <1>9, <1>10, <1>11 DEF DeviceNext

\* The rings are in order at all times.
LEMMA RingInvariant == Spec => []RingInv
  <1>1. TypeOK /\ DescriptorOwnership /\ RingInv /\ [Next]_vars => RingInv'
    <2> SUFFICES ASSUME TypeOK, DescriptorOwnership, RingInv, [Next]_vars
                 PROVE  RingInv'
      OBVIOUS
    <2>1. CASE UNCHANGED vars
      <3>1. Dist(used_idx, last_used) \in Int
        BY RingTypes, DistFacts, CounterRange
      <3> QED BY <2>1, <3>1, QuietStep DEF vars
    <2> QED BY <2>1, DriverStepRings, DeviceStepRings DEF Next
  <1> QED BY InitRings, TypeCorrect, OwnershipInvariant, <1>1, PTL DEF Spec

\* What the device collects of a chain is what the driver submitted under that
\* head, buffer for buffer, and process() rejects no chain add_chain built, for
\* every queue size, counter width and interleaving of the two halves.
THEOREM SubmissionInvariant == Spec => []DeviceReadsSubmission
  <1>1. TypeOK /\ RingInv => DeviceReadsSubmission
    <2> SUFFICES ASSUME TypeOK, RingInv PROVE DeviceReadsSubmission
      OBVIOUS
    <2> QED BY DEF RingInv, WalkFollows, DeviceReadsSubmission, InHand
  <1> QED BY TypeCorrect, RingInvariant, <1>1, PTL

-----------------------------------------------------------------------------
(***************************************************************************)
(* The virtqueue implements RequestQueue.  The abstract queues are read    *)
(* off the rings, so a step is the abstract one if the positions it leaves *)
(* in a queue keep their entries.                                          *)
(***************************************************************************)
\* A sequence with one more element is the shorter one with its last appended.
LEMMA OneMore ==
    ASSUME NEW S, NEW n \in Nat, NEW p \in [1 .. n -> S], NEW q \in [1 .. n + 1 -> S],
           \A i \in 1 .. n : q[i] = p[i]
    PROVE  q = Append(p, q[n + 1])
  <1>1. p \in Seq(S) /\ Len(p) = n /\ q \in Seq(S) /\ Len(q) = n + 1 /\ q[n + 1] \in S
    OBVIOUS
  <1>2. PICK a : a = Append(p, q[n + 1])
    OBVIOUS
  <1>3. /\ a \in Seq(S) /\ Len(a) = n + 1 /\ a[n + 1] = q[n + 1]
        /\ \A i \in 1 .. n : a[i] = p[i]
    BY <1>1, <1>2, AppendProperties
  <1>4. \A i \in 1 .. n + 1 : i \in 1 .. n \/ i = n + 1
    OBVIOUS
  <1>5. \A i \in 1 .. n + 1 : a[i] = q[i]
    BY <1>3, <1>4
  <1> QED BY <1>1, <1>2, <1>3, <1>5, SeqEqual

\* One without its first element is the tail.
LEMMA OneLess ==
    ASSUME NEW S, NEW n \in Nat \ {0}, NEW p \in [1 .. n -> S], NEW q \in [1 .. n - 1 -> S],
           \A i \in 1 .. n - 1 : q[i] = p[i + 1]
    PROVE  p # << >> /\ Head(p) = p[1] /\ q = Tail(p)
  <1>1. p \in Seq(S) /\ Len(p) = n /\ q \in Seq(S) /\ Len(q) = n - 1 /\ p # << >>
    OBVIOUS
  <1>2. PICK t : t = Tail(p)
    OBVIOUS
  <1>3. t \in Seq(S) /\ Len(t) = n - 1 /\ \A i \in 1 .. n - 1 : t[i] = p[i + 1]
    BY <1>1, <1>2, HeadTailProperties
  <1>4. \A i \in 1 .. n - 1 : t[i] = q[i]
    BY <1>3
  <1> QED BY <1>1, <1>2, <1>3, <1>4, SeqEqual

\* The k-th position from a, counted from its successor.
LEMMA SlotAfterInc ==
    ASSUME NEW a \in Counter, NEW k \in Int, 0 <= k, k + 1 < Modulus
    PROVE  Slot(Inc(a) + k) = Slot(a + (k + 1))
  <1>1. a \in Int /\ 0 <= a /\ a < Modulus /\ Modulus \in Int
    BY CounterRange
  <1>2. Inc(a) = IF a + 1 = Modulus THEN 0 ELSE a + 1
    BY IncCases
  <1>3. CASE a + 1 = Modulus
    <2>1. a + (k + 1) \in Int /\ 0 <= a + (k + 1) /\ a + (k + 1) < 2 * Modulus
          /\ a + (k + 1) = Modulus + k
      BY <1>1, <1>3
    <2>2. (a + (k + 1)) % Modulus = k
      BY <1>1, <2>1, ModCases
    <2>3. Slot(k) = Slot(a + (k + 1))
      BY <2>1, <2>2, SlotOf
    <2> QED BY <1>2, <1>3, <2>3
  <1>4. CASE a + 1 # Modulus
    <2>1. Inc(a) + k = a + (k + 1)
      BY <1>1, <1>2, <1>4
    <2> QED BY <2>1
  <1> QED BY <1>3, <1>4

\* The i-th position from a, and its slot.
LEMMA Reading ==
    ASSUME NEW a \in Counter, NEW b \in Counter, NEW i \in 1 .. Dist(b, a)
    PROVE  \E c \in Between(a, b) :
              /\ Dist(c, a) = i - 1 /\ Slot(a + i - 1) = Slot(c) /\ Slot(c) \in Desc
  <1>1. /\ Dist(b, a) \in Int /\ Dist(b, a) < Modulus /\ a \in Int
        /\ i \in Int /\ 1 <= i /\ i <= Dist(b, a) /\ Modulus \in Int
    <2>1. Dist(b, a) \in Int /\ Dist(b, a) < Modulus /\ a \in Int /\ Modulus \in Int
      BY DistFacts, CounterRange
    <2> QED BY <2>1
  <1>2. PICK k : k = i - 1
    OBVIOUS
  <1>3. k \in Int /\ 0 <= k /\ k < Dist(b, a) /\ k < Modulus
    BY <1>1, <1>2
  <1>4. PICK c : c = (a + k) % Modulus
    OBVIOUS
  <1>5. c \in Counter /\ Dist(c, a) = k /\ Slot(c) = Slot(a + k)
    BY <1>3, <1>4, Position
  <1>6. a + i - 1 = a + k
    BY <1>1, <1>2
  <1>7. Slot(c) \in Desc
    BY <1>5, CounterArith, CounterRange
  <1> QED BY <1>2, <1>3, <1>5, <1>6, <1>7 DEF Between

\* An entry of a queue.
Entries == [id : Desc, payload : Seq(Buffers)]

LEMMA QueueTypes ==
    ASSUME TypeOK
    PROVE  /\ Available \in Nat /\ Dist(used_idx, last_used) \in Nat
           /\ \A h \in Desc : Entry(h) \in Entries
           /\ Pending \in [1 .. Available -> Entries]
           /\ Done \in [1 .. Dist(used_idx, last_used) -> Entries]
  <1>1. Available \in Nat /\ Dist(used_idx, last_used) \in Nat
    <2>1. Dist(avail_idx, next_avail) \in Counter /\ Dist(used_idx, last_used) \in Counter
      BY RingTypes, DistFacts
    <2> QED BY <2>1 DEF Available, Counter
  <1>2. \A h \in Desc : Entry(h) \in Entries
    BY RingTypes DEF Entry, Entries
  <1>3. ASSUME NEW i \in 1 .. Available
        PROVE  avail_ring[Slot(next_avail + i - 1)] \in Desc
    <2>1. Slot(next_avail + i - 1) \in Desc
      BY <1>3, RingTypes, Reading DEF Available
    <2> QED BY <2>1, RingTypes
  <1>4. ASSUME NEW i \in 1 .. Dist(used_idx, last_used)
        PROVE  used_ring[Slot(last_used + i - 1)].id \in Desc
    <2>1. Slot(last_used + i - 1) \in Desc
      BY <1>4, RingTypes, Reading
    <2> QED BY <2>1, RingTypes
  <1> QED BY <1>1, <1>2, <1>3, <1>4 DEF Pending, Done

\* Every entry of the queues names a chain of the window.
LEMMA EntriesOfWindow ==
    ASSUME TypeOK, RingInv
    PROVE  /\ \A i \in 1 .. Available : \E c \in Between(next_avail, avail_idx) :
                 /\ c \in Window /\ Pending[i] = Entry(HeadAt(c))
                 /\ avail_ring[Slot(next_avail + i - 1)] = HeadAt(c)
           /\ \A i \in 1 .. Dist(used_idx, last_used) :
                 \E c \in Between(last_used, used_idx) :
                    /\ c \in Window /\ Done[i] = Entry(HeadAt(c))
                    /\ Slot(last_used + i - 1) = Slot(c)
                    /\ used_ring[Slot(c)].id = HeadAt(c)
  <1>1. /\ Between(last_used, used_idx) \subseteq Window
        /\ Between(next_avail, avail_idx) \subseteq Window
    BY WindowParts DEF RingInv
  <1>2. ASSUME NEW i \in 1 .. Available
        PROVE  \E c \in Between(next_avail, avail_idx) :
                 /\ c \in Window /\ Pending[i] = Entry(HeadAt(c))
                 /\ avail_ring[Slot(next_avail + i - 1)] = HeadAt(c)
    <2>1. PICK c \in Between(next_avail, avail_idx) : Slot(next_avail + i - 1) = Slot(c)
      BY <1>2, RingTypes, Reading DEF Available
    <2>2. Pending[i] = Entry(avail_ring[Slot(next_avail + i - 1)])
      BY <1>2 DEF Pending
    <2> QED BY <1>1, <2>1, <2>2 DEF HeadAt
  <1>3. ASSUME NEW i \in 1 .. Dist(used_idx, last_used)
        PROVE  \E c \in Between(last_used, used_idx) :
                  /\ c \in Window /\ Done[i] = Entry(HeadAt(c))
                  /\ Slot(last_used + i - 1) = Slot(c)
                  /\ used_ring[Slot(c)].id = HeadAt(c)
    <2>1. PICK c \in Between(last_used, used_idx) : Slot(last_used + i - 1) = Slot(c)
      BY <1>3, RingTypes, Reading
    <2>2. used_ring[Slot(c)].id = HeadAt(c)
      BY <2>1 DEF RingInv, CompletedInOrder
    <2>3. Done[i] = Entry(used_ring[Slot(last_used + i - 1)].id)
      BY <1>3 DEF Done
    <2> QED BY <1>1, <2>1, <2>2, <2>3
  <1> QED BY <1>2, <1>3

\* The queues stay as they are if the counters do and every position of the
\* window keeps its head and its request.
LEMMA QueuesStay ==
    ASSUME TypeOK, RingInv,
           UNCHANGED <<avail_idx, next_avail, used_idx, last_used>>,
           \A c \in Window : /\ HeadAt(c)' = HeadAt(c)
                             /\ request'[HeadAt(c)] = request[HeadAt(c)],
           \A c \in Between(last_used, used_idx) : used_ring'[Slot(c)] = used_ring[Slot(c)],
           InHand' <=> InHand, InHand => head' = head
    PROVE  UNCHANGED <<Pending, Serving, Done>>
  <1>1. Pending' = Pending
    <2>1. ASSUME NEW i \in 1 .. Available
          PROVE  Entry(avail_ring[Slot(next_avail + i - 1)])'
                    = Entry(avail_ring[Slot(next_avail + i - 1)])
      <3>1. PICK c \in Between(next_avail, avail_idx) : Slot(next_avail + i - 1) = Slot(c)
        BY <2>1, RingTypes, Reading DEF Available
      <3>2. c \in Window
        BY <3>1, WindowParts DEF RingInv
      <3>3. HeadAt(c)' = HeadAt(c) /\ request'[HeadAt(c)] = request[HeadAt(c)]
        BY <3>2
      <3> QED BY <3>1, <3>3 DEF Entry, HeadAt
    <2>2. Available' = Available
      BY DEF Available
    <2> QED BY <2>1, <2>2 DEF Pending
  <1>2. Done' = Done
    <2>1. ASSUME NEW i \in 1 .. Dist(used_idx, last_used)
          PROVE  Entry(used_ring[Slot(last_used + i - 1)].id)'
                    = Entry(used_ring[Slot(last_used + i - 1)].id)
      <3>1. PICK c \in Between(last_used, used_idx) :
              /\ c \in Window /\ Slot(last_used + i - 1) = Slot(c)
              /\ used_ring[Slot(c)].id = HeadAt(c)
        BY <2>1, EntriesOfWindow
      <3>2. used_ring'[Slot(c)].id = HeadAt(c) /\ request'[HeadAt(c)] = request[HeadAt(c)]
        BY <3>1
      <3> QED BY <3>1, <3>2 DEF Entry
    <2> QED BY <2>1 DEF Done
  <1>3. Serving' = Serving
    <2>1. InHand => used_idx \in Window /\ head = HeadAt(used_idx)
      BY ChainInHand
    <2>2. InHand => request'[head'] = request[head] /\ head' = head
      BY <2>1
    <2> QED BY <2>2 DEF Serving, InHand, Entry
  <1> QED BY <1>1, <1>2, <1>3

\* The release store of avail.idx submits the chain under a head that is not in
\* flight.
LEMMA PublishSubmits ==
    ASSUME TypeOK, DescriptorOwnership, RingInv, PublishIdx
    PROVE  RQ!Submit
  <1> DEFINE n == Available
             e == Entry(indices[1])
  <1>1. /\ avail_idx' = Inc(avail_idx) /\ dpc = "idx" /\ Adding
        /\ UNCHANGED <<avail_ring, used_ring, used_idx, request, last_used,
                       next_avail, head, vpc>>
    BY DEF PublishIdx, sharedByDevice, deviceVars, Adding
  <1>2. /\ avail_idx \in Counter /\ last_used \in Counter /\ next_avail \in Counter
        /\ Dist(avail_idx, last_used) < QueueSize
    BY <1>1, RingTypes, RoomToAdd DEF RingInv
  <1>3. n \in Nat /\ n + 1 < Modulus
    <2>1. Dist(avail_idx, next_avail) = Dist(avail_idx, last_used) - Dist(next_avail, last_used)
      BY <1>2, DistSplit DEF RingInv, CountersInOrder
    <2>2. /\ Dist(avail_idx, last_used) \in Int /\ Dist(next_avail, last_used) \in Int
          /\ 0 <= Dist(next_avail, last_used)
      BY <1>2, DistFacts, CounterRange
    <2>3. n \in Nat
      BY QueueTypes
    <2> QED BY <1>2, <2>1, <2>2, <2>3, QueueSizeAssumption, ModulusAssumption DEF Available
  <1>4. Available' = n + 1
    BY <1>1, <1>2, <1>3, DistMoves DEF Available
  <1>5. Slot(next_avail + (n + 1) - 1) = Slot(avail_idx)
    <2>1. (next_avail + n) % Modulus = avail_idx
      <3>1. n \in Int /\ 0 <= n /\ n < Modulus
        BY <1>3, CounterRange
      <3>2. Dist(avail_idx, next_avail) = n
        BY DEF Available
      <3> QED BY <1>2, <3>1, <3>2, Position
    <2>2. Slot((next_avail + n) % Modulus) = Slot(next_avail + n)
      <3>1. n \in Int /\ 0 <= n /\ n < Modulus
        BY <1>3, CounterRange
      <3> QED BY <1>2, <3>1, Position
    <2>3. next_avail + (n + 1) - 1 = next_avail + n
      BY <1>2, <1>3, CounterRange
    <2> QED BY <2>1, <2>2, <2>3
  <1>6. HeadAt(avail_idx) = indices[1]
    BY <1>1 DEF RingInv, HeadsFiled
  <1>7. indices[1] \in Desc /\ request[indices[1]] \in Requests
    <2>1. outstanding[indices[1]] = indices /\ indices # << >> /\ indices[1] \in Desc
      BY <1>1 DEF RingInv, HeadsFiled, TypeOK, DriverTypeOK
    <2> QED BY <2>1 DEF RingInv, RequestsFiled
  <1>8. Pending' = Append(Pending, e)
    <2>1. Pending \in [1 .. n -> Entries] /\ e \in Entries
      BY <1>7, QueueTypes
    <2>2. PICK q : q = Pending'
      OBVIOUS
    <2>3. q = [i \in 1 .. n + 1 |-> Entry(avail_ring[Slot(next_avail + i - 1)])]
      BY <1>1, <1>4, <2>2 DEF Pending, Entry
    <2>4. \A i \in 1 .. n : q[i] = Pending[i]
      BY <1>3, <2>3 DEF Pending
    <2>5. q[n + 1] = e
      BY <1>3, <1>5, <1>6, <2>3 DEF HeadAt
    <2>6. q \in [1 .. n + 1 -> Entries]
      <3>1. \A i \in 1 .. n + 1 : i \in 1 .. n \/ i = n + 1
        BY <1>3
      <3>2. \A i \in 1 .. n + 1 : q[i] \in Entries
        BY <2>1, <2>4, <2>5, <3>1
      <3> QED BY <2>3, <3>2
    <2>7. q = Append(Pending, q[n + 1])
      BY <1>3, <2>1, <2>4, <2>6, OneMore
    <2> QED BY <2>2, <2>5, <2>7
  <1>9. Serving' = Serving /\ Done' = Done
    BY <1>1 DEF Serving, Done, Entry
  <1>10. indices[1] \notin RQ!InFlight
    <2>1. \A c \in Window : HeadAt(c) # indices[1]
      BY <1>1 DEF RingInv, HeadsFiled
    <2>2. \A i \in DOMAIN Pending : Pending[i].id # indices[1]
      BY <2>1, EntriesOfWindow DEF Pending, Entry
    <2>3. \A i \in DOMAIN Done : Done[i].id # indices[1]
      BY <2>1, EntriesOfWindow DEF Done, Entry
    <2>4. \A i \in DOMAIN Serving : Serving[i].id # indices[1]
      BY <2>1, ChainInHand DEF Serving, Entry, InHand
    <2> QED BY <2>2, <2>3, <2>4 DEF RQ!InFlight, RQ!Names
  <1> QED BY <1>7, <1>8, <1>9, <1>10 DEF RQ!Submit, Entry

\* Popping a chain takes the oldest submitted request.
LEMMA PopTakes ==
    ASSUME TypeOK, DescriptorOwnership, RingInv, PopSlot
    PROVE  RQ!Take
  <1> DEFINE n == Available
  <1>1. /\ vpc = "slot" /\ vpc' = "walk" /\ next_avail' = Inc(next_avail)
        /\ next_avail # avail_idx /\ head' = HeadAt(next_avail)
        /\ UNCHANGED <<avail_ring, avail_idx, used_ring, used_idx, request, last_used>>
    BY PopSlotRings DEF PopSlot, sharedByDriver, sharedByDevice, driverVars
  <1>2. next_avail \in Counter /\ avail_idx \in Counter /\ next_avail \in Int
    BY RingTypes, CounterRange
  <1>3. n \in Nat \ {0} /\ n < Modulus /\ n \in Int /\ Modulus \in Int
    BY <1>1, <1>2, QueueTypes, DistFacts, CounterRange DEF Available
  <1>4. Available' = n - 1
    BY <1>1, <1>2, DistMoves DEF Available
  <1>5. Pending # << >> /\ Head(Pending) = Pending[1] /\ Pending' = Tail(Pending)
    <2>1. Pending \in [1 .. n -> Entries]
      BY QueueTypes
    <2>2. PICK q : q = Pending'
      OBVIOUS
    <2>3. q = [i \in 1 .. n - 1 |-> Entry(avail_ring[Slot(Inc(next_avail) + i - 1)])]
      BY <1>1, <1>4, <2>2 DEF Pending, Entry
    <2>4. ASSUME NEW i \in 1 .. n - 1
          PROVE  q[i] = Pending[i + 1] /\ Pending[i + 1] \in Entries
      <3>1. PICK k : k = i - 1
        OBVIOUS
      <3>2. k \in Int /\ 0 <= k /\ k + 1 < Modulus /\ i + 1 \in 1 .. n
        BY <1>3, <2>4, <3>1
      <3>3. Slot(Inc(next_avail) + k) = Slot(next_avail + (k + 1))
        BY <1>2, <3>2, SlotAfterInc
      <3>4. Inc(next_avail) + i - 1 = Inc(next_avail) + k
            /\ next_avail + (i + 1) - 1 = next_avail + (k + 1)
        <4>1. Inc(next_avail) \in Int
          BY <1>2, IncCases, CounterRange
        <4> QED BY <1>2, <1>3, <2>4, <3>1, <4>1
      <3>5. Pending[i + 1] = Entry(avail_ring[Slot(next_avail + (i + 1) - 1)])
        BY <3>2 DEF Pending
      <3> QED BY <2>1, <2>3, <2>4, <3>2, <3>3, <3>4, <3>5
    <2>5. q \in [1 .. n - 1 -> Entries]
      BY <2>3, <2>4
    <2> QED BY <1>3, <2>1, <2>2, <2>4, <2>5, OneLess
  <1>6. Pending[1] = Entry(head')
    <2>1. Pending[1] = Entry(avail_ring[Slot(next_avail + 1 - 1)])
      BY <1>3 DEF Pending
    <2>2. next_avail + 1 - 1 = next_avail
      BY <1>2
    <2> QED BY <1>1, <2>1, <2>2 DEF HeadAt
  <1>7. Serving = << >> /\ Serving' = <<Entry(head')>> /\ Done' = Done
    BY <1>1 DEF Serving, Done, Entry
  <1> QED BY <1>5, <1>6, <1>7 DEF RQ!Take

\* The release store of used.idx completes the request in the device's hands.
LEMMA PublishCompletes ==
    ASSUME TypeOK, DescriptorOwnership, RingInv, PublishUsed
    PROVE  RQ!Complete
  <1> DEFINE n == Dist(used_idx, last_used)
             e == Entry(head)
  <1>1. /\ vpc = "publish" /\ vpc' = "pop"
        /\ UNCHANGED <<avail_ring, avail_idx, used_ring, request, last_used, next_avail>>
        /\ Dist(used_idx', last_used) = n + 1
        /\ used_ring[Slot(used_idx)].id = head
    BY PublishUsedRings DEF PublishUsed, sharedByDriver, addChainVars
  <1>2. /\ used_idx \in Counter /\ last_used \in Counter /\ head \in Desc
        /\ last_used \in Int /\ n \in Nat /\ n \in Int /\ 0 <= n /\ n < Modulus
    <2>1. used_idx \in Counter /\ last_used \in Counter /\ head \in Desc
      BY RingTypes
    <2>2. n \in Counter
      BY <2>1, DistFacts
    <2> QED BY <2>1, <2>2, CounterRange
  <1>3. Slot(last_used + (n + 1) - 1) = Slot(used_idx)
    <2>1. (last_used + n) % Modulus = used_idx
      BY <1>2, Position
    <2>2. Slot((last_used + n) % Modulus) = Slot(last_used + n)
      BY <1>2, Position
    <2>3. last_used + (n + 1) - 1 = last_used + n
      BY <1>2
    <2> QED BY <2>1, <2>2, <2>3
  <1>4. Done' = Append(Done, e)
    <2>1. Done \in [1 .. n -> Entries] /\ e \in Entries
      BY <1>2, QueueTypes
    <2>2. PICK q : q = Done'
      OBVIOUS
    <2>3. q = [i \in 1 .. n + 1 |-> Entry(used_ring[Slot(last_used + i - 1)].id)]
      BY <1>1, <2>2 DEF Done, Entry
    <2>4. \A i \in 1 .. n : q[i] = Done[i]
      BY <1>2, <2>3 DEF Done
    <2>5. q[n + 1] = e
      BY <1>1, <1>2, <1>3, <2>3
    <2>6. q \in [1 .. n + 1 -> Entries]
      <3>1. \A i \in 1 .. n + 1 : i \in 1 .. n \/ i = n + 1
        BY <1>2
      <3>2. \A i \in 1 .. n + 1 : q[i] \in Entries
        BY <2>1, <2>4, <2>5, <3>1
      <3> QED BY <2>3, <3>2
    <2>7. q = Append(Done, q[n + 1])
      BY <1>2, <2>1, <2>4, <2>6, OneMore
    <2> QED BY <2>2, <2>5, <2>7
  <1>5. Done \o <<e>> = Append(Done, e)
    <2>1. Done \in Seq(Entries) /\ e \in Entries
      BY <1>2, QueueTypes
    <2> QED BY <2>1, AppendIsConcat
  <1>6. Serving = <<e>> /\ Serving' = << >>
    BY <1>1 DEF Serving
  <1>7. Pending' = Pending
    BY <1>1 DEF Pending, Available, Entry
  <1> QED BY <1>4, <1>5, <1>6, <1>7 DEF RQ!Complete

\* One iteration of collect_used collects the oldest completion.
LEMMA CollectCollects ==
    ASSUME TypeOK, DescriptorOwnership, RingInv, CollectOne
    PROVE  RQ!Collect
  <1> DEFINE n == Dist(used_idx, last_used)
  <1>1. /\ last_used' = Inc(last_used) /\ last_used # used_idx
        /\ Window' = Window \ {last_used}
        /\ \A c \in Window' : request'[HeadAt(c)] = request[HeadAt(c)]
        /\ UNCHANGED <<avail_ring, avail_idx, used_ring, used_idx, next_avail, head, vpc>>
    BY CollectOneRings
       DEF CollectOne, sharedByDriver, sharedByDevice, deviceVars
  <1>2. /\ used_idx \in Counter /\ last_used \in Counter /\ avail_idx \in Counter
        /\ last_used \in Int /\ n \in Nat \ {0} /\ n \in Int /\ n < Modulus
        /\ Modulus \in Int
    <2>1. used_idx \in Counter /\ last_used \in Counter /\ avail_idx \in Counter
      BY RingTypes
    <2>2. n \in Counter /\ n # 0
      BY <1>1, <2>1, DistFacts
    <2> QED BY <2>1, <2>2, CounterRange
  <1>3. Dist(used_idx, Inc(last_used)) = n - 1
    BY <1>1, <1>2, DistMoves
  <1>4. last_used \notin Between(next_avail, avail_idx)
    <2> SUFFICES ASSUME last_used \in Between(next_avail, avail_idx) PROVE FALSE
      OBVIOUS
    <2>1. /\ Dist(next_avail, last_used) <= Dist(avail_idx, last_used)
          /\ Dist(used_idx, last_used) <= Dist(next_avail, last_used)
      BY DEF RingInv, CountersInOrder
    <2>2. next_avail \in Counter /\ last_used # next_avail
      <3>1. next_avail \in Counter
        BY RingTypes
      <3>2. Dist(next_avail, last_used) \in Int /\ Dist(last_used, last_used) = 0
        BY <1>2, <3>1, DistFacts, CounterRange
      <3> QED BY <1>2, <2>1, <3>1, <3>2
    <2>3. last_used \in Between(last_used, next_avail)
      BY <1>2, <2>2, BetweenFacts
    <2> QED BY <1>2, <2>1, <2>2, <2>3, BetweenParts
  <1>5. InHand => used_idx \in Window'
    BY <1>1, ChainInHand
  <1>6. Done # << >> /\ Done' = Tail(Done)
    <2>1. Done \in [1 .. n -> Entries]
      BY QueueTypes
    <2>2. PICK q : q = Done'
      OBVIOUS
    <2>3. q = [i \in 1 .. n - 1 |->
                 [id |-> used_ring[Slot(Inc(last_used) + i - 1)].id,
                  payload |-> request'[used_ring[Slot(Inc(last_used) + i - 1)].id]]]
      BY <1>1, <1>3, <2>2 DEF Done, Entry
    <2>4. ASSUME NEW i \in 1 .. n - 1
          PROVE  q[i] = Done[i + 1] /\ Done[i + 1] \in Entries
      <3>1. PICK k : k = i - 1
        OBVIOUS
      <3>2. /\ k \in Int /\ 0 <= k /\ k + 1 < Modulus /\ i + 1 \in 1 .. n
            /\ (i + 1) - 1 # 0
        BY <1>2, <2>4, <3>1
      <3>3. Slot(Inc(last_used) + k) = Slot(last_used + (k + 1))
        BY <1>2, <3>2, SlotAfterInc
      <3>4. Inc(last_used) + i - 1 = Inc(last_used) + k
            /\ last_used + (i + 1) - 1 = last_used + (k + 1)
        <4>1. Inc(last_used) \in Int
          BY <1>2, IncCases, CounterRange
        <4> QED BY <1>2, <2>4, <3>1, <4>1
      <3>5. PICK c \in Between(last_used, used_idx) :
               /\ Dist(c, last_used) = (i + 1) - 1
               /\ Slot(last_used + (i + 1) - 1) = Slot(c)
        BY <1>2, <3>2, Reading
      <3>6. c # last_used
        BY <1>2, <3>2, <3>5, DistFacts
      <3>7. c \in Window /\ used_ring[Slot(c)].id = HeadAt(c)
        BY WindowParts DEF RingInv, CompletedInOrder
      <3>8. request'[HeadAt(c)] = request[HeadAt(c)]
        BY <1>1, <3>6, <3>7
      <3>9. Done[i + 1] = Entry(used_ring[Slot(last_used + (i + 1) - 1)].id)
        BY <3>2 DEF Done
      <3>10. Done[i + 1] = [id |-> HeadAt(c), payload |-> request[HeadAt(c)]]
        BY <3>5, <3>7, <3>9 DEF Entry
      <3>11. q[i] = [id |-> HeadAt(c), payload |-> request'[HeadAt(c)]]
        BY <2>3, <2>4, <3>3, <3>4, <3>5, <3>7
      <3> QED BY <2>1, <3>2, <3>8, <3>10, <3>11
    <2>5. q \in [1 .. n - 1 -> Entries]
      BY <2>3, <2>4
    <2> QED BY <1>2, <2>1, <2>2, <2>4, <2>5, OneLess
  <1>7. Pending' = Pending
    <2>1. ASSUME NEW i \in 1 .. Available
          PROVE  Entry(avail_ring[Slot(next_avail + i - 1)])'
                    = Entry(avail_ring[Slot(next_avail + i - 1)])
      <3>1. PICK c \in Between(next_avail, avail_idx) :
              c \in Window /\ avail_ring[Slot(next_avail + i - 1)] = HeadAt(c)
        BY <2>1, EntriesOfWindow
      <3>2. request'[HeadAt(c)] = request[HeadAt(c)]
        BY <1>1, <1>4, <3>1
      <3> QED BY <1>1, <3>1, <3>2 DEF Entry
    <2>2. Available' = Available
      BY <1>1 DEF Available
    <2> QED BY <2>1, <2>2 DEF Pending
  <1>8. Serving' = Serving
    <2>1. InHand => request'[head] = request[head]
      BY <1>1, <1>5, ChainInHand
    <2> QED BY <1>1, <2>1 DEF Serving, InHand, Entry
  <1> QED BY <1>6, <1>7, <1>8 DEF RQ!Collect

\* The other driver actions leave the queues alone.
LEMMA DriverSimulates ==
    ASSUME TypeOK, DescriptorOwnership, RingInv, DriverNext
    PROVE  [RQ!Next]_(RQ!queues)
  <1> USE DEF sharedByDriver, sharedByDevice, deviceVars, addChainVars
  <1>1. ASSUME UNCHANGED <<avail_ring, avail_idx, next_avail, used_ring, used_idx,
                           last_used, request, vpc, head>>
        PROVE  UNCHANGED <<Pending, Serving, Done>>
    BY <1>1 DEF Pending, Serving, Done, Available, Entry
  <1>2. ASSUME NEW b \in Requests, AddChain(b)
        PROVE  UNCHANGED <<Pending, Serving, Done>>
    <2>1. /\ UNCHANGED <<avail_ring, avail_idx, next_avail, used_ring, used_idx,
                         last_used, vpc, head>>
          /\ \A c \in Window : request'[HeadAt(c)] = request[HeadAt(c)]
      BY <1>2, AddChainRings DEF AddChain
    <2> QED BY <2>1, QueuesStay DEF HeadAt, InHand
  <1>3. ASSUME WriteSlot PROVE UNCHANGED <<Pending, Serving, Done>>
    <2>1. /\ UNCHANGED <<avail_idx, next_avail, used_ring, used_idx, last_used,
                         request, vpc, head>>
          /\ avail_ring' = [avail_ring EXCEPT ![Slot(avail_idx)] = indices[1]]
          /\ Adding
      BY <1>3 DEF WriteSlot, Adding
    <2>2. \A c \in Window : Slot(c) # Slot(avail_idx)
      BY <2>1, RoomToAdd, WindowParts DEF RingInv
    <2>3. \A c \in Window : HeadAt(c)' = HeadAt(c)
      BY <2>1, <2>2, RingTypes DEF HeadAt
    <2> QED BY <2>1, <2>3, QueuesStay DEF InHand
  <1>4. CASE PublishIdx
    BY <1>4, PublishSubmits DEF RQ!Next
  <1>5. CASE CollectOne
    BY <1>5, CollectCollects DEF RQ!Next
  <1>6. CASE WriteDescriptor \/ NeedsKick \/ ArmUsedEvent \/ CollectBegin
             \/ WaitForInterrupt \/ TakeInterrupt
    BY <1>1, <1>6 DEF WriteDescriptor, NeedsKick, ArmUsedEvent, CollectBegin,
       WaitForInterrupt, TakeInterrupt, RQ!queues
  <1> QED BY <1>2, <1>3, <1>4, <1>5, <1>6 DEF DriverNext, RQ!queues

\* So do the other device actions.
LEMMA DeviceSimulates ==
    ASSUME TypeOK, DescriptorOwnership, RingInv, DeviceNext
    PROVE  [RQ!Next]_(RQ!queues)
  <1> USE DEF sharedByDriver, sharedByDevice, driverVars, walkVars
  <1>1. ASSUME UNCHANGED <<avail_ring, avail_idx, next_avail, used_ring, used_idx,
                           last_used, request, head>>, InHand' <=> InHand
        PROVE  UNCHANGED <<Pending, Serving, Done>>
    BY <1>1 DEF Pending, Serving, Done, Available, Entry, InHand
  <1>2. CASE PopSlot
    BY <1>2, PopTakes DEF RQ!Next
  <1>3. CASE PublishUsed
    BY <1>3, PublishCompletes DEF RQ!Next
  <1>4. ASSUME Respond PROVE UNCHANGED <<Pending, Serving, Done>>
    <2>1. /\ UNCHANGED <<avail_ring, avail_idx, next_avail, used_idx, last_used,
                         request, head>>
          /\ InHand /\ InHand'
          /\ \A c \in Between(last_used, used_idx) :
                used_ring'[Slot(c)] = used_ring[Slot(c)]
      BY <1>4, RespondRings DEF Respond, InHand
    <2> QED BY <2>1, QueuesStay DEF HeadAt
  <1>5. ASSUME WalkDescriptor PROVE UNCHANGED <<Pending, Serving, Done>>
    <2>1. InHand /\ InHand'
      BY <1>5 DEF WalkDescriptor, InHand
    <2> QED BY <1>1, <1>5, <2>1 DEF WalkDescriptor
  <1>6. CASE TakeKick \/ DisableNotification \/ PopLoad \/ NeedsNotification
             \/ EnableNotification \/ RecheckAvailable
    BY <1>1, <1>6 DEF TakeKick, DisableNotification, PopLoad, NeedsNotification,
       EnableNotification, RecheckAvailable, InHand, deviceVars, RQ!queues
  <1> QED BY <1>2, <1>3, <1>4, <1>5, <1>6 DEF DeviceNext, RQ!queues

\* Seen through its rings the virtqueue is RequestQueue, for every queue size and
\* counter width: requests are taken in the order add_chain published them, each
\* is completed exactly once, and collect_used collects them in order.
THEOREM RequestQueueImplemented == Spec => ImplementsRequestQueue
  <1>1. Init => RQ!Init
    <2> SUFFICES ASSUME Init PROVE RQ!Init
      OBVIOUS
    <2>1. Available = 0 /\ Dist(used_idx, last_used) = 0
      BY CounterArith, DistFacts DEF Init, Available
    <2>2. Pending = << >> /\ Done = << >>
      BY <2>1 DEF Pending, Done
    <2> QED BY <2>2 DEF Init, RQ!Init, Serving
  <1>2. TypeOK /\ DescriptorOwnership /\ RingInv /\ [Next]_vars
          => [RQ!Next]_(RQ!queues)
    <2> SUFFICES ASSUME TypeOK, DescriptorOwnership, RingInv, [Next]_vars
                 PROVE  [RQ!Next]_(RQ!queues)
      OBVIOUS
    <2>1. CASE UNCHANGED vars
      BY <2>1 DEF vars, RQ!queues, Pending, Serving, Done, Available, Entry
    <2> QED BY <2>1, DriverSimulates, DeviceSimulates DEF Next
  <1> QED BY <1>1, <1>2, TypeCorrect, OwnershipInvariant, RingInvariant, PTL
     DEF Spec, ImplementsRequestQueue, RQ!Spec

-----------------------------------------------------------------------------
(***************************************************************************)
(* The doorbells.                                                          *)
(***************************************************************************)
\* A counter that has left the threshold since the last decision has crossed it.
LEMMA DueIsNeeded ==
    ASSUME NEW event \in Counter, NEW new \in Counter, NEW old \in Counter,
           new # event, Dist(new, event) <= Dist(new, old)
    PROVE  need_event(event, new, old)
  <1>1. /\ Dist(new, event) \in Counter /\ Dist(new, event) # 0 /\ Dist(new, old) \in Counter
        /\ 1 \in Counter
    BY DistFacts, CounterRange
  <1>2. Dist(Dist(new, event), 1) = Dist(new, event) - 1
    BY <1>1, DistCases, CounterRange
  <1>3. Dist(new, event) \in Int /\ Dist(new, old) \in Int
    BY <1>1, CounterRange
  <1> QED BY <1>2, <1>3 DEF need_event

\* Why no kick is lost.  Between its decisions the driver has published no more
\* than what is in flight.  A device asleep with its doorbell silent has asked to
\* be told past next_avail, and has seen all but what was published since the
\* driver's last decision.
KickDue ==
    /\ Dist(avail_idx, last_kick) <= Dist(avail_idx, last_used)
    /\ dpc \in {"idle", "collect", "wait"} => last_kick = avail_idx
    /\ EventIdx /\ vpc \in {"recheck", "sleep"} => avail_event = next_avail
    /\ vpc = "sleep" /\ ~kick => Available <= Dist(avail_idx, last_kick)

\* It survives any step that leaves the driver's counters and the sleeping
\* device's alone.
LEMMA KickStays ==
    ASSUME KickDue, UNCHANGED <<avail_idx, last_kick, last_used>>,
           \/ dpc' = dpc
           \/ dpc \in {"idle", "collect", "wait"}
           \/ dpc' \notin {"idle", "collect", "wait"},
           \/ vpc' \notin {"recheck", "sleep"}
           \/ UNCHANGED <<vpc, next_avail, avail_event, kick>>
    PROVE  KickDue'
  BY DEF KickDue, Available

LEMMA PublishIdxKick ==
    ASSUME TypeOK, RingInv, KickDue, PublishIdx
    PROVE  KickDue'
  <1>1. /\ avail_idx' = Inc(avail_idx) /\ dpc = "idx" /\ dpc' = "submitted" /\ Adding
        /\ UNCHANGED <<last_kick, last_used, next_avail, avail_event, kick, vpc>>
    BY DEF PublishIdx, sharedByDevice, deviceVars, Adding
  <1>2. /\ avail_idx \in Counter /\ last_used \in Counter /\ next_avail \in Counter
        /\ last_kick \in Counter
    BY RingTypes
  <1>3. /\ Dist(avail_idx, last_used) \in Int /\ Dist(next_avail, last_used) \in Int
        /\ Dist(avail_idx, last_kick) \in Int /\ Dist(avail_idx, next_avail) \in Int
        /\ 0 <= Dist(next_avail, last_used)
    BY <1>2, DistFacts, CounterRange
  <1>4. Dist(avail_idx, last_used) + 1 < Modulus
    <2>1. Dist(avail_idx, last_used) < QueueSize
      BY <1>1, RoomToAdd DEF RingInv
    <2> QED BY <1>3, <2>1, QueueSizeAssumption, ModulusAssumption
  <1>5. Dist(avail_idx, next_avail) <= Dist(avail_idx, last_used)
    <2>1. Dist(avail_idx, next_avail) = Dist(avail_idx, last_used) - Dist(next_avail, last_used)
      BY <1>2, DistSplit DEF RingInv, CountersInOrder
    <2> QED BY <1>3, <2>1
  <1>6. Dist(avail_idx, last_kick) <= Dist(avail_idx, last_used)
    BY DEF KickDue
  <1>7. /\ Dist(avail_idx, last_kick) + 1 < Modulus
        /\ Dist(avail_idx, next_avail) + 1 < Modulus
    BY <1>3, <1>4, <1>5, <1>6, ModulusAssumption
  <1>8. Dist(avail_idx', last_used) = Dist(avail_idx, last_used) + 1
    BY <1>1, <1>2, <1>4, DistMoves
  <1>9. Dist(avail_idx', last_kick) = Dist(avail_idx, last_kick) + 1
    BY <1>1, <1>2, <1>7, DistMoves
  <1>10. Dist(avail_idx', next_avail) = Dist(avail_idx, next_avail) + 1
    BY <1>1, <1>2, <1>7, DistMoves
  <1>11. vpc = "sleep" /\ ~kick => Dist(avail_idx, next_avail) <= Dist(avail_idx, last_kick)
    BY DEF KickDue, Available
  <1>12. Dist(avail_idx', last_kick') <= Dist(avail_idx', last_used')
    BY <1>1, <1>3, <1>6, <1>8, <1>9
  <1>13. vpc' = "sleep" /\ ~kick' => Available' <= Dist(avail_idx', last_kick')
    BY <1>1, <1>3, <1>9, <1>10, <1>11 DEF Available
  <1> QED BY <1>1, <1>12, <1>13 DEF KickDue

LEMMA NeedsKickKick ==
    ASSUME TypeOK, RingInv, KickDue, NeedsKick
    PROVE  KickDue'
  <1>1. /\ last_kick' = avail_idx /\ kick' = (kick \/ KickNeeded)
        /\ UNCHANGED <<avail_idx, last_used, next_avail, avail_event, vpc>>
    BY DEF NeedsKick, sharedByDriver, sharedByDevice, deviceVars
  <1>2. /\ avail_idx \in Counter /\ next_avail \in Counter /\ last_kick \in Counter
        /\ last_used \in Counter /\ avail_event \in Counter
    BY RingTypes
  <1>3. Dist(avail_idx, avail_idx) = 0 /\ Dist(avail_idx, last_used) >= 0
    BY <1>2, DistFacts, CounterRange
  <1>4. ASSUME vpc = "sleep", ~kick' PROVE Available = 0
    <2>1. ~kick /\ EventIdx /\ ~need_event(next_avail, avail_idx, last_kick)
      BY <1>1, <1>4 DEF KickNeeded, KickDue
    <2>2. Dist(avail_idx, next_avail) <= Dist(avail_idx, last_kick)
      BY <1>4, <2>1 DEF KickDue, Available
    <2>3. avail_idx = next_avail
      BY <1>2, <2>1, <2>2, DueIsNeeded
    <2> QED BY <1>2, <2>3, DistFacts DEF Available
  <1>5. vpc' = "sleep" /\ ~kick' => Available' <= Dist(avail_idx', last_kick')
    BY <1>1, <1>3, <1>4 DEF Available
  <1>6. Dist(avail_idx', last_kick') <= Dist(avail_idx', last_used')
    BY <1>1, <1>3
  <1> QED BY <1>1, <1>5, <1>6 DEF KickDue

LEMMA KickStep ==
    ASSUME TypeOK, RingInv, KickDue, [Next]_vars
    PROVE  KickDue'
  <1> USE DEF sharedByDriver, sharedByDevice, deviceVars, driverVars, addChainVars
  <1>1. CASE PublishIdx
    BY <1>1, PublishIdxKick
  <1>2. CASE NeedsKick
    BY <1>2, NeedsKickKick
  <1>3. CASE CollectOne
    <2>1. /\ dpc = "collect" /\ last_kick = avail_idx
          /\ UNCHANGED <<avail_idx, last_kick, next_avail, avail_event, kick, vpc>>
      BY <1>3 DEF CollectOne, KickDue
    <2>2. Dist(avail_idx, avail_idx) = 0 /\ Dist(avail_idx, last_used') >= 0
      <3>1. avail_idx \in Counter /\ last_used' \in Counter
        BY <1>3, RingTypes, IncCases DEF CollectOne
      <3> QED BY <3>1, DistFacts, CounterRange
    <2> QED BY <2>1, <2>2 DEF KickDue, Available
  <1>4. CASE EnableNotification
    BY <1>4 DEF EnableNotification, KickDue
  <1>5. CASE RecheckAvailable
    <2>1. /\ vpc = "recheck" /\ vpc' = (IF Available # 0 THEN "pop" ELSE "sleep")
          /\ UNCHANGED <<avail_idx, last_kick, last_used, next_avail, avail_event, dpc>>
      BY <1>5 DEF RecheckAvailable
    <2>2. Dist(avail_idx, last_kick) >= 0
      BY RingTypes, DistFacts, CounterRange
    <2> QED BY <2>1, <2>2 DEF KickDue, Available
  <1>6. ASSUME NEW b \in Requests, AddChain(b) PROVE KickDue'
    BY <1>6, KickStays DEF AddChain
  <1>7. CASE WriteDescriptor
    BY <1>7, KickStays DEF WriteDescriptor
  <1>8. CASE WriteSlot
    BY <1>8, KickStays DEF WriteSlot
  <1>9. CASE ArmUsedEvent
    BY <1>9, KickStays DEF ArmUsedEvent
  <1>10. CASE CollectBegin \/ WaitForInterrupt \/ TakeInterrupt
    BY <1>10, KickStays DEF CollectBegin, WaitForInterrupt, TakeInterrupt, LoadUsedIdx
  <1>11. CASE TakeKick \/ PopLoad \/ PopSlot \/ PublishUsed \/ Respond
    BY <1>11, KickStays DEF TakeKick, PopLoad, PopSlot, PublishUsed, Respond
  <1>12. CASE WalkDescriptor
    <2>1. /\ vpc' \in {"walk", "respond"}
          /\ UNCHANGED <<avail_idx, last_kick, last_used, dpc>>
      BY <1>12, Zenon DEF WalkDescriptor
    <2> QED BY <2>1, KickStays
  <1>13. CASE DisableNotification \/ NeedsNotification
    BY <1>13, KickStays DEF DisableNotification, NeedsNotification
  <1>14. CASE UNCHANGED vars
    BY <1>14, KickStays DEF vars
  <1> QED BY <1>1, <1>2, <1>3, <1>4, <1>5, <1>6, <1>7, <1>8, <1>9, <1>10, <1>11,
             <1>12, <1>13, <1>14 DEF Next, DriverNext, DeviceNext

LEMMA InitKick == Init => KickDue
  <1>1. Dist(0, 0) = 0
    BY CounterArith, DistFacts
  <1> QED BY <1>1 DEF Init, KickDue, Available

LEMMA KickDueInvariant == Spec => []KickDue
  <1>1. TypeOK /\ RingInv /\ KickDue /\ [Next]_vars => KickDue'
    BY KickStep
  <1> QED BY <1>1, InitKick, TypeCorrect, RingInvariant, PTL DEF Spec

\* A device asleep with work it has not seen has a ringing doorbell or a driver
\* still to decide, with flags and with EVENT_IDX, for every queue size and
\* counter width (needs_kick against enable_notification and its re-check).
THEOREM KickInvariant == Spec => []NoLostKick
  <1>1. TypeOK /\ KickDue => NoLostKick
    <2> SUFFICES ASSUME TypeOK, KickDue, vpc = "sleep", Available # 0, ~kick,
                        last_kick = avail_idx
                 PROVE  FALSE
      BY DEF NoLostKick
    <2>1. Available <= Dist(avail_idx, avail_idx)
      BY DEF KickDue
    <2>2. Dist(avail_idx, avail_idx) = 0 /\ Available >= 0 /\ Available \in Int
      BY RingTypes, DistFacts, CounterRange DEF Available
    <2> QED BY <2>1, <2>2
  <1> QED BY <1>1, KickDueInvariant, TypeCorrect, PTL

\* Why no interrupt is lost, when used_event is armed with nothing outstanding and
\* no pass completes as many chains as the counter counts.  Between its decisions
\* the device counts every completion since last_used, and the count never wraps.
Claimed == IF Adding THEN 1 ELSE 0
InterruptDue ==
    /\ armed => /\ used_event = last_used
                /\ arrived <=> used_idx # last_used
                /\ arrived => irq \/ Dist(used_idx, last_used) <= num_added
    /\ dpc = "wait" => armed
    /\ dpc = "collect" => ~armed
    /\ vpc \in {"enable", "recheck", "sleep"} => num_added = 0
    /\ num_added + Dist(avail_idx, used_idx) + Claimed < Modulus

\* Room for the chain being added, as a state formula.
HasRoom == Adding => Dist(avail_idx, last_used) < QueueSize

LEMMA RoomInvariant == Spec => []HasRoom
  <1>1. TypeOK /\ RingInv => HasRoom
    BY RoomToAdd DEF RingInv, HasRoom
  <1> QED BY <1>1, TypeCorrect, RingInvariant, PTL

\* What is not completed is no more than what is in flight.
LEMMA InterruptTypes ==
    ASSUME TypeOK, RingInv
    PROVE  /\ num_added \in Int /\ 0 <= num_added /\ num_added < Modulus
           /\ Dist(avail_idx, used_idx) \in Int /\ 0 <= Dist(avail_idx, used_idx)
           /\ Dist(avail_idx, used_idx) <= Dist(avail_idx, last_used)
           /\ Dist(avail_idx, last_used) \in Int
           /\ Dist(used_idx, last_used) \in Int /\ 0 <= Dist(used_idx, last_used)
           /\ Modulus \in Int /\ QueueSize \in Int /\ Claimed \in 0 .. 1
           /\ avail_idx \in Counter /\ used_idx \in Counter /\ last_used \in Counter
           /\ InHand => used_idx # avail_idx
  <1>1. /\ avail_idx \in Counter /\ used_idx \in Counter /\ last_used \in Counter
        /\ next_avail \in Counter /\ num_added \in Counter
    BY RingTypes
  <1>2. /\ num_added \in Int /\ 0 <= num_added /\ num_added < Modulus
        /\ Dist(avail_idx, used_idx) \in Int /\ 0 <= Dist(avail_idx, used_idx)
        /\ Dist(avail_idx, last_used) \in Int
        /\ Dist(next_avail, last_used) \in Int
        /\ Dist(used_idx, last_used) \in Int /\ 0 <= Dist(used_idx, last_used)
        /\ Modulus \in Int /\ QueueSize \in Int
    BY <1>1, DistFacts, CounterRange
  <1>3. Dist(used_idx, last_used) <= Dist(avail_idx, last_used)
    BY <1>2 DEF RingInv, CountersInOrder
  <1>4. Dist(avail_idx, used_idx) = Dist(avail_idx, last_used) - Dist(used_idx, last_used)
    BY <1>1, <1>3, DistSplit
  <1>5. Claimed \in 0 .. 1
    BY DEF Claimed
  <1>6. InHand => used_idx # avail_idx
    BY WindowParts DEF RingInv
  <1>7. Dist(avail_idx, used_idx) <= Dist(avail_idx, last_used)
    BY <1>2, <1>4
  <1> QED BY <1>1, <1>2, <1>5, <1>6, <1>7

\* It survives a step that decides nothing, completes nothing and adds nothing.
LEMMA InterruptStays ==
    ASSUME InterruptDue, UNCHANGED <<avail_idx, used_idx, last_used, used_event, irq,
                                     armed, arrived, num_added, Claimed>>,
           dpc' = dpc \/ dpc' \notin {"wait", "collect"} \/ (dpc' = "wait" /\ armed),
           vpc' = vpc \/ vpc' \notin {"enable", "recheck", "sleep"}
             \/ vpc \in {"enable", "recheck", "sleep"}
    PROVE  InterruptDue'
  BY DEF InterruptDue

LEMMA AddChainInterrupt ==
    ASSUME ShortPasses, TypeOK, RingInv, HasRoom', InterruptDue,
           NEW b \in Requests, AddChain(b)
    PROVE  InterruptDue'
  <1>1. /\ ~Adding /\ Adding' /\ num_added + QueueSize < Modulus /\ dpc' = "desc"
        /\ UNCHANGED <<avail_idx, used_idx, last_used, used_event, irq, armed, arrived,
                       num_added, vpc>>
    BY DEF AddChain, Adding, sharedByDriver, sharedByDevice, deviceVars
  <1>2. Dist(avail_idx, last_used) < QueueSize
    BY <1>1 DEF HasRoom
  <1>3. num_added + Dist(avail_idx, used_idx) + 1 < Modulus
    BY <1>1, <1>2, InterruptTypes
  <1>4. (num_added + Dist(avail_idx, used_idx) + Claimed)'
            = num_added + Dist(avail_idx, used_idx) + 1
    BY <1>1 DEF Claimed
  <1> QED BY <1>1, <1>3, <1>4 DEF InterruptDue

LEMMA PublishIdxInterrupt ==
    ASSUME TypeOK, RingInv, InterruptDue, PublishIdx
    PROVE  InterruptDue'
  <1>1. /\ Adding /\ ~Adding' /\ dpc' = "submitted" /\ avail_idx' = Inc(avail_idx)
        /\ UNCHANGED <<used_idx, last_used, used_event, irq, armed, arrived,
                       num_added, vpc>>
    BY DEF PublishIdx, Adding, sharedByDevice, deviceVars
  <1>2. num_added + Dist(avail_idx, used_idx) + 1 < Modulus
    BY <1>1 DEF InterruptDue, Claimed
  <1>3. Dist(avail_idx, used_idx) + 1 < Modulus
    BY <1>2, InterruptTypes
  <1>4. Dist(avail_idx', used_idx) = Dist(avail_idx, used_idx) + 1
    BY <1>1, <1>3, InterruptTypes, DistMoves
  <1>5. (num_added + Dist(avail_idx, used_idx) + Claimed)'
            = num_added + (Dist(avail_idx, used_idx) + 1) + 0
    BY <1>1, <1>4 DEF Claimed
  <1>6. num_added + (Dist(avail_idx, used_idx) + 1) + 0 < Modulus
    BY <1>2, InterruptTypes
  <1> QED BY <1>1, <1>5, <1>6 DEF InterruptDue

LEMMA ArmInterrupt ==
    ASSUME ArmDrained, TypeOK, RingInv, InterruptDue, ArmUsedEvent
    PROVE  InterruptDue'
  <1>1. /\ used_event' = last_used /\ armed' = TRUE /\ arrived' = FALSE /\ dpc = "idle"
        /\ UNCHANGED <<avail_idx, used_idx, last_used, irq, num_added, vpc, dpc>>
        /\ \A d \in Desc : outstanding[d] = << >>
    BY DEF ArmUsedEvent, sharedByDevice, deviceVars
  <1>2. Window = {}
    BY <1>1, RingTypes DEF RingInv, HeadsFiled
  <1>3. avail_idx = last_used
    BY <1>2, InterruptTypes, BetweenFacts DEF Window
  <1>4. used_idx = last_used
    <2>1. Dist(avail_idx, last_used) = 0
      BY <1>3, InterruptTypes, DistFacts
    <2>2. Dist(used_idx, last_used) = 0
      <3>1. /\ Dist(used_idx, last_used) <= Dist(next_avail, last_used)
            /\ Dist(next_avail, last_used) <= Dist(avail_idx, last_used)
            /\ Dist(next_avail, last_used) \in Int
        BY RingTypes, DistFacts, CounterRange DEF RingInv, CountersInOrder
      <3> QED BY <2>1, <3>1, InterruptTypes
    <2> QED BY <2>2, InterruptTypes, DistFacts
  <1>5. (Claimed' = Claimed)
    BY <1>1 DEF Claimed, Adding
  <1> QED BY <1>1, <1>4, <1>5 DEF InterruptDue

\* collect_used, begun by polling or by the interrupt.
LEMMA LoadInterrupt ==
    ASSUME InterruptDue, CollectBegin \/ TakeInterrupt
    PROVE  InterruptDue'
  <1>1. /\ armed' = (armed /\ used_idx = last_used)
        /\ dpc' = (IF used_idx = last_used THEN "idle" ELSE "collect")
        /\ dpc \in {"idle", "wait"}
        /\ UNCHANGED <<avail_idx, used_idx, last_used, used_event, arrived, num_added, vpc>>
    BY DEF CollectBegin, TakeInterrupt, LoadUsedIdx, sharedByDriver, sharedByDevice,
           deviceVars
  <1>2. Claimed' = Claimed
    BY <1>1 DEF Claimed, Adding
  <1> QED BY <1>1, <1>2 DEF InterruptDue

LEMMA PublishUsedInterrupt ==
    ASSUME TypeOK, RingInv, InterruptDue, PublishUsed
    PROVE  InterruptDue'
  <1>1. /\ used_idx' = Inc(used_idx) /\ num_added' = Inc(num_added) /\ arrived' = TRUE
        /\ vpc' = "pop" /\ InHand
        /\ UNCHANGED <<avail_idx, last_used, used_event, irq, armed, dpc>>
        /\ Dist(used_idx', last_used) = Dist(used_idx, last_used) + 1
    BY PublishUsedRings DEF PublishUsed, InHand, sharedByDriver
  <1>2. used_idx # avail_idx /\ num_added \in Counter
    BY <1>1, InterruptTypes, RingTypes
  <1>3. Dist(avail_idx, used_idx) # 0
    BY <1>2, InterruptTypes, DistFacts
  <1>4. num_added + Dist(avail_idx, used_idx) + Claimed < Modulus
    BY DEF InterruptDue
  <1>5. num_added + 1 # Modulus
    BY <1>3, <1>4, InterruptTypes
  <1>6. num_added' = num_added + 1
    BY <1>1, <1>2, <1>5, IncCases
  <1>7. Dist(avail_idx, used_idx') = Dist(avail_idx, used_idx) - 1
    BY <1>1, <1>2, InterruptTypes, DistMoves
  <1>8. num_added' + Dist(avail_idx', used_idx') + Claimed' < Modulus
    <2>1. Claimed' = Claimed
      BY <1>1 DEF Claimed, Adding
    <2>2. (num_added + 1) + (Dist(avail_idx, used_idx) - 1) + Claimed < Modulus
      BY <1>4, InterruptTypes
    <2> QED BY <1>1, <1>6, <1>7, <2>1, <2>2
  <1>9. ASSUME armed
        PROVE  /\ used_idx' # last_used
               /\ irq \/ Dist(used_idx', last_used) <= num_added'
    <2>1. used_idx' # last_used
      <3>1. Dist(used_idx', last_used) # 0
        BY <1>1, InterruptTypes
      <3>2. Dist(last_used, last_used) = 0
        BY InterruptTypes, DistFacts
      <3> QED BY <3>1, <3>2
    <2>2. CASE arrived
      <3>1. irq \/ Dist(used_idx, last_used) <= num_added
        BY <1>9, <2>2 DEF InterruptDue
      <3> QED BY <1>1, <1>6, <2>1, <3>1, InterruptTypes
    <2>3. CASE ~arrived
      <3>1. used_idx = last_used
        BY <1>9, <2>3 DEF InterruptDue
      <3>2. Dist(used_idx, last_used) = 0
        BY <3>1, InterruptTypes, DistFacts
      <3> QED BY <1>1, <1>6, <2>1, <3>2, InterruptTypes
    <2> QED BY <2>2, <2>3
  <1> QED BY <1>1, <1>8, <1>9 DEF InterruptDue

LEMMA DecideInterrupt ==
    ASSUME TypeOK, RingInv, InterruptDue, NeedsNotification
    PROVE  InterruptDue'
  <1>1. /\ irq' = (irq \/ InterruptNeeded) /\ num_added' = 0 /\ vpc' = "enable"
        /\ UNCHANGED <<avail_idx, used_idx, last_used, used_event, armed, arrived, dpc>>
    BY DEF NeedsNotification, sharedByDriver, sharedByDevice, driverVars
  <1>2. ASSUME armed, arrived PROVE irq'
    <2>1. CASE irq
      BY <1>1, <2>1
    <2>2. CASE ~irq
      <3>1. /\ used_event = last_used /\ used_idx # last_used
            /\ Dist(used_idx, last_used) <= num_added
        BY <1>2, <2>2 DEF InterruptDue
      <3>2. num_added \in Counter /\ Dist(used_idx, num_added) \in Counter
            /\ Dist(used_idx, Dist(used_idx, num_added)) = num_added
        BY RingTypes, DistFacts
      <3>3. need_event(last_used, used_idx, Dist(used_idx, num_added))
        BY <3>1, <3>2, InterruptTypes, DueIsNeeded
      <3> QED BY <1>1, <3>1, <3>3 DEF InterruptNeeded
    <2> QED BY <2>1, <2>2
  <1>3. 0 + Dist(avail_idx, used_idx) + Claimed < Modulus
    BY InterruptTypes DEF InterruptDue
  <1>4. Claimed' = Claimed
    BY <1>1 DEF Claimed, Adding
  <1> QED BY <1>1, <1>2, <1>3, <1>4 DEF InterruptDue

LEMMA InterruptStep ==
    ASSUME ArmDrained, ShortPasses,
           TypeOK, RingInv, HasRoom', InterruptDue, [Next]_vars
    PROVE  InterruptDue'
  <1> USE DEF sharedByDriver, sharedByDevice, deviceVars, driverVars, addChainVars
  <1>1. ASSUME NEW b \in Requests, AddChain(b) PROVE InterruptDue'
    BY <1>1, AddChainInterrupt
  <1>2. CASE PublishIdx
    BY <1>2, PublishIdxInterrupt
  <1>3. CASE ArmUsedEvent
    BY <1>3, ArmInterrupt
  <1>4. CASE CollectBegin \/ TakeInterrupt
    BY <1>4, LoadInterrupt
  <1>5. CASE PublishUsed
    BY <1>5, PublishUsedInterrupt
  <1>6. CASE NeedsNotification
    BY <1>6, DecideInterrupt
  <1>7. CASE CollectOne
    <2>1. /\ dpc = "collect" /\ dpc' \in {"idle", "collect"} /\ ~armed
          /\ UNCHANGED <<avail_idx, used_idx, irq, armed, arrived, num_added, vpc>>
      BY <1>7 DEF CollectOne, InterruptDue
    <2>2. Claimed' = Claimed
      BY <2>1 DEF Claimed, Adding
    <2> QED BY <2>1, <2>2 DEF InterruptDue
  <1>8. CASE WriteDescriptor
    BY <1>8, InterruptStays DEF WriteDescriptor, Adding, Claimed
  <1>9. CASE WriteSlot
    BY <1>9, InterruptStays DEF WriteSlot, Adding, Claimed
  <1>10. CASE NeedsKick
    BY <1>10, InterruptStays DEF NeedsKick, Adding, Claimed
  <1>11. CASE WaitForInterrupt
    BY <1>11, InterruptStays DEF WaitForInterrupt, Adding, Claimed
  <1>12. CASE TakeKick \/ PopLoad \/ PopSlot \/ Respond
    BY <1>12, InterruptStays DEF TakeKick, PopLoad, PopSlot, Respond, Adding, Claimed
  <1>13. CASE WalkDescriptor
    <2>1. /\ vpc' \in {"walk", "respond"}
          /\ UNCHANGED <<avail_idx, used_idx, last_used, used_event, irq, armed, arrived,
                         num_added, dpc>>
      BY <1>13, Zenon DEF WalkDescriptor
    <2> QED BY <2>1, InterruptStays DEF Adding, Claimed
  <1>14. CASE DisableNotification
    BY <1>14, InterruptStays DEF DisableNotification, Adding, Claimed
  <1>15. CASE EnableNotification \/ RecheckAvailable
    BY <1>15, InterruptStays DEF EnableNotification, RecheckAvailable, Adding, Claimed
  <1>16. CASE UNCHANGED vars
    BY <1>16, InterruptStays DEF vars, Adding, Claimed
  <1> QED BY <1>1, <1>2, <1>3, <1>4, <1>5, <1>6, <1>7, <1>8, <1>9, <1>10, <1>11,
             <1>12, <1>13, <1>14, <1>15, <1>16 DEF Next, DriverNext, DeviceNext

LEMMA InitInterrupt == Init => InterruptDue
  <1>1. Dist(0, 0) = 0 /\ 0 + 0 + 0 < Modulus
    BY CounterArith, DistFacts, CounterRange
  <1> QED BY <1>1 DEF Init, InterruptDue, Claimed, Adding

LEMMA InterruptDueInvariant ==
    ASSUME ArmDrained, ShortPasses
    PROVE  Spec => []InterruptDue
  <1>1. TypeOK /\ RingInv /\ HasRoom' /\ InterruptDue /\ [Next]_vars => InterruptDue'
    BY InterruptStep
  <1> QED BY <1>1, InitInterrupt, TypeCorrect, RingInvariant, RoomInvariant, PTL
     DEF Spec

\* A driver that arms used_event with nothing outstanding, as bench_notification
\* does, and waits has its interrupt pending once the device has decided on a
\* completion that arrived since; for every queue size and counter width, when
\* the driver lets each pass end before it has completed Modulus chains.
THEOREM InterruptInvariant ==
    ASSUME ArmDrained, ShortPasses
    PROVE  Spec => []NoLostInterrupt
  <1>1. TypeOK /\ RingInv /\ InterruptDue => NoLostInterrupt
    <2> SUFFICES ASSUME TypeOK, RingInv, InterruptDue, dpc = "wait", arrived, ~irq,
                        vpc \in {"enable", "recheck", "sleep"}
                 PROVE  FALSE
      BY DEF NoLostInterrupt
    <2>1. num_added = 0 /\ used_idx # last_used /\ Dist(used_idx, last_used) <= num_added
      BY DEF InterruptDue
    <2> QED BY <2>1, InterruptTypes, DistFacts
  <1> QED BY <1>1, InterruptDueInvariant, TypeCorrect, RingInvariant, PTL

-----------------------------------------------------------------------------
(***************************************************************************)
(* No chain is orphaned, and the two sides never sleep on each other.      *)
(***************************************************************************)
\* A chain the driver remembers is the one being added or has a position in the
\* window, by which it will come back.
ChainsInFlight ==
    \A h \in Desc : outstanding[h] # << >> =>
        \/ Adding /\ h = indices[1]
        \/ \E c \in Window : HeadAt(c) = h

\* A step that leaves the chains and their positions alone.
LEMMA FlightStays ==
    ASSUME ChainsInFlight, Adding' <=> Adding,
           UNCHANGED <<outstanding, indices, avail_ring, avail_idx, last_used>>
    PROVE  ChainsInFlight'
  <1>1. Window' = Window /\ \A c : HeadAt(c)' = HeadAt(c)
    BY DEF Window, HeadAt
  <1> QED BY <1>1 DEF ChainsInFlight

\* The new chain is the one being added, and there was none before.
LEMMA AddChainFlight ==
    ASSUME TypeOK, ChainsInFlight, NEW b \in Requests, AddChain(b)
    PROVE  ChainsInFlight'
  <1> DEFINE popped == [i \in 1 .. Len(b) |-> free_descs[Len(free_descs) - i + 1]]
  <1>1. /\ outstanding' = [outstanding EXCEPT ![popped[1]] = popped]
        /\ indices' = popped /\ Adding' /\ ~Adding
        /\ UNCHANGED <<avail_ring, avail_idx, last_used>>
    BY DEF AddChain, Adding, sharedByDriver, sharedByDevice
  <1> HIDE DEF popped
  <1>2. Window' = Window /\ \A c : HeadAt(c)' = HeadAt(c)
    BY <1>1 DEF Window, HeadAt
  <1>3. ASSUME NEW h \in Desc, outstanding'[h] # << >>, h # indices'[1]
        PROVE  \E c \in Window : HeadAt(c) = h
    <2>1. outstanding'[h] = outstanding[h]
      BY <1>1, <1>3, RingTypes
    <2> QED BY <1>1, <1>3, <2>1 DEF ChainsInFlight
  <1> QED BY <1>1, <1>2, <1>3 DEF ChainsInFlight

\* The slot written is of no position of the window.
LEMMA WriteSlotFlight ==
    ASSUME TypeOK, RingInv, ChainsInFlight, WriteSlot
    PROVE  ChainsInFlight'
  <1>1. /\ avail_ring' = [avail_ring EXCEPT ![Slot(avail_idx)] = indices[1]]
        /\ Adding /\ Adding'
        /\ UNCHANGED <<outstanding, indices, avail_idx, last_used>>
    BY DEF WriteSlot, addChainVars, Adding
  <1>2. Dist(avail_idx, last_used) < QueueSize
    BY <1>1, RoomToAdd DEF RingInv
  <1>3. \A c \in Window : Slot(c) # Slot(avail_idx) /\ Slot(c) \in Desc
    BY <1>2, WindowParts, RingTypes DEF RingInv
  <1>4. Window' = Window /\ \A c \in Window : HeadAt(c)' = HeadAt(c)
    BY <1>1, <1>3, RingTypes DEF Window, HeadAt
  <1> QED BY <1>1, <1>4 DEF ChainsInFlight

\* The chain that was being added has got its position.
LEMMA PublishIdxFlight ==
    ASSUME TypeOK, RingInv, ChainsInFlight, PublishIdx
    PROVE  ChainsInFlight'
  <1>1. /\ avail_idx' = Inc(avail_idx) /\ dpc = "idx" /\ Adding
        /\ UNCHANGED <<outstanding, avail_ring, last_used>>
    BY DEF PublishIdx, Adding
  <1>2. Dist(avail_idx, last_used) < QueueSize
    BY <1>1, RoomToAdd DEF RingInv
  <1>3. avail_idx \in Counter /\ last_used \in Counter
        /\ Dist(avail_idx, last_used) \in Int
    BY RingTypes, DistFacts, CounterRange
  <1>4. Dist(avail_idx, last_used) + 1 < Modulus
    BY <1>2, <1>3, QueueSizeAssumption, ModulusAssumption
  <1>5. Window' = Window \cup {avail_idx}
    <2>1. Between(last_used, Inc(avail_idx)) = Between(last_used, avail_idx) \cup {avail_idx}
      BY <1>3, <1>4, BetweenFacts
    <2> QED BY <1>1, <2>1 DEF Window
  <1>6. HeadAt(avail_idx) = indices[1] /\ \A c : HeadAt(c)' = HeadAt(c)
    BY <1>1 DEF RingInv, HeadsFiled, HeadAt
  <1> QED BY <1>1, <1>5, <1>6 DEF ChainsInFlight

\* The position that leaves the window is that of the chain forgotten.
LEMMA CollectOneFlight ==
    ASSUME TypeOK, RingInv, ChainsInFlight, CollectOne
    PROVE  ChainsInFlight'
  <1> DEFINE id == used_ring[Slot(last_used)].id
  <1>1. /\ outstanding' = [outstanding EXCEPT ![id] = << >>]
        /\ ~Adding
        /\ UNCHANGED <<avail_ring, avail_idx>>
    BY DEF CollectOne, sharedByDriver, Adding
  <1>2. id = HeadAt(last_used) /\ Window' = Window \ {last_used}
    BY CollectOneRings
  <1> HIDE DEF id
  <1>3. ASSUME NEW h \in Desc, outstanding'[h] # << >>
        PROVE  \E c \in Window' : HeadAt(c)' = h
    <2>1. h # id /\ outstanding[h] # << >>
      BY <1>1, <1>3, RingTypes
    <2>2. PICK c \in Window : HeadAt(c) = h
      BY <1>1, <2>1 DEF ChainsInFlight
    <2>3. HeadAt(c)' = h /\ c # last_used
      BY <1>1, <1>2, <2>1, <2>2 DEF HeadAt
    <2> QED BY <1>2, <2>2, <2>3
  <1> QED BY <1>3 DEF ChainsInFlight

\* Every step keeps it.
LEMMA FlightStep ==
    TypeOK /\ RingInv /\ ChainsInFlight /\ [Next]_vars => ChainsInFlight'
  <1> SUFFICES ASSUME TypeOK, RingInv, ChainsInFlight, [Next]_vars
               PROVE  ChainsInFlight'
    OBVIOUS
  <1> USE DEF sharedByDriver, sharedByDevice, driverVars, addChainVars, Adding
  <1>1. CASE UNCHANGED vars
    BY <1>1, FlightStays DEF vars
  <1>2. CASE DriverNext
    <2>1. ASSUME NEW b \in Requests, AddChain(b) PROVE ChainsInFlight'
      BY <2>1, AddChainFlight
    <2>2. CASE WriteDescriptor
      BY <2>2, FlightStays DEF WriteDescriptor
    <2>3. CASE WriteSlot
      BY <2>3, WriteSlotFlight
    <2>4. CASE PublishIdx
      BY <2>4, PublishIdxFlight
    <2>5. CASE NeedsKick
      BY <2>5, FlightStays DEF NeedsKick
    <2>6. CASE ArmUsedEvent
      BY <2>6, FlightStays DEF ArmUsedEvent
    <2>7. CASE CollectBegin
      BY <2>7, FlightStays DEF CollectBegin, LoadUsedIdx
    <2>8. CASE CollectOne
      BY <2>8, CollectOneFlight
    <2>9. CASE WaitForInterrupt
      BY <2>9, FlightStays DEF WaitForInterrupt
    <2>10. CASE TakeInterrupt
      BY <2>10, FlightStays DEF TakeInterrupt, LoadUsedIdx
    <2> QED BY <1>2, <2>1, <2>2, <2>3, <2>4, <2>5, <2>6, <2>7, <2>8, <2>9, <2>10
            DEF DriverNext
  <1>3. CASE DeviceNext
    <2>1. UNCHANGED <<dpc, outstanding, indices, avail_ring, avail_idx, last_used>>
      BY <1>3 DEF DeviceNext, TakeKick, DisableNotification, PopLoad, PopSlot,
           WalkDescriptor, Respond, PublishUsed, NeedsNotification,
           EnableNotification, RecheckAvailable
    <2> QED BY <2>1, FlightStays
  <1> QED BY <1>1, <1>2, <1>3 DEF Next

\* The driver forgets no chain and the rings lose none: each chain it remembers,
\* but for one it is still adding, has its position between last_used and
\* avail_idx, for every queue size and counter width (Driver.outstanding,
\* add_chain, collect_used, process).
THEOREM FlightInvariant == Spec => []ChainsInFlight
  <1>1. Init => ChainsInFlight
    <2>1. ASSUME Init, NEW h \in Desc PROVE outstanding[h] = << >>
      BY <2>1 DEF Init
    <2> QED BY <2>1 DEF ChainsInFlight
  <1> QED BY <1>1, FlightStep, TypeCorrect, RingInvariant, PTL DEF Spec

\* The driver waits only for a chain.
WaitsForChain == dpc = "wait" => \E h \in Desc : outstanding[h] # << >>

LEMMA WaitsInvariant == Spec => []WaitsForChain
  <1>1. Init => WaitsForChain
    BY DEF Init, WaitsForChain
  <1>2. WaitsForChain /\ [Next]_vars => WaitsForChain'
    <2> SUFFICES ASSUME WaitsForChain, [Next]_vars, dpc' = "wait"
                 PROVE  \E h \in Desc : outstanding'[h] # << >>
      BY DEF WaitsForChain
    <2> USE DEF driverVars
    <2>1. CASE WaitForInterrupt
      BY <2>1 DEF WaitForInterrupt
    <2>2. CASE DeviceNext
      <3>1. UNCHANGED <<dpc, outstanding>>
        BY <2>2 DEF DeviceNext, TakeKick, DisableNotification, PopLoad, PopSlot,
             WalkDescriptor, Respond, PublishUsed, NeedsNotification,
             EnableNotification, RecheckAvailable
      <3> QED BY <3>1 DEF WaitsForChain
    <2>3. CASE UNCHANGED vars
      BY <2>3 DEF vars, WaitsForChain
    <2> QED BY <2>1, <2>2, <2>3 DEF Next, DriverNext, AddChain, WriteDescriptor,
          WriteSlot, PublishIdx, NeedsKick, ArmUsedEvent, CollectBegin, CollectOne,
          TakeInterrupt, LoadUsedIdx
  <1> QED BY <1>1, <1>2, PTL DEF Spec

\* The used.idx the driver knows of: while it collects, the one it loaded.
Known == IF dpc = "collect" THEN used_seen ELSE last_used

\* Without EVENT_IDX the device interrupts after every pass, so that what the
\* driver does not know of has been announced or will be.
Announced ==
    ~EventIdx /\ used_idx # Known =>
        irq \/ vpc \in {"pop", "slot", "walk", "respond", "publish", "notify"}

LEMMA AnnouncedInvariant == Spec => []Announced
  <1>1. Init => Announced
    BY DEF Init, Announced, Known
  <1>2. Announced /\ [Next]_vars => Announced'
    <2> SUFFICES ASSUME Announced, [Next]_vars, ~EventIdx PROVE Announced'
      BY DEF Announced
    <2> USE DEF sharedByDriver, sharedByDevice, driverVars, deviceVars, addChainVars,
                walkVars, Known
    <2>1. CASE DriverNext
      <3>1. ASSUME NEW b \in Requests, AddChain(b) PROVE Announced'
        BY <3>1 DEF AddChain, Announced
      <3>2. CASE WriteDescriptor
        BY <3>2 DEF WriteDescriptor, Announced
      <3>3. CASE WriteSlot
        BY <3>3 DEF WriteSlot, Announced
      <3>4. CASE PublishIdx
        BY <3>4 DEF PublishIdx, Announced
      <3>5. CASE NeedsKick
        BY <3>5 DEF NeedsKick, Announced
      <3>6. CASE ArmUsedEvent
        BY <3>6 DEF ArmUsedEvent, Announced
      <3>7. CASE CollectBegin
        BY <3>7 DEF CollectBegin, LoadUsedIdx, Announced
      <3>8. CASE CollectOne
        BY <3>8 DEF CollectOne, Announced
      <3>9. CASE WaitForInterrupt
        BY <3>9 DEF WaitForInterrupt, Announced
      <3>10. CASE TakeInterrupt
        BY <3>10 DEF TakeInterrupt, LoadUsedIdx, Announced
      <3> QED BY <2>1, <3>1, <3>2, <3>3, <3>4, <3>5, <3>6, <3>7, <3>8, <3>9, <3>10
              DEF DriverNext
    <2>2. CASE DeviceNext
      <3>1. CASE NeedsNotification
        BY <3>1 DEF NeedsNotification, InterruptNeeded, Announced
      <3>2. CASE ~NeedsNotification
        BY <2>2, <3>2 DEF DeviceNext, TakeKick, DisableNotification, PopLoad, PopSlot,
             WalkDescriptor, Respond, PublishUsed, EnableNotification,
             RecheckAvailable, Announced
      <3> QED BY <3>1, <3>2
    <2>3. CASE UNCHANGED vars
      BY <2>3 DEF vars, Announced
    <2> QED BY <2>1, <2>2, <2>3 DEF Next
  <1> QED BY <1>1, <1>2, PTL DEF Spec

\* The driver waits for an interrupt, the device for a kick, and neither is
\* pending: no step could follow.
Standstill == dpc = "wait" /\ vpc = "sleep" /\ ~kick /\ ~irq

\* Driver and device never sleep on each other, without EVENT_IDX whatever the
\* callers do and with it when they are like bench_notification's: a driver that
\* waits has a chain in flight, a device asleep unrung has seen and completed
\* every chain published, and then the interrupt is pending.
THEOREM NeverStandstill ==
    ASSUME EventIdx => ArmDrained /\ ShortPasses
    PROVE  Spec => []~Standstill
  <1>1. /\ TypeOK /\ RingInv /\ KickDue /\ ChainsInFlight /\ WaitsForChain /\ Announced
        /\ EventIdx => InterruptDue
        => ~Standstill
    <2> SUFFICES ASSUME TypeOK, RingInv, KickDue, ChainsInFlight, WaitsForChain,
                        Announced, EventIdx => InterruptDue, Standstill
                 PROVE  FALSE
      OBVIOUS
    <2>1. dpc = "wait" /\ vpc = "sleep" /\ ~kick /\ ~irq
      BY DEF Standstill
    <2>2. /\ avail_idx \in Counter /\ used_idx \in Counter /\ next_avail \in Counter
          /\ last_used \in Counter
      BY RingTypes
    <2>3. next_avail = used_idx
      BY <2>1 DEF RingInv, CountersInOrder, InHand
    <2>4. avail_idx = next_avail
      <3>1. last_kick = avail_idx /\ Available <= Dist(avail_idx, last_kick)
        BY <2>1 DEF KickDue
      <3>2. Dist(avail_idx, avail_idx) = 0
        BY <2>2, DistFacts
      <3>3. Dist(avail_idx, next_avail) <= 0
        BY <3>1, <3>2 DEF Available
      <3>4. avail_idx # next_avail => Dist(avail_idx, next_avail) > 0
            /\ Dist(avail_idx, next_avail) \in Int
        BY <2>2, DistFacts, CounterRange
      <3> QED BY <3>3, <3>4
    <2>5. used_idx # last_used
      <3>1. PICK h \in Desc : outstanding[h] # << >>
        BY <2>1 DEF WaitsForChain
      <3>2. PICK c \in Window : HeadAt(c) = h
        BY <2>1, <3>1 DEF ChainsInFlight, Adding
      <3>3. c \in Counter /\ Dist(c, last_used) < Dist(avail_idx, last_used)
        BY <3>2 DEF Window, Between
      <3>4. Dist(c, last_used) >= 0 /\ Dist(last_used, last_used) = 0
            /\ Dist(c, last_used) \in Int
        BY <2>2, <3>3, DistFacts, CounterRange
      <3>5. avail_idx # last_used
        BY <3>3, <3>4
      <3> QED BY <2>3, <2>4, <3>5
    <2>6. CASE EventIdx
      <3>1. arrived /\ num_added = 0 /\ Dist(used_idx, last_used) <= num_added
        BY <2>1, <2>5, <2>6 DEF InterruptDue
      <3>2. Dist(used_idx, last_used) > 0 /\ Dist(used_idx, last_used) \in Int
        BY <2>2, <2>5, DistFacts, CounterRange
      <3> QED BY <3>1, <3>2
    <2>7. CASE ~EventIdx
      BY <2>1, <2>5, <2>7 DEF Announced, Known
    <2> QED BY <2>6, <2>7
  <1>2. CASE EventIdx
    <2>1. Spec => []InterruptDue
      BY <1>2, InterruptDueInvariant
    <2>2. TypeOK /\ RingInv /\ KickDue /\ ChainsInFlight /\ WaitsForChain /\ Announced
          /\ InterruptDue => ~Standstill
      BY <1>1
    <2> QED BY <2>1, <2>2, TypeCorrect, RingInvariant, KickDueInvariant, FlightInvariant,
          WaitsInvariant, AnnouncedInvariant, PTL
  <1>3. CASE ~EventIdx
    <2>1. TypeOK /\ RingInv /\ KickDue /\ ChainsInFlight /\ WaitsForChain /\ Announced
          => ~Standstill
      BY <1>1, <1>3
    <2> QED BY <2>1, TypeCorrect, RingInvariant, KickDueInvariant, FlightInvariant,
          WaitsInvariant, AnnouncedInvariant, PTL
  <1> QED BY <1>2, <1>3
=============================================================================

----------------------------- MODULE ArenaProofs ----------------------------
(* Theorems about the layout of a queue and the arena after it, for every   *)
(* base, queue size, arena end and sequence of allocations.                 *)
EXTENDS Arena, TLAPS

\* Rounding up to 2, 4, 8 or 16 never goes down, and gives a multiple.
LEMMA AlignUp ==
    ASSUME NEW v \in Nat
    PROVE  /\ align_up(v, 2) \in Nat /\ v <= align_up(v, 2) /\ align_up(v, 2) % 2 = 0
           /\ align_up(v, 4) \in Nat /\ v <= align_up(v, 4) /\ align_up(v, 4) % 4 = 0
           /\ align_up(v, 8) \in Nat /\ v <= align_up(v, 8)
           /\ align_up(v, 16) \in Nat /\ v <= align_up(v, 16) /\ align_up(v, 16) % 16 = 0
  BY DEF align_up

\* What the rest of the proof needs to know of a layout: the order of the
\* three areas, with room for what each holds, and their alignment.
Ordered(l) ==
    /\ l.queue_size \in Nat \ {0}
    /\ l.desc_table \in Nat /\ l.avail_ring \in Nat /\ l.used_ring \in Nat
    /\ l.desc_table + 16 * l.queue_size <= l.avail_ring
    /\ l.avail_ring + 4 + 2 * l.queue_size + 2 <= l.used_ring
    /\ l.desc_table % 16 = 0 /\ l.avail_ring % 2 = 0 /\ l.used_ring % 4 = 0

\* VirtqLayout::new orders and aligns the three areas.
LEMMA NewLayoutOrdered ==
    ASSUME NEW base \in Nat, NEW qs \in Nat \ {0}
    PROVE  Ordered(NewLayout(base, qs))
  <1> DEFINE d == align_up(base, 16)
             a == align_up(d + 16 * qs, 2)
             u == align_up(avail_end(a, qs), 4)
  <1>1. d \in Nat /\ d % 16 = 0
    BY AlignUp
  <1> HIDE DEF d
  <1>2. d + 16 * qs \in Nat
    BY <1>1
  <1>3. a \in Nat /\ d + 16 * qs <= a /\ a % 2 = 0
    BY <1>2, AlignUp
  <1> HIDE DEF a
  <1>4. avail_end(a, qs) \in Nat /\ avail_end(a, qs) = a + 4 + 2 * qs + 2
    BY <1>3 DEF avail_end
  <1>5. u \in Nat /\ avail_end(a, qs) <= u /\ u % 4 = 0
    BY <1>4, AlignUp
  <1> HIDE DEF u
  <1>6. NewLayout(base, qs) = [queue_size |-> qs, desc_table |-> d,
                              avail_ring |-> a, used_ring |-> u]
    BY DEF NewLayout, d, a, u
  <1> QED
    BY <1>1, <1>3, <1>4, <1>5, <1>6 DEF Ordered

\* A slot index below the queue size is its own slot.
LEMMA SmallRemainder ==
    ASSUME NEW n \in Nat \ {0}, NEW i \in 0 .. n - 1
    PROVE  i % n = i
  OBVIOUS

\* Where each kind of field lies.
LEMMA FieldPlaces ==
    ASSUME NEW l, Ordered(l), NEW n \in DOMAIN Fields(l)
    PROVE  LET f == Fields(l)[n]
               qs == l.queue_size
           IN  \/ \E i \in 0 .. qs - 1 : /\ n = <<"desc", i>>
                                         /\ f = Field(l.desc_table + i * 16, 16)
               \/ \E i \in 0 .. qs - 1 : /\ n = <<"avail_slot", i>>
                                         /\ f = Field(l.avail_ring + 4 + i * 2, 2)
               \/ \E i \in 0 .. qs - 1 : /\ n = <<"used_slot", i>>
                                         /\ f = Field(l.used_ring + 4 + i * 8, 8)
               \/ n = <<"avail_flags", 0>> /\ f = Field(l.avail_ring, 2)
               \/ n = <<"avail_idx", 0>> /\ f = Field(l.avail_ring + 2, 2)
               \/ n = <<"used_event", 0>> /\ f = Field(l.avail_ring + 4 + qs * 2, 2)
               \/ n = <<"used_flags", 0>> /\ f = Field(l.used_ring, 2)
               \/ n = <<"used_idx", 0>> /\ f = Field(l.used_ring + 2, 2)
               \/ n = <<"avail_event", 0>> /\ f = Field(l.used_ring + 4 + qs * 8, 2)
  <1> DEFINE qs == l.queue_size
  <1>1. \A i \in 0 .. qs - 1 : i % qs = i
    <2>1. qs \in Nat \ {0}
      BY DEF Ordered
    <2> QED
      BY <2>1, SmallRemainder
  <1>2. n \in FieldNames(qs) /\ Fields(l)[n] = FieldAt(l, n)
    BY DEF Fields
  <1>3. CASE n \in {"desc", "avail_slot", "used_slot"} \X (0 .. qs - 1)
    <2>1. PICK k \in {"desc", "avail_slot", "used_slot"}, i \in 0 .. qs - 1 : n = <<k, i>>
      BY <1>3
    <2>2. n[1] = k /\ n[2] = i /\ i % qs = i
      BY <1>1, <2>1
    <2> QED
      BY <1>2, <2>1, <2>2 DEF FieldAt, desc, avail_slot, used_slot
  <1>4. CASE n \in {"avail_flags", "avail_idx", "used_event",
                    "used_flags", "used_idx", "avail_event"} \X {0}
    <2>1. PICK k \in {"avail_flags", "avail_idx", "used_event",
                      "used_flags", "used_idx", "avail_event"} : n = <<k, 0>>
      BY <1>4
    <2>2. n[1] = k
      BY <2>1
    <2> QED
      BY <1>2, <2>1, <2>2 DEF FieldAt, avail_flags, avail_idx, used_event,
                              used_flags, used_idx, avail_event
  <1> QED
    BY <1>2, <1>3, <1>4 DEF FieldNames

\* The fields of an ordered layout lie inside it, aligned and apart.
LEMMA OrderedFieldsApart ==
    ASSUME NEW l, Ordered(l), NEW m \in DOMAIN Fields(l)
    PROVE  LET f == Fields(l)[m]
           IN  /\ f.at \in Nat /\ f.size \in Nat
               /\ l.desc_table <= f.at /\ f.at + f.size <= end(l)
               /\ f.size = 2 => f.at % 2 = 0
               /\ f.size = 8 => f.at % 4 = 0
               /\ f.size = 16 => f.at % 16 = 0
               /\ \A n \in DOMAIN Fields(l) : m # n => Apart(f, Fields(l)[n])
  <1> DEFINE f == Fields(l)[m]
  <1>1. end(l) = l.used_ring + 4 + 8 * l.queue_size + 2
    BY DEF end, total_size, Ordered
  <1>2. /\ f.at \in Nat /\ f.size \in Nat
        /\ l.desc_table <= f.at /\ f.at + f.size <= end(l)
    BY <1>1, FieldPlaces DEF Ordered, Field
  <1>3. /\ f.size = 2 => f.at % 2 = 0
        /\ f.size = 8 => f.at % 4 = 0
        /\ f.size = 16 => f.at % 16 = 0
    <2>1. /\ l.desc_table \in Nat /\ l.desc_table % 16 = 0
          /\ l.avail_ring \in Nat /\ l.avail_ring % 2 = 0
          /\ l.used_ring \in Nat /\ l.used_ring % 4 = 0
          /\ l.queue_size \in Nat
      BY DEF Ordered
    <2>2. ASSUME NEW i \in Nat
          PROVE  /\ (l.desc_table + i * 16) % 16 = 0
                 /\ (l.avail_ring + 4 + i * 2) % 2 = 0
                 /\ (l.used_ring + 4 + i * 8) % 4 = 0
                 /\ (l.used_ring + 4 + i * 8) % 2 = 0
      BY <2>1
    <2>3. (l.avail_ring + 2) % 2 = 0 /\ l.used_ring % 2 = 0 /\ (l.used_ring + 2) % 2 = 0
      BY <2>1
    <2>4. \A i \in 0 .. l.queue_size - 1 : i \in Nat
      BY <2>1
    <2> QED
      BY <2>1, <2>2, <2>3, <2>4, FieldPlaces DEF Field
  <1>4. ASSUME NEW n \in DOMAIN Fields(l), m # n PROVE Apart(f, Fields(l)[n])
    BY <1>4, FieldPlaces DEF Ordered, Field, Apart
  <1> QED
    BY <1>2, <1>3, <1>4

\* For every base and queue size the fields of a queue, told apart by name, lie
\* inside it, aligned and without a byte in common (VirtqLayout::new and its
\* accessors).
THEOREM FieldsInvariant == Spec => []FieldsApart
  <1>1. Init => Ordered(layout)
    BY NewLayoutOrdered, BasesAssumption, QueueSizesAssumption DEF Init
  <1>2. Ordered(layout) /\ [Next]_vars => Ordered(layout)'
    BY DEF Next, Alloc, vars
  <1>3. Ordered(layout) => FieldsApart
    BY OrderedFieldsApart DEF FieldsApart
  <1> QED
    BY <1>1, <1>2, <1>3, PTL DEF Spec

\* The inductive invariant of the allocator: every buffer handed out lies
\* between the end of the queue and the bump pointer.
BumpInv ==
    /\ Ordered(layout)
    /\ arena \in Nat /\ arena_end \in Nat
    /\ end(layout) <= arena
    /\ buffers \in Seq([at : Nat, size : Nat])
    /\ \A j \in 1 .. Len(buffers) :
          /\ end(layout) <= buffers[j].at
          /\ buffers[j].at + buffers[j].size <= arena
          /\ buffers[j].at + buffers[j].size <= arena_end
          /\ \A k \in 1 .. Len(buffers) : j # k => Apart(buffers[j], buffers[k])

\* A buffer has an address and a size.
LEMMA BufferTypes ==
    ASSUME NEW s \in Seq([at : Nat, size : Nat]), NEW j \in 1 .. Len(s)
    PROVE  s[j].at \in Nat /\ s[j].size \in Nat
  <1>1. s[j] \in [at : Nat, size : Nat]
    <2> DEFINE R == [at : Nat, size : Nat]
    <2>1. s \in Seq(R)
      OBVIOUS
    <2> HIDE DEF R
    <2>2. s[j] \in R
      BY <2>1
    <2> QED
      BY <2>2 DEF R
  <1> QED
    BY <1>1

\* No sequence of allocations makes a buffer overlap another buffer or a ring,
\* or leave the arena (Driver::alloc_uninit).
THEOREM BuffersInvariant == Spec => []BuffersApart
  <1>0. ASSUME Ordered(layout) PROVE end(layout) \in Nat
    BY <1>0 DEF Ordered, end, total_size
  <1>1. Init => BumpInv
    <2> SUFFICES ASSUME Init PROVE BumpInv
      OBVIOUS
    <2>1. Ordered(layout)
      BY NewLayoutOrdered, BasesAssumption, QueueSizesAssumption DEF Init
    <2>2. arena \in Nat /\ end(layout) <= arena
      BY <2>1, <1>0, AlignUp DEF Init
    <2> QED
      BY <2>1, <2>2, ArenaAssumption DEF Init, BumpInv
  <1>2. BumpInv /\ [Next]_vars => BumpInv'
    <2> SUFFICES ASSUME BumpInv, [Next]_vars PROVE BumpInv'
      OBVIOUS
    <2>1. ASSUME NEW len \in AllocSizes, Alloc(len) PROVE BumpInv'
      <3>1. len \in Nat /\ arena + len \in Nat
        BY ArenaAssumption DEF BumpInv
      <3>2. arena' \in Nat /\ arena + len <= arena'
        BY <2>1, <3>1, AlignUp DEF Alloc, NextArena
      <3>3. layout' = layout /\ arena_end' = arena_end /\ arena + len <= arena_end
        BY <2>1 DEF Alloc
      <3>4. Ordered(layout)' /\ end(layout)' = end(layout) /\ end(layout) \in Nat
        BY <3>3, <1>0 DEF BumpInv
      <3>5. PICK n \in Nat : n = Len(buffers)
        BY DEF BumpInv
      <3>6. /\ buffers' \in Seq([at : Nat, size : Nat]) /\ Len(buffers') = n + 1
            /\ \A j \in 1 .. n : buffers'[j] = buffers[j]
            /\ buffers'[n + 1] = Field(arena, len)
        <4>1. Field(arena, len) \in [at : Nat, size : Nat]
          BY <3>1 DEF BumpInv, Field
        <4> QED
          BY <2>1, <3>5, <4>1 DEF Alloc, BumpInv
      <3>7. \A j \in 1 .. n + 1 : j \in 1 .. n \/ j = n + 1
        BY <3>5
      <3>8. ASSUME NEW j \in 1 .. n + 1
            PROVE  /\ end(layout) <= buffers'[j].at
                   /\ buffers'[j].at + buffers'[j].size <= arena'
                   /\ buffers'[j].at + buffers'[j].size <= arena_end
        <4>1. CASE j \in 1 .. n
          <5>1. buffers'[j] = buffers[j] /\ buffers[j].at \in Nat /\ buffers[j].size \in Nat
            BY <3>5, <3>6, <4>1, BufferTypes DEF BumpInv
          <5>2. /\ end(layout) <= buffers[j].at
                /\ buffers[j].at + buffers[j].size <= arena
                /\ buffers[j].at + buffers[j].size <= arena_end
            BY <3>5, <4>1 DEF BumpInv
          <5>3. arena \in Nat /\ len \in Nat
            BY <3>1 DEF BumpInv
          <5> QED
            BY <3>2, <5>1, <5>2, <5>3
        <4>2. CASE j = n + 1
          BY <3>1, <3>2, <3>3, <3>4, <3>6, <4>2 DEF BumpInv, Field
        <4> QED
          BY <3>7, <4>1, <4>2
      <3>9. ASSUME NEW j \in 1 .. n + 1, NEW k \in 1 .. n + 1, j # k
            PROVE  Apart(buffers'[j], buffers'[k])
        <4>1. ASSUME NEW i \in 1 .. n
              PROVE  /\ Apart(buffers[i], Field(arena, len))
                     /\ Apart(Field(arena, len), buffers[i])
          BY <3>5, <4>1 DEF BumpInv, Field, Apart
        <4>2. CASE j \in 1 .. n /\ k \in 1 .. n
          BY <3>5, <3>6, <3>9, <4>2 DEF BumpInv
        <4>3. CASE j \in 1 .. n /\ k = n + 1
          BY <3>6, <4>1, <4>3
        <4>4. CASE j = n + 1 /\ k \in 1 .. n
          BY <3>6, <4>1, <4>4
        <4> QED
          BY <3>7, <3>9, <4>2, <4>3, <4>4
      <3>10. arena' \in Nat /\ arena_end' \in Nat /\ end(layout)' <= arena'
        BY <3>1, <3>2, <3>3, <3>4 DEF BumpInv
      <3> QED
        BY <3>3, <3>4, <3>6, <3>8, <3>9, <3>10 DEF BumpInv
    <2>2. CASE UNCHANGED vars
      BY <2>2 DEF vars, BumpInv
    <2> QED
      BY <2>1, <2>2 DEF Next
  <1>3. BumpInv => BuffersApart
    <2> SUFFICES ASSUME BumpInv PROVE BuffersApart
      OBVIOUS
    <2>1. DOMAIN buffers = 1 .. Len(buffers)
      BY DEF BumpInv
    <2>2. ASSUME NEW j \in 1 .. Len(buffers), NEW n \in DOMAIN Fields(layout)
          PROVE  Apart(buffers[j], Fields(layout)[n])
      <3>1. PICK f : f = Fields(layout)[n]
        OBVIOUS
      <3>2. f.at \in Nat /\ f.size \in Nat /\ f.at + f.size <= end(layout)
        BY <3>1, OrderedFieldsApart DEF BumpInv
      <3>3. end(layout) \in Nat /\ end(layout) <= buffers[j].at
        BY <1>0 DEF BumpInv
      <3>4. buffers[j].at \in Nat /\ buffers[j].size \in Nat
        BY BufferTypes DEF BumpInv
      <3> QED
        BY <3>1, <3>2, <3>3, <3>4 DEF Apart
    <2>3. \A j \in 1 .. Len(buffers) :
             /\ buffers[j].at + buffers[j].size <= arena_end
             /\ \A k \in 1 .. Len(buffers) : j # k => Apart(buffers[j], buffers[k])
      BY DEF BumpInv
    <2> QED
      BY <2>1, <2>2, <2>3 DEF BuffersApart
  <1> QED
    BY <1>1, <1>2, <1>3, PTL DEF Spec
=============================================================================

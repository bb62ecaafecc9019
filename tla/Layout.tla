------------------------------- MODULE Layout -------------------------------
(***************************************************************************)
(* Where the fields of a split virtqueue live: VirtqLayout of              *)
(* rung-02-virtio/toy-virtq-raw/src/layout.rs.  A layout is the record of  *)
(* the code, an address is a natural number.                               *)
(***************************************************************************)
EXTENDS Integers

\* v.div_ceil(align) * align
align_up(v, align) == ((v + align - 1) \div align) * align

\* Mutant of avail_end: leaves no room for used_event, which lies behind the slots.
avail_endNoEvent(avail_ring, qs) == avail_ring + 4 + 2 * qs

\* flags, idx, ring and used_event
avail_end(avail_ring, qs) == avail_ring + 4 + 2 * qs + 2

\* VirtqLayout::new
NewLayout(base, qs) ==
    LET desc_table == align_up(base, 16)
        avail_ring == align_up(desc_table + 16 * qs, 2)
        used_ring  == align_up(avail_end(avail_ring, qs), 4)
    IN  [queue_size |-> qs, desc_table |-> desc_table,
         avail_ring |-> avail_ring, used_ring |-> used_ring]

\* VirtqLayout::total_size and end
total_size(l) == l.used_ring + 4 + 8 * l.queue_size + 2 - l.desc_table
end(l) == l.desc_table + total_size(l)

\* The accessors.  desc is defined for i < queue_size only; a slot takes any
\* value of a free-running counter.
desc(l, i) == l.desc_table + i * 16
avail_flags(l) == l.avail_ring
avail_idx(l) == l.avail_ring + 2
avail_slot(l, i) == l.avail_ring + 4 + (i % l.queue_size) * 2
used_event(l) == l.avail_ring + 4 + l.queue_size * 2
used_flags(l) == l.used_ring
used_idx(l) == l.used_ring + 2
used_slot(l, i) == l.used_ring + 4 + (i % l.queue_size) * 8
avail_event(l) == l.used_ring + 4 + l.queue_size * 8

Field(at, size) == [at |-> at, size |-> size]

\* The fields of a queue of qs descriptors by name, so that two that coincide
\* are still two: what it is and, in the three arrays, its index.
FieldNames(qs) ==
    ({"desc", "avail_slot", "used_slot"} \X (0 .. qs - 1))
      \cup ({"avail_flags", "avail_idx", "used_event",
             "used_flags", "used_idx", "avail_event"} \X {0})

\* Where each is, with its size.  The two words of a used element are one field.
FieldAt(l, name) ==
    LET i == name[2]
    IN  CASE name[1] = "desc"        -> Field(desc(l, i), 16)
          [] name[1] = "avail_flags" -> Field(avail_flags(l), 2)
          [] name[1] = "avail_idx"   -> Field(avail_idx(l), 2)
          [] name[1] = "avail_slot"  -> Field(avail_slot(l, i), 2)
          [] name[1] = "used_event"  -> Field(used_event(l), 2)
          [] name[1] = "used_flags"  -> Field(used_flags(l), 2)
          [] name[1] = "used_idx"    -> Field(used_idx(l), 2)
          [] name[1] = "used_slot"   -> Field(used_slot(l, i), 8)
          [] name[1] = "avail_event" -> Field(avail_event(l), 2)

Fields(l) == [name \in FieldNames(l.queue_size) |-> FieldAt(l, name)]

\* Two ranges that share no byte.
Apart(f, g) == f.at + f.size <= g.at \/ g.at + g.size <= f.at
=============================================================================

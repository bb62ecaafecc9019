-------------------------------- MODULE Arena -------------------------------
(***************************************************************************)
(* The shared region of one virtqueue: the rings that VirtqLayout::new     *)
(* places, and the driver's bump allocator for buffers after them          *)
(* (Driver::new, alloc_uninit and alloc of driver.rs; layout.rs).          *)
(***************************************************************************)
EXTENDS Layout, Sequences

CONSTANTS
    Bases,        \* the `base` a caller passes to VirtqLayout::new
    QueueSizes,   \* the queue sizes: powers of two up to 32768 in the code
    ArenaEnds,    \* the arena_end a caller passes to Driver::new
    AllocSizes,   \* the sizes a caller allocates: any u32
    MaxAllocs     \* bound: allocations in one behaviour; an empty one takes no
                  \* room

ASSUME BasesAssumption == Bases \subseteq Nat
ASSUME QueueSizesAssumption == QueueSizes \subseteq Nat \ {0}
ASSUME ArenaAssumption == ArenaEnds \subseteq Nat /\ AllocSizes \subseteq Nat
ASSUME MaxAllocsAssumption == MaxAllocs \in Nat

VARIABLES layout,      \* the queue's VirtqLayout
          arena,       \* Driver.arena, the bump pointer
          arena_end,   \* Driver.arena_end
          buffers      \* what alloc_uninit has handed out, in order

vars == <<layout, arena, arena_end, buffers>>

\* VirtqLayout::new, then Driver::new.
Init ==
    /\ \E base \in Bases, qs \in QueueSizes : layout = NewLayout(base, qs)
    /\ arena = align_up(end(layout), 16)
    /\ arena_end \in ArenaEnds
    /\ buffers = << >>

\* Mutant of NextArena: rounds down.
NextArenaDown(past) == (past \div 8) * 8

\* next_multiple_of(8)
NextArena(past) == align_up(past, 8)

\* alloc_uninit, and alloc, which only writes the bytes it is given.  A request
\* that does not fit returns None and changes nothing.
Alloc(len) ==
    /\ Len(buffers) < MaxAllocs
    /\ arena + len <= arena_end
    /\ buffers' = Append(buffers, Field(arena, len))
    /\ arena' = NextArena(arena + len)
    /\ UNCHANGED <<layout, arena_end>>

Next == \E len \in AllocSizes : Alloc(len)

Spec == Init /\ [][Next]_vars

-----------------------------------------------------------------------------
\* No two fields of a queue share a byte, not even by lying in the same place;
\* none lies outside [base of the table, end), and each is aligned for its width:
\* what one side writes is never part of what the other side writes, for any base
\* and size (VirtqLayout::new, "records the alignment explicitly").
FieldsApart ==
    LET fields == Fields(layout)
    IN  \A m \in DOMAIN fields :
          LET f == fields[m]
          IN  /\ layout.desc_table <= f.at /\ f.at + f.size <= end(layout)
              /\ f.size = 2 => f.at % 2 = 0
              /\ f.size = 8 => f.at % 4 = 0
              /\ f.size = 16 => f.at % 16 = 0
              /\ \A n \in DOMAIN fields : m # n => Apart(f, fields[n])

\* A buffer never overlaps another buffer, a ring or the descriptor table, and
\* ends inside the arena, whatever sequence of sizes is allocated (alloc_uninit).
BuffersApart ==
    \A j \in DOMAIN buffers :
        /\ buffers[j].at + buffers[j].size <= arena_end
        /\ \A n \in DOMAIN Fields(layout) : Apart(buffers[j], Fields(layout)[n])
        /\ \A k \in DOMAIN buffers : j # k => Apart(buffers[j], buffers[k])
=============================================================================

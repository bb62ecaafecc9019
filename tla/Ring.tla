-------------------------------- MODULE Ring --------------------------------
(***************************************************************************)
(* The arithmetic of a split virtqueue: free-running wrapping counters,    *)
(* the ring slot a counter value names, and the EVENT_IDX predicate.       *)
(* (rung-02-virtio/toy-virtq-raw/src/layout.rs, and the Wrapping<u16>      *)
(* counters of driver.rs and device.rs.)                                   *)
(***************************************************************************)
EXTENDS Integers

CONSTANTS
    QueueSize,   \* entries in the descriptor table and in each ring
    Modulus      \* where the free-running counters wrap: 2^16 in the code

(***************************************************************************)
(* VirtqLayout::new asserts a power of two between 1 and 32768, so the     *)
(* queue size divides 2^16 and is at most half of it.                      *)
(***************************************************************************)
ASSUME QueueSizeAssumption == QueueSize \in Nat \ {0}
ASSUME ModulusAssumption ==
    /\ Modulus \in Nat
    /\ 2 * QueueSize <= Modulus
    /\ Modulus % QueueSize = 0

Desc == 0 .. QueueSize - 1      \* valid descriptor indices and ring slots
Counter == 0 .. Modulus - 1     \* values of a wrapping counter

\* avail_slot / used_slot: the slot a free-running counter names.
Slot(c) == c % QueueSize

\* Mutant of Inc: an addition that does not wrap.
IncNoWrap(c) == c + 1

\* Wrapping(c) + Wrapping(1)
Inc(c) == (c + 1) % Modulus

\* Wrapping subtraction: how far counter a is ahead of counter b.
Dist(a, b) == (a - b) % Modulus

\* Mutant of need_event: compares positions instead of distances.
need_eventByPosition(event, new, old) == event < new /\ old <= event

\* layout::need_event: wrapping(new - event - 1) < wrapping(new - old).
need_event(event, new, old) ==
    Dist(Dist(new, event), 1) < Dist(new, old)

(***************************************************************************)
(* The reference definition need_event's documentation gives in words: the *)
(* counter, stepping from old up to new, takes the value event + 1.        *)
(***************************************************************************)
Crossed(event, new, old) ==
    \E k \in 1 .. Dist(new, old) : (old + k) % Modulus = Inc(event)
=============================================================================

-------------------------------- MODULE Chain -------------------------------
(***************************************************************************)
(* The device's bounded walk over a descriptor chain: ChainIter of         *)
(* rung-02-virtio/toy-virtq-raw/src/device.rs.  An iterator is a record    *)
(* and one call of next() is a pair of operators: the error it reports, if *)
(* any, and the iterator after a descriptor has been yielded.              *)
(*                                                                         *)
(* A descriptor is [len, write, has_next, next, indirect].  A descriptor   *)
(* table is a function whose domain is the set of indices that lie inside  *)
(* the shared region.                                                      *)
(***************************************************************************)
EXTENDS Ring

CONSTANT ByteLimit   \* yielded_bytes overflows here: 2^32 in the code

ASSUME ByteLimitAssumption == ByteLimit \in Nat \ {0}

NoError == "none"
ChainErrors == {"TooLong", "IndexOutOfRange", "Mem", "Indirect",
                "TooManyBytes", "ReadableAfterWritable"}

\* ChainIter::new
NewIter(head) ==
    [next_index |-> head, ttl |-> QueueSize, bytes |-> 0,
     seen_writable |-> FALSE, done |-> FALSE]

\* The checks of ChainIter::next, in the order the code makes them.
IterError(it, table) ==
    IF it.ttl = 0 THEN "TooLong"
    ELSE IF it.next_index >= QueueSize THEN "IndexOutOfRange"
    ELSE IF it.next_index \notin DOMAIN table THEN "Mem"
    ELSE LET d == table[it.next_index]
         IN  IF d.indirect THEN "Indirect"
             ELSE IF it.bytes + d.len >= ByteLimit THEN "TooManyBytes"
             ELSE IF it.seen_writable /\ ~d.write THEN "ReadableAfterWritable"
             ELSE NoError

\* Mutant of IterAfter: the time to live is never spent.
IterAfterUnbounded(it, d) ==
    [next_index    |-> IF d.has_next THEN d.next ELSE it.next_index,
     ttl           |-> it.ttl,
     bytes         |-> it.bytes + d.len,
     seen_writable |-> it.seen_writable \/ d.write,
     done          |-> ~d.has_next]

\* The iterator after it has yielded descriptor d.
IterAfter(it, d) ==
    [next_index    |-> IF d.has_next THEN d.next ELSE it.next_index,
     ttl           |-> IF d.has_next THEN it.ttl - 1 ELSE it.ttl,
     bytes         |-> it.bytes + d.len,
     seen_writable |-> it.seen_writable \/ d.write,
     done          |-> ~d.has_next]

\* The iterator after it has reported an error: next() returns None from now
\* on, so that what else it holds no longer matters.
IterFailed(it) == [it EXCEPT !.done = TRUE]
=============================================================================

----------------------------- MODULE MCVirtqueue ----------------------------
(* A small instance of Virtqueue for TLC. *)
EXTENDS Virtqueue

Readable == [addr |-> 1, len |-> 1, write |-> FALSE]
Writable == [addr |-> 2, len |-> 1, write |-> TRUE]

\* The chain of bench_notification, a request and its reply, and a shorter one.
TwoBuffers == {Readable, Writable}
TwoRequests == {<<Readable, Writable>>, <<Writable>>}
=============================================================================

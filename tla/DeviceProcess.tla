--------------------------- MODULE DeviceProcess ----------------------------
(***************************************************************************)
(* Device::process of rung-02-virtio/toy-virtq-raw/src/device.rs against a *)
(* driver that writes anything at any time: the bounded walk, the gather   *)
(* of the device-readable buffers, the scatter of the response over the    *)
(* device-writable ones and the completion, with the bounds checks of      *)
(* mem.rs.                                                                 *)
(*                                                                         *)
(* The driver owns the descriptor table and the avail ring and may rewrite *)
(* them between any two reads, so a read returns any descriptor and any    *)
(* head.  Bytes have addresses and no contents.                            *)
(***************************************************************************)
EXTENDS Chain, Sequences, FiniteSets

CONSTANTS
    RegionLen,     \* SharedMem::len
    AddrLimit,     \* addresses are below it: 2^64 in the code
    Addrs, Lens,   \* the addr and len fields a driver writes
    Links,         \* the next fields a driver writes, and the heads
    MaxResponse    \* bound: bytes the work function returns

ASSUME RegionAssumption == RegionLen \in Nat /\ AddrLimit \in Nat /\ RegionLen < AddrLimit
ASSUME FieldsAssumption ==
    /\ Addrs \subseteq 0 .. AddrLimit - 1
    /\ Lens \subseteq 0 .. ByteLimit - 1
    /\ Links \subseteq Nat
    /\ MaxResponse \in Nat

VARIABLES
    pc,            \* where process() is
    next_avail, used_idx,
    used,          \* the element add_used wrote last
    head,          \* the chain in hand
    it,            \* its ChainIter
    readable, writable,   \* what the walk collected: sequences of [addr, len]
    response,      \* bytes the work function returned
    cursor,        \* bytes of it scattered: `cursor` and `written`
    rejected,      \* the entries of stats.rejected about this chain
    \* --- history, read by no action
    promised,      \* the bytes of the writable buffers, in chain order
    touched        \* the bytes process() wrote for this chain

chainVars == <<head, it, readable, writable, response, cursor, rejected,
               promised, touched>>
vars == <<pc, next_avail, used_idx, used, head, it, readable, writable, response,
          cursor, rejected, promised, touched>>

GuestDescriptor ==
    [addr : Addrs, len : Lens, write : BOOLEAN, has_next : BOOLEAN, next : Links,
     indirect : BOOLEAN]

\* The bytes [addr, addr + n).
Cells(addr, n) == [i \in 1 .. n |-> addr + i - 1]

\* SharedMem::range: checked_add, then the comparison with the region's end.
InRange(addr, len) == addr + len < AddrLimit /\ addr + len <= RegionLen

Init ==
    /\ pc = "pop"
    /\ next_avail = 0 /\ used_idx = 0
    /\ used = [id |-> 0, len |-> 0]
    /\ head = 0
    /\ it = NewIter(0)
    /\ readable = << >> /\ writable = << >>
    /\ response = 0 /\ cursor = 0
    /\ rejected = << >>
    /\ promised = << >> /\ touched = {}

\* pop_chain_head with something available, and ChainIter::new.
PopChainHead ==
    /\ pc = "pop"
    /\ head' \in Links
    /\ next_avail' = Inc(next_avail)
    /\ it' = NewIter(head')
    /\ readable' = << >> /\ writable' = << >>
    /\ response' = 0 /\ cursor' = 0
    /\ rejected' = << >>
    /\ promised' = << >> /\ touched' = {}
    /\ pc' = "walk"
    /\ UNCHANGED <<used_idx, used>>

\* One ChainIter::next that yields a descriptor.
WalkDescriptor ==
    /\ pc = "walk"
    /\ ~it.done
    /\ \E d \in GuestDescriptor :
          LET buf == <<[addr |-> d.addr, len |-> d.len]>>
          IN  /\ IterError(it, [i \in Desc |-> d]) = NoError
              /\ it' = IterAfter(it, d)
              /\ readable' = IF d.write THEN readable ELSE readable \o buf
              /\ writable' = IF d.write THEN writable \o buf ELSE writable
              /\ promised' = IF d.write THEN promised \o Cells(d.addr, d.len)
                                        ELSE promised
    /\ UNCHANGED <<pc, next_avail, used_idx, used, head, response, cursor,
                   rejected, touched>>

\* Mutant of RejectChain: the malformed chain is dropped, not completed.
RejectChainDropped ==
    /\ pc = "walk"
    /\ ~it.done
    /\ \E d \in GuestDescriptor : IterError(it, [i \in Desc |-> d]) # NoError
    /\ it' = IterFailed(it)
    /\ rejected' = Append(rejected, "Chain")
    /\ cursor' = 0
    /\ pc' = "pop"
    /\ UNCHANGED <<next_avail, used_idx, used, head, readable, writable, response,
                   promised, touched>>

\* Mutant of RejectChain: the loop skips the error and asks the iterator again.
RejectChainSkipped ==
    /\ pc = "walk"
    /\ ~it.done
    /\ \E d \in GuestDescriptor : IterError(it, [i \in Desc |-> d]) # NoError
    /\ UNCHANGED vars

\* One ChainIter::next that fails: the chain is recorded as rejected and goes
\* to add_used with length 0.
RejectChain ==
    /\ pc = "walk"
    /\ ~it.done
    /\ \E d \in GuestDescriptor : IterError(it, [i \in Desc |-> d]) # NoError
    /\ it' = IterFailed(it)
    /\ rejected' = Append(rejected, "Chain")
    /\ cursor' = 0
    /\ pc' = "complete"
    /\ UNCHANGED <<next_avail, used_idx, used, head, readable, writable, response,
                   promised, touched>>

\* The gather loop over the whole of `readable`, and the call of work: a buffer
\* outside the region is recorded and left out of the request.
Gather ==
    /\ pc = "walk"
    /\ it.done
    /\ LET outside == {k \in DOMAIN readable :
                          ~InRange(readable[k].addr, readable[k].len)}
       IN  rejected' = rejected \o [i \in 1 .. Cardinality(outside) |-> "Buffer"]
    /\ response' \in 0 .. MaxResponse
    /\ pc' = "scatter"
    /\ UNCHANGED <<next_avail, used_idx, used, head, it, readable, writable,
                   cursor, promised, touched>>

\* Mutant of Piece: overruns the descriptor's buffer.
PieceUnbounded == response - cursor

\* Bytes of the response that go into the next writable buffer.
Piece == IF writable[1].len < response - cursor THEN writable[1].len
         ELSE response - cursor

\* The scatter loop, one writable buffer; the consumed buffer leaves `writable`.
ScatterBuffer ==
    /\ pc = "scatter"
    /\ writable # << >>
    /\ cursor < response
    /\ IF InRange(writable[1].addr, Piece)
         THEN /\ cursor' = cursor + Piece
              /\ touched' = touched \cup
                    {Cells(writable[1].addr, Piece)[i] : i \in 1 .. Piece}
              /\ writable' = Tail(writable)
              /\ UNCHANGED <<pc, rejected>>
         ELSE /\ rejected' = Append(rejected, "Buffer")
              /\ pc' = "complete"
              /\ UNCHANGED <<cursor, touched, writable>>
    /\ UNCHANGED <<next_avail, used_idx, used, head, it, readable, response,
                   promised>>

\* Mutant of ScatterDone: only the first writable buffer is used.
ScatterDoneEarly ==
    /\ pc = "scatter"
    /\ writable = << >> \/ cursor > 0 \/ cursor >= response
    /\ pc' = "complete"
    /\ UNCHANGED <<next_avail, used_idx, used, chainVars>>

\* The scatter loop ends: the buffers or the response ran out.
ScatterDone ==
    /\ pc = "scatter"
    /\ writable = << >> \/ cursor >= response
    /\ pc' = "complete"
    /\ UNCHANGED <<next_avail, used_idx, used, chainVars>>

\* The length process() hands to add_used.
UsedLen == cursor

\* add_used, and the next iteration of process().
AddUsed ==
    /\ pc = "complete"
    /\ used' = [id |-> head, len |-> UsedLen]
    /\ used_idx' = Inc(used_idx)
    /\ pc' = "pop"
    /\ UNCHANGED <<next_avail, chainVars>>

Next ==
    \/ PopChainHead
    \/ WalkDescriptor
    \/ RejectChain
    \/ Gather
    \/ ScatterBuffer
    \/ ScatterDone
    \/ AddUsed

Spec == Init /\ [][Next]_vars

\* The device's thread keeps running; the driver publishes when it likes.
FairSpec == Spec /\ WF_vars(Next)

-----------------------------------------------------------------------------
\* Whatever the driver writes, the length a completion reports is that of a
\* prefix of the chain's writable bytes which process() did write, and it wrote
\* nothing else and nothing outside the region (add_used: "`len` is the number
\* of bytes actually written"; the truncation in process's scatter loop).
ReportedBytesWereWritten ==
    pc = "pop" =>
        /\ used.len <= Len(promised)
        /\ touched = {promised[i] : i \in 1 .. used.len}
        /\ \A c \in touched : c < RegionLen

\* Every chain taken from the avail ring is completed exactly once, in order and
\* under its own head, a malformed one too (process: "A device that silently
\* drops a malformed chain leaks a descriptor").
CompletedInOrder ==
    [][used_idx' # used_idx => used'.id = head /\ used_idx' = next_avail]_vars

\* Whatever links the driver writes and rewrites, the walk yields at most
\* QueueSize descriptors, so that what process() collects is bounded too
\* (ChainIter's ttl).
WalkIsBounded == Len(readable) + Len(writable) <= QueueSize

\* Every chain process() takes up it gets through, a malformed one too.
EveryChainEnds == pc = "walk" ~> pc = "pop"

\* Nothing is lost silently: a chain whose walk failed produces nothing and is
\* completed with length 0 ("reporting length 0 tells the driver the request
\* produced nothing"), and a chain with no entry in stats.rejected receives the
\* whole response, or all of it that its buffers hold.
ShortfallIsAccounted ==
    pc = "pop" =>
        /\ (\E i \in DOMAIN rejected : rejected[i] = "Chain") =>
               used.len = 0 /\ touched = {}
        /\ rejected = << >> =>
               used.len = IF response < Len(promised) THEN response
                                                     ELSE Len(promised)
=============================================================================

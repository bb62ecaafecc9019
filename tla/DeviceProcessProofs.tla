------------------------ MODULE DeviceProcessProofs -------------------------
(***************************************************************************)
(* Theorems about DeviceProcess, for every queue size, region, address     *)
(* space and whatever fields the driver writes.                            *)
(***************************************************************************)
EXTENDS DeviceProcess, SequenceTheorems, FiniteSetTheorems, TLAPS

Buffer == [addr : Nat, len : Nat]
Iter == [next_index : Nat, ttl : 0 .. QueueSize, bytes : Nat,
         seen_writable : BOOLEAN, done : BOOLEAN]

Types ==
    /\ pc \in {"pop", "walk", "scatter", "complete"}
    /\ used \in [id : Nat, len : Nat]
    /\ head \in Nat
    /\ it \in Iter
    /\ readable \in Seq(Buffer) /\ writable \in Seq(Buffer)
    /\ response \in Nat /\ cursor \in Nat
    /\ promised \in Seq(Nat)

\* While the walk goes on it has yielded as many descriptors as it has spent of
\* its time to live; the last one, which has no link, spends none.
Spent ==
    /\ Len(readable) + Len(writable) <= QueueSize
    /\ pc = "walk" /\ ~it.done =>
          Len(readable) + Len(writable) = QueueSize - it.ttl

\* A chain in hand is one that is popped and not yet completed.
InHand == next_avail = IF pc = "pop" THEN used_idx ELSE Inc(used_idx)

WalkInv == Types /\ Spent /\ InHand

\* The fields of a descriptor are numbers and flags.
LEMMA Fields ==
    ASSUME NEW d \in GuestDescriptor
    PROVE  /\ d.addr \in Nat /\ d.len \in Nat /\ d.next \in Nat
           /\ d.has_next \in BOOLEAN /\ d.write \in BOOLEAN
  <1>1. /\ d.addr \in Addrs /\ d.len \in Lens /\ d.next \in Links
        /\ d.has_next \in BOOLEAN /\ d.write \in BOOLEAN
    BY DEF GuestDescriptor
  <1>2. /\ d.addr \in 0 .. AddrLimit - 1 /\ d.len \in 0 .. ByteLimit - 1
        /\ d.next \in Nat
    BY <1>1, FieldsAssumption
  <1> QED BY <1>1, <1>2, RegionAssumption, ByteLimitAssumption

\* A descriptor the driver may write, and the iterator that has yielded it.
LEMMA Yielded ==
    ASSUME Types, NEW d \in GuestDescriptor, ~it.done,
           IterError(it, [i \in Desc |-> d]) = NoError
    PROVE  /\ [addr |-> d.addr, len |-> d.len] \in Buffer
           /\ it.ttl \in 1 .. QueueSize
           /\ IterAfter(it, d) \in Iter
           /\ IterAfter(it, d).done = ~d.has_next
           /\ d.has_next => IterAfter(it, d).ttl = it.ttl - 1
  <1>1. d.addr \in Nat /\ d.len \in Nat /\ d.next \in Nat
        /\ d.has_next \in BOOLEAN /\ d.write \in BOOLEAN
    BY Fields
  <1>2. it.ttl \in 0 .. QueueSize /\ it.next_index \in Nat /\ it.bytes \in Nat
        /\ it.seen_writable \in BOOLEAN
    BY DEF Types, Iter
  <1>3. it.ttl # 0
    BY DEF IterError, NoError
  <1>4. [addr |-> d.addr, len |-> d.len] \in Buffer
    BY <1>1 DEF Buffer
  <1>5. it.ttl \in 1 .. QueueSize /\ it.ttl - 1 \in 0 .. QueueSize
    BY <1>2, <1>3, QueueSizeAssumption
  <1>6. IterAfter(it, d) \in Iter
    BY <1>1, <1>2, <1>5 DEF IterAfter, Iter
  <1> QED
    BY <1>4, <1>5, <1>6 DEF IterAfter

\* One more buffer at the end of a sequence of them.
LEMMA OneMore ==
    ASSUME NEW S, NEW s \in Seq(S), NEW e \in S
    PROVE  /\ s \o <<e>> \in Seq(S)
           /\ Len(s) \in Nat
           /\ Len(s \o <<e>>) = Len(s) + 1
           /\ \A k \in 1 .. Len(s) : (s \o <<e>>)[k] = s[k]
           /\ (s \o <<e>>)[Len(s) + 1] = e
  <1>1. Append(s, e) = s \o <<e>>
    BY AppendIsConcat
  <1> QED BY <1>1, AppendProperties, LenProperties

\* The cells of a buffer are addresses.
LEMMA CellsType ==
    ASSUME NEW a \in Nat, NEW n \in Nat
    PROVE  /\ Cells(a, n) \in Seq(Nat)
           /\ Len(Cells(a, n)) = n
           /\ \A i \in 1 .. n : Cells(a, n)[i] = a + i - 1
  <1>1. Cells(a, n) \in [1 .. n -> Nat]
    BY DEF Cells
  <1>2. Cells(a, n) \in Seq(Nat)
    BY <1>1, SeqDef
  <1> QED BY <1>1, <1>2, LenProperties DEF Cells

-----------------------------------------------------------------------------
\* Nothing is in hand when the device starts.
LEMMA InitWalk == Init => WalkInv
  <1> SUFFICES ASSUME Init PROVE WalkInv
    OBVIOUS
  <1> USE QueueSizeAssumption DEF Init
  <1>1. it \in Iter
    BY DEF NewIter, Iter
  <1>2. << >> \in Seq(Buffer) /\ << >> \in Seq(Nat) /\ Len(<< >>) = 0
    BY EmptySeq
  <1> QED BY <1>1, <1>2 DEF WalkInv, Types, Spent, InHand

\* Every step keeps the invariant.
LEMMA WalkStep == WalkInv /\ [Next]_vars => WalkInv'
  <1> SUFFICES ASSUME WalkInv, [Next]_vars PROVE WalkInv'
    OBVIOUS
  <1> USE QueueSizeAssumption DEF WalkInv
  <1>1. CASE PopChainHead
    <2> USE <1>1 DEF PopChainHead
    <2>1. it' \in Iter /\ it'.ttl = QueueSize
      BY FieldsAssumption DEF NewIter, Iter
    <2>2. << >> \in Seq(Buffer) /\ << >> \in Seq(Nat) /\ Len(<< >>) = 0
      BY EmptySeq
    <2>3. Types'
      BY <2>1, <2>2, FieldsAssumption DEF Types
    <2> QED BY <2>1, <2>2, <2>3 DEF Spent, InHand
  <1>2. CASE WalkDescriptor
    <2> USE <1>2 DEF WalkDescriptor
    <2>1. PICK d \in GuestDescriptor :
            LET buf == <<[addr |-> d.addr, len |-> d.len]>>
            IN  /\ IterError(it, [i \in Desc |-> d]) = NoError
                /\ it' = IterAfter(it, d)
                /\ readable' = IF d.write THEN readable ELSE readable \o buf
                /\ writable' = IF d.write THEN writable \o buf ELSE writable
                /\ promised' = IF d.write THEN promised \o Cells(d.addr, d.len)
                                          ELSE promised
      OBVIOUS
    <2> DEFINE b == [addr |-> d.addr, len |-> d.len]
    <2>2. /\ b \in Buffer /\ it.ttl \in 1 .. QueueSize /\ it' \in Iter
          /\ it'.done = ~d.has_next
          /\ d.has_next => it'.ttl = it.ttl - 1
      BY <2>1, Yielded
    <2>3. d.addr \in Nat /\ d.len \in Nat
      BY <2>2 DEF Buffer
    <2>4. readable \o <<b>> \in Seq(Buffer) /\ Len(readable \o <<b>>) = Len(readable) + 1
      BY <2>2, OneMore DEF Types
    <2>5. writable \o <<b>> \in Seq(Buffer) /\ Len(writable \o <<b>>) = Len(writable) + 1
      BY <2>2, OneMore DEF Types
    <2>6. promised \o Cells(d.addr, d.len) \in Seq(Nat)
      BY <2>3, CellsType, ConcatProperties DEF Types
    <2> HIDE DEF b
    <2>7. Types'
      BY <2>1, <2>2, <2>4, <2>5, <2>6 DEF Types, b
    <2>8. Len(readable)' + Len(writable)' = Len(readable) + Len(writable) + 1
      BY <2>1, <2>4, <2>5, LenProperties DEF Types, b
    <2>9. Len(readable) \in Nat /\ Len(writable) \in Nat
      BY LenProperties DEF Types
    <2>10. Spent'
      <3>1. Len(readable) + Len(writable) = QueueSize - it.ttl
        BY DEF Spent
      <3>2. it'.done \/ it'.ttl = it.ttl - 1
        BY <2>2
      <3>3. it.ttl \in Int /\ it.ttl >= 1 /\ QueueSize \in Int
        BY <2>2
      <3>4. Len(readable)' + Len(writable)' = QueueSize - it.ttl + 1
        BY <2>8, <2>9, <3>1, <3>3
      <3> QED BY <3>2, <3>3, <3>4 DEF Spent
    <2> QED BY <2>7, <2>10 DEF InHand
  <1>3. CASE RejectChain
    BY <1>3 DEF RejectChain, Types, Spent, InHand, IterFailed, Iter
  <1>4. CASE Gather
    BY <1>4, FieldsAssumption DEF Gather, Types, Spent, InHand
  <1>5. CASE ScatterBuffer
    <2>1. /\ writable # << >> /\ cursor < response
          /\ \/ /\ cursor' = cursor + Piece
                /\ writable' = Tail(writable)
                /\ pc' = "scatter"
             \/ /\ pc' = "complete"
                /\ UNCHANGED <<cursor, writable>>
          /\ pc = "scatter"
          /\ UNCHANGED <<next_avail, used_idx, used, head, it, readable,
                         response, promised>>
      BY <1>5 DEF ScatterBuffer
    <2>2. writable[1] \in Buffer
      BY <2>1, ElementOfSeq, EmptySeq DEF Types
    <2>3. Piece \in Nat
      BY <2>1, <2>2 DEF Piece, Types, Buffer
    <2>4. Tail(writable) \in Seq(Buffer) /\ Len(Tail(writable)) = Len(writable) - 1
      BY <2>1, HeadTailProperties DEF Types
    <2>5. Len(readable) \in Nat /\ Len(writable) \in Nat
      BY LenProperties DEF Types
    <2>6. /\ cursor' \in Nat /\ writable' \in Seq(Buffer)
          /\ Len(writable)' \in Nat /\ Len(writable)' <= Len(writable)
      <3>1. CASE writable' = Tail(writable) /\ cursor' = cursor + Piece
        BY <3>1, <2>3, <2>4, <2>5 DEF Types
      <3>2. CASE UNCHANGED <<cursor, writable>>
        BY <3>2, <2>5 DEF Types
      <3> QED BY <2>1, <3>1, <3>2
    <2>7. Types'
      BY <2>1, <2>6 DEF Types
    <2> QED BY <2>1, <2>5, <2>6, <2>7 DEF Spent, InHand
  <1>6. CASE ScatterDone
    BY <1>6 DEF ScatterDone, chainVars, Types, Spent, InHand
  <1>7. CASE AddUsed
    BY <1>7 DEF AddUsed, UsedLen, chainVars, Types, Spent, InHand
  <1>8. CASE UNCHANGED vars
    BY <1>8 DEF vars, Types, Spent, InHand
  <1> QED BY <1>1, <1>2, <1>3, <1>4, <1>5, <1>6, <1>7, <1>8 DEF Next

\* WalkInv is an invariant.
LEMMA WalkAlways == Spec => []WalkInv
  BY InitWalk, WalkStep, PTL DEF Spec

\* The walk is bounded whatever links the driver writes, and rewrites while it is
\* walked (ChainIter's ttl).
THEOREM WalkInvariant == Spec => []WalkIsBounded
  <1>1. WalkInv => WalkIsBounded
    BY DEF WalkInv, Spent, WalkIsBounded
  <1> QED BY <1>1, WalkAlways, PTL

\* Every chain taken is completed once, in order and under its own head, and a
\* rejected one is no exception (Device::process).
THEOREM OrderInvariant == Spec => CompletedInOrder
  <1>1. WalkInv /\ [Next]_vars =>
          (used_idx' # used_idx => used'.id = head /\ used_idx' = next_avail)
    <2> SUFFICES ASSUME WalkInv, [Next]_vars, used_idx' # used_idx
                 PROVE  used'.id = head /\ used_idx' = next_avail
      OBVIOUS
    <2>1. AddUsed
      BY DEF Next, PopChainHead, WalkDescriptor, RejectChain, Gather,
           ScatterBuffer, ScatterDone, vars
    <2> QED BY <2>1 DEF AddUsed, WalkInv, InHand
  <1> QED BY <1>1, WalkAlways, PTL DEF Spec, CompletedInOrder

-----------------------------------------------------------------------------
\* The buffers w are where the addresses p say from position c on, one after
\* the other and up to the end: `off` is where each starts in p.
Placed(w, p, c) ==
    \E off \in [1 .. Len(w) + 1 -> 0 .. Len(p)] :
        /\ off[1] = c
        /\ off[Len(w) + 1] = Len(p)
        /\ \A k \in 1 .. Len(w) :
              /\ off[k + 1] = off[k] + w[k].len
              /\ \A i \in 1 .. w[k].len : p[off[k] + i] = w[k].addr + i - 1

\* What has been scattered is a prefix of what was promised, all of it in the
\* region, and what is left to scatter into begins where that prefix ends.
ScatterInv ==
    /\ cursor <= Len(promised)
    /\ touched = {promised[i] : i \in 1 .. cursor}
    /\ \A c \in touched : c < RegionLen
    /\ pc = "walk" => cursor = 0 /\ Placed(writable, promised, cursor)
    /\ pc = "scatter" => /\ cursor <= response
                         /\ cursor = response \/ Placed(writable, promised, cursor)
    /\ pc = "pop" => used.len = cursor

\* No buffers, no addresses.
LEMMA PlacedEmpty == Placed(<< >>, << >>, 0)
  <1>1. Len(<< >>) = 0
    BY EmptySeq
  <1> DEFINE off == [k \in 1 .. 1 |-> 0]
  <1>2. off \in [1 .. Len(<< >>) + 1 -> 0 .. Len(<< >>)] /\ off[1] = 0
    BY <1>1
  <1> HIDE DEF off
  <1> QED BY <1>1, <1>2 DEF Placed

\* Another buffer, and its addresses, at the end.
LEMMA PlacedMore ==
    ASSUME NEW w \in Seq(Buffer), NEW p \in Seq(Nat), NEW b \in Buffer,
           NEW c, Placed(w, p, c)
    PROVE  Placed(w \o <<b>>, p \o Cells(b.addr, b.len), c)
  <1> DEFINE ww == w \o <<b>>
             pp == p \o Cells(b.addr, b.len)
             n == Len(w)
             m == Len(p)
  <1>0. b.addr \in Nat /\ b.len \in Nat /\ n \in Nat /\ m \in Nat
    BY LenProperties DEF Buffer
  <1>1. /\ Len(ww) = n + 1
        /\ \A k \in 1 .. n : ww[k] = w[k]
        /\ ww[n + 1] = b
    BY OneMore
  <1>2. /\ Len(pp) = m + b.len
        /\ \A i \in 1 .. m : pp[i] = p[i]
        /\ \A i \in 1 .. b.len : pp[m + i] = b.addr + i - 1
    <2> DEFINE cc == Cells(b.addr, b.len)
    <2>1. /\ cc \in Seq(Nat) /\ Len(cc) = b.len
          /\ \A i \in 1 .. b.len : cc[i] = b.addr + i - 1
      BY <1>0, CellsType
    <2> HIDE DEF cc
    <2>2. /\ Len(p \o cc) = m + b.len
          /\ \A i \in 1 .. m + b.len :
                (p \o cc)[i] = IF i <= m THEN p[i] ELSE cc[i - m]
      <3>1. /\ Len(p \o cc) = Len(p) + Len(cc)
            /\ \A i \in 1 .. Len(p) + Len(cc) :
                  (p \o cc)[i] = IF i <= Len(p) THEN p[i] ELSE cc[i - Len(p)]
        BY <2>1, ConcatProperties
      <3> QED BY <3>1, <2>1
    <2> HIDE DEF m
    <2>3. ASSUME NEW i \in 1 .. b.len
          PROVE  (p \o cc)[m + i] = b.addr + i - 1
      <3>1. m + i \in 1 .. m + b.len /\ ~(m + i <= m) /\ (m + i) - m = i
        BY <1>0
      <3> QED BY <3>1, <2>1, <2>2
    <2>4. ASSUME NEW i \in 1 .. m
          PROVE  (p \o cc)[i] = p[i]
      <3>1. i \in 1 .. m + b.len /\ i <= m
        BY <1>0
      <3> QED BY <3>1, <2>2
    <2> QED BY <2>2, <2>3, <2>4 DEF cc
  <1>3. PICK off \in [1 .. n + 1 -> 0 .. m] :
           /\ off[1] = c
           /\ off[n + 1] = m
           /\ \A k \in 1 .. n :
                 /\ off[k + 1] = off[k] + w[k].len
                 /\ \A i \in 1 .. w[k].len : p[off[k] + i] = w[k].addr + i - 1
    BY DEF Placed
  <1> HIDE DEF ww, pp, n, m
  <1> DEFINE new == [k \in 1 .. n + 2 |-> IF k = n + 2 THEN m + b.len ELSE off[k]]
  <1>4. /\ new \in [1 .. n + 2 -> 0 .. m + b.len]
        /\ \A k \in 1 .. n + 1 : new[k] = off[k]
        /\ new[n + 2] = m + b.len
    <2>1. \A k \in 1 .. n + 2 : k # n + 2 => k \in 1 .. n + 1
      BY <1>0
    <2>2. n + 2 \in 1 .. n + 2 /\ m + b.len \in 0 .. m + b.len
          /\ \A k \in 1 .. n + 1 : k \in 1 .. n + 2 /\ k # n + 2
      BY <1>0
    <2>3. \A k \in 1 .. n + 1 : off[k] \in 0 .. m + b.len
      <3>1. \A i \in 0 .. m : i \in 0 .. m + b.len
        BY <1>0
      <3>2. \A k \in 1 .. n + 1 : off[k] \in 0 .. m
        BY <1>3
      <3> QED BY <3>1, <3>2
    <2> QED BY <2>1, <2>2, <2>3
  <1> HIDE DEF new
  <1>5. ASSUME NEW k \in 1 .. n + 1
        PROVE  /\ new[k + 1] = new[k] + ww[k].len
               /\ \A i \in 1 .. ww[k].len : pp[new[k] + i] = ww[k].addr + i - 1
    <2>1. CASE k = n + 1
      <3>1. new[k] = m /\ new[k + 1] = m + b.len /\ ww[k] = b
        BY <2>1, <1>0, <1>1, <1>3, <1>4
      <3> QED BY <3>1, <1>2
    <2>2. CASE k # n + 1
      <3>0. k \in 1 .. n /\ k + 1 \in 1 .. n + 1
        BY <2>2, <1>0
      <3>1. new[k] = off[k] /\ new[k + 1] = off[k + 1] /\ ww[k] = w[k]
        BY <3>0, <1>0, <1>1, <1>4
      <3>2. /\ off[k] \in 0 .. m /\ off[k + 1] \in 0 .. m /\ w[k].len \in Nat
            /\ off[k + 1] = off[k] + w[k].len
        <4>1. w[k] \in Buffer
          BY <3>0, ElementOfSeq DEF n
        <4> QED BY <3>0, <1>0, <1>3, <4>1 DEF Buffer
      <3>3. ASSUME NEW i \in 1 .. w[k].len
            PROVE  pp[off[k] + i] = w[k].addr + i - 1
        <4>1. off[k] + i \in 1 .. m
          <5> DEFINE o == off[k]
                     l == w[k].len
          <5>1. o \in 0 .. m /\ l \in Nat /\ o + l <= m /\ i \in 1 .. l /\ m \in Nat
            BY <3>2, <1>0
          <5> HIDE DEF o, l
          <5>2. o + i \in 1 .. m
            BY <5>1
          <5> QED BY <5>2 DEF o
        <4> QED BY <4>1, <3>0, <1>2, <1>3
      <3> QED BY <3>0, <3>1, <3>3, <1>3
    <2> QED BY <2>1, <2>2
  <1>6. new[1] = c
    BY <1>0, <1>3, <1>4
  <1>7. /\ Len(ww) + 1 = n + 2 /\ Len(ww) = n + 1
        /\ Len(pp) = m + b.len
    BY <1>0, <1>1, <1>2
  <1>8. Placed(ww, pp, c)
    <2>1. new \in [1 .. Len(ww) + 1 -> 0 .. Len(pp)] /\ new[Len(ww) + 1] = Len(pp)
      BY <1>4, <1>7
    <2>2. \A k \in 1 .. Len(ww) :
             /\ new[k + 1] = new[k] + ww[k].len
             /\ \A i \in 1 .. ww[k].len : pp[new[k] + i] = ww[k].addr + i - 1
      BY <1>5, <1>7
    <2> QED BY <1>6, <2>1, <2>2 DEF Placed
  <1> QED BY <1>8 DEF ww, pp

\* The first buffer is where it should be, and so are the others, behind it.
LEMMA PlacedTail ==
    ASSUME NEW w \in Seq(Buffer), NEW p \in Seq(Nat), NEW c, w # << >>,
           Placed(w, p, c)
    PROVE  /\ c \in Nat /\ w[1].addr \in Nat /\ w[1].len \in Nat
           /\ c + w[1].len <= Len(p)
           /\ \A i \in 1 .. w[1].len : p[c + i] = w[1].addr + i - 1
           /\ Placed(Tail(w), p, c + w[1].len)
  <1> DEFINE n == Len(w)
             m == Len(p)
             t == Tail(w)
  <1>0. n \in Nat \ {0} /\ m \in Nat
    BY EmptySeq, LenProperties
  <1>1. w[1] \in Buffer /\ w[1].addr \in Nat /\ w[1].len \in Nat
    <2>1. 1 \in 1 .. Len(w)
      BY <1>0
    <2>2. w[1] \in Buffer
      BY <2>1, ElementOfSeq
    <2> QED BY <2>2 DEF Buffer
  <1>2. Len(t) = n - 1 /\ \A k \in 1 .. n - 1 : t[k] = w[k + 1]
    BY HeadTailProperties
  <1>3. PICK off \in [1 .. n + 1 -> 0 .. m] :
           /\ off[1] = c
           /\ off[n + 1] = m
           /\ \A k \in 1 .. n :
                 /\ off[k + 1] = off[k] + w[k].len
                 /\ \A i \in 1 .. w[k].len : p[off[k] + i] = w[k].addr + i - 1
    BY DEF Placed
  <1> HIDE DEF n, m, t
  <1>4. c \in 0 .. m /\ off[2] = c + w[1].len /\ off[2] \in 0 .. m
    <2>1. 1 \in 1 .. n /\ 1 \in 1 .. n + 1 /\ 2 \in 1 .. n + 1 /\ 1 + 1 = 2
      BY <1>0
    <2> QED BY <2>1, <1>3
  <1> DEFINE new == [k \in 1 .. n |-> off[k + 1]]
  <1>5. new \in [1 .. n -> 0 .. m] /\ \A k \in 1 .. n : new[k] = off[k + 1]
    <2>1. \A k \in 1 .. n : k + 1 \in 1 .. n + 1
      BY <1>0
    <2>2. \A k \in 1 .. n : off[k + 1] \in 0 .. m
      BY <2>1, <1>3
    <2> QED BY <2>2
  <1> HIDE DEF new
  <1>6. ASSUME NEW k \in 1 .. n - 1
        PROVE  /\ new[k + 1] = new[k] + t[k].len
               /\ \A i \in 1 .. t[k].len : p[new[k] + i] = t[k].addr + i - 1
    <2>1. k + 1 \in 1 .. n /\ k \in 1 .. n
      BY <1>0
    <2>2. new[k] = off[k + 1] /\ new[k + 1] = off[(k + 1) + 1] /\ t[k] = w[k + 1]
      BY <2>1, <1>2, <1>5
    <2> QED BY <2>1, <2>2, <1>3
  <1>7. new[1] = c + w[1].len /\ new[n] = m /\ (n - 1) + 1 = n
    BY <1>0, <1>3, <1>4, <1>5
  <1>8. Placed(t, p, c + w[1].len)
    <2>1. Len(t) + 1 = n /\ Len(t) = n - 1
      BY <1>0, <1>2
    <2>2. new \in [1 .. Len(t) + 1 -> 0 .. Len(p)] /\ new[Len(t) + 1] = Len(p)
      BY <2>1, <1>5, <1>7 DEF m
    <2>3. \A k \in 1 .. Len(t) :
             /\ new[k + 1] = new[k] + t[k].len
             /\ \A i \in 1 .. t[k].len : p[new[k] + i] = t[k].addr + i - 1
      BY <2>1, <1>6
    <2> QED BY <1>7, <2>2, <2>3 DEF Placed
  <1>9. c \in Nat /\ c + w[1].len <= m
    BY <1>0, <1>1, <1>4
  <1>10. \A i \in 1 .. w[1].len : p[c + i] = w[1].addr + i - 1
    <2>1. 1 \in 1 .. n
      BY <1>0
    <2> QED BY <2>1, <1>3
  <1> QED BY <1>1, <1>8, <1>9, <1>10 DEF t, m

-----------------------------------------------------------------------------
\* Nothing is promised and nothing written.
LEMMA InitScatter == Init => ScatterInv
  <1> SUFFICES ASSUME Init PROVE ScatterInv
    OBVIOUS
  <1>1. Len(<< >>) = 0
    BY EmptySeq
  <1> QED BY <1>1 DEF Init, ScatterInv

\* One buffer of the scatter loop: the piece is a prefix of the buffer, and the
\* next buffer is aligned with what follows, unless the response is used up.
LEMMA ScatterBufferStep ==
    ASSUME Types, ScatterInv, ScatterBuffer
    PROVE  ScatterInv'
  <1>1. pc = "scatter" /\ writable # << >> /\ cursor < response
        /\ promised' = promised /\ response' = response /\ used' = used
    BY DEF ScatterBuffer
  <1>2. Placed(writable, promised, cursor)
    BY <1>1 DEF ScatterInv, Types
  <1>3. /\ writable[1].addr \in Nat /\ writable[1].len \in Nat
        /\ cursor + writable[1].len <= Len(promised)
        /\ \A i \in 1 .. writable[1].len :
              promised[cursor + i] = writable[1].addr + i - 1
        /\ Placed(Tail(writable), promised, cursor + writable[1].len)
    BY <1>1, <1>2, PlacedTail DEF Types
  <1>4. Piece \in Nat /\ Piece <= writable[1].len /\ cursor + Piece <= response
        /\ (cursor + Piece = response \/ Piece = writable[1].len)
    BY <1>1, <1>3 DEF Piece, Types
  <1>5. cursor \in Nat /\ response \in Nat /\ Len(promised) \in Nat
    BY LenProperties DEF Types
  <1> DEFINE a == writable[1].addr
             l == writable[1].len
             n == Piece
  <1>6. CASE InRange(writable[1].addr, Piece)
    <2>1. /\ cursor' = cursor + n
          /\ touched' = touched \cup {Cells(a, n)[i] : i \in 1 .. n}
          /\ writable' = Tail(writable)
          /\ pc' = pc
      BY <1>6 DEF ScatterBuffer
    <2>2. a + n <= RegionLen
      BY <1>6 DEF InRange
    <2>3. \A i \in 1 .. n : Cells(a, n)[i] = a + i - 1
      BY <1>3, <1>4, CellsType
    <2> HIDE DEF a, l, n
    <2>4. a \in Nat /\ l \in Nat /\ n \in Nat /\ n <= l
          /\ \A i \in 1 .. l : promised[cursor + i] = a + i - 1
      BY <1>3, <1>4 DEF a, l, n
    <2>5. \A i \in 1 .. n : Cells(a, n)[i] = promised[cursor + i]
      BY <2>3, <2>4
    <2>6. {promised[i] : i \in 1 .. cursor + n}
            = {promised[i] : i \in 1 .. cursor} \cup {Cells(a, n)[i] : i \in 1 .. n}
      <3>1. ASSUME NEW i \in 1 .. n
            PROVE  Cells(a, n)[i] \in {promised[j] : j \in 1 .. cursor + n}
        <4>1. cursor + i \in 1 .. cursor + n
          BY <1>5, <2>4
        <4> QED BY <4>1, <2>5
      <3>2. ASSUME NEW i \in 1 .. cursor + n
            PROVE  \/ i \in 1 .. cursor
                   \/ \E j \in 1 .. n : promised[i] = Cells(a, n)[j]
        <4>1. CASE i <= cursor
          BY <4>1, <1>5, <2>4
        <4>2. CASE ~(i <= cursor)
          <5>1. i - cursor \in 1 .. n /\ cursor + (i - cursor) = i
            BY <4>2, <1>5, <2>4
          <5> QED BY <5>1, <2>5
        <4> QED BY <4>1, <4>2
      <3>3. \A i \in 1 .. cursor : i \in 1 .. cursor + n
        BY <1>5, <2>4
      <3> QED BY <3>1, <3>2, <3>3
    <2>7. touched' = {promised'[i] : i \in 1 .. cursor'}
      BY <1>1, <2>1, <2>6 DEF ScatterInv
    <2>8. \A c \in touched' : c < RegionLen
      <3>1. \A i \in 1 .. n : Cells(a, n)[i] < RegionLen
        BY <2>2, <2>3, <2>4, RegionAssumption
      <3> QED BY <2>1, <3>1 DEF ScatterInv
    <2>9. cursor' <= Len(promised') /\ cursor' <= response'
      BY <1>1, <1>3, <1>4, <1>5, <2>1, <2>4 DEF l, n
    <2>10. cursor' = response' \/ Placed(writable', promised', cursor')
      BY <1>1, <1>3, <1>4, <2>1 DEF n
    <2> QED BY <1>1, <2>1, <2>7, <2>8, <2>9, <2>10 DEF ScatterInv
  <1>7. CASE ~InRange(writable[1].addr, Piece)
    BY <1>7, <1>1 DEF ScatterBuffer, ScatterInv
  <1> QED BY <1>6, <1>7

\* Every step keeps the invariant.
LEMMA ScatterStep == Types /\ ScatterInv /\ [Next]_vars => ScatterInv'
  <1> SUFFICES ASSUME Types, ScatterInv, [Next]_vars PROVE ScatterInv'
    OBVIOUS
  <1>1. CASE PopChainHead
    <2>1. Len(<< >>) = 0
      BY EmptySeq
    <2>2. pc' = "walk" /\ cursor' = 0 /\ touched' = {}
          /\ promised' = << >> /\ writable' = << >>
      BY <1>1 DEF PopChainHead
    <2> QED BY <2>1, <2>2, PlacedEmpty DEF ScatterInv
  <1>2. CASE WalkDescriptor
    <2>1. pc = "walk" /\ pc' = "walk" /\ cursor' = cursor /\ touched' = touched
      BY <1>2 DEF WalkDescriptor
    <2>2. cursor = 0 /\ touched = {} /\ Placed(writable, promised, cursor)
      BY <2>1 DEF ScatterInv
    <2>3. PICK d \in GuestDescriptor :
            /\ writable' = IF d.write
                             THEN writable \o <<[addr |-> d.addr, len |-> d.len]>>
                             ELSE writable
            /\ promised' = IF d.write THEN promised \o Cells(d.addr, d.len)
                                      ELSE promised
      BY <1>2 DEF WalkDescriptor
    <2>4. Placed(writable', promised', cursor)
      <3>1. CASE d.write
        <4> DEFINE b == [addr |-> d.addr, len |-> d.len]
        <4>1. b \in Buffer
          BY Fields DEF Buffer
        <4>2. b.addr = d.addr /\ b.len = d.len
          OBVIOUS
        <4>3. writable' = writable \o <<b>> /\ promised' = promised \o Cells(b.addr, b.len)
          BY <3>1, <2>3
        <4> HIDE DEF b
        <4> QED BY <4>1, <4>3, <2>2, PlacedMore DEF Types
      <3>2. CASE ~d.write
        BY <3>2, <2>2, <2>3
      <3> QED BY <3>1, <3>2
    <2>5. Len(promised') \in Nat
      <3>1. promised' \in Seq(Nat)
        <4>1. Cells(d.addr, d.len) \in Seq(Nat)
          BY Fields, CellsType
        <4>2. promised \o Cells(d.addr, d.len) \in Seq(Nat)
          BY <4>1, ConcatProperties DEF Types
        <4> QED BY <2>3, <4>2 DEF Types
      <3> QED BY <3>1, LenProperties
    <2> QED BY <2>1, <2>2, <2>4, <2>5 DEF ScatterInv
  <1>3. CASE RejectChain
    BY <1>3 DEF RejectChain, ScatterInv
  <1>4. CASE Gather
    BY <1>4, FieldsAssumption DEF Gather, ScatterInv
  <1>5. CASE ScatterBuffer
    BY <1>5, ScatterBufferStep
  <1>6. CASE ScatterDone
    BY <1>6 DEF ScatterDone, chainVars, ScatterInv
  <1>7. CASE AddUsed
    BY <1>7 DEF AddUsed, UsedLen, chainVars, ScatterInv
  <1>8. CASE UNCHANGED vars
    BY <1>8 DEF vars, ScatterInv
  <1> QED BY <1>1, <1>2, <1>3, <1>4, <1>5, <1>6, <1>7, <1>8 DEF Next

\* Whatever the driver writes, wherever its buffers lie and whatever the device
\* refuses, a completion reports a prefix of the chain's writable bytes, all of
\* which were written, and nothing else was (Device::process, SharedMem::range).
THEOREM ReportedInvariant == Spec => []ReportedBytesWereWritten
  <1>1. WalkInv => Types BY DEF WalkInv
  <1>2. Spec => []ScatterInv
    BY <1>1, WalkAlways, InitScatter, ScatterStep, PTL DEF Spec
  <1>3. ScatterInv => ReportedBytesWereWritten
    BY DEF ScatterInv, ReportedBytesWereWritten
  <1> QED BY <1>2, <1>3, PTL
-----------------------------------------------------------------------------
\* The walk of the chain in hand has failed.
ChainRefused == \E i \in DOMAIN rejected : rejected[i] = "Chain"

\* A refused walk has written nothing, and a chain that is done with and about
\* which nothing is recorded has received what its buffers hold.
AccountInv ==
    /\ rejected \in Seq({"Chain", "Buffer"})
    /\ pc = "walk" => rejected = << >> /\ touched = {}
    /\ pc = "scatter" => ~ChainRefused
    /\ ChainRefused => cursor = 0 /\ touched = {}
    /\ pc \in {"complete", "pop"} /\ rejected = << >> =>
          cursor = IF response < Len(promised) THEN response ELSE Len(promised)

\* No buffers left: the end of what was promised.
LEMMA PlacedNone ==
    ASSUME NEW p, NEW c, Placed(<< >>, p, c)
    PROVE  c = Len(p)
  <1>1. Len(<< >>) = 0
    BY EmptySeq
  <1>2. Len(<< >>) + 1 = 1
    BY <1>1
  <1> QED BY <1>2 DEF Placed

\* An entry at the end is an entry.
LEMMA Recorded ==
    ASSUME NEW s \in Seq({"Chain", "Buffer"}), NEW e \in {"Chain", "Buffer"}
    PROVE  /\ Append(s, e) \in Seq({"Chain", "Buffer"})
           /\ Append(s, e) # << >>
           /\ (\E i \in DOMAIN Append(s, e) : Append(s, e)[i] = "Chain") =>
                 e = "Chain" \/ \E i \in DOMAIN s : s[i] = "Chain"
  <1>1. /\ Append(s, e) \in Seq({"Chain", "Buffer"})
        /\ Append(s, e) # << >>
        /\ Len(Append(s, e)) = Len(s) + 1
        /\ \A i \in 1 .. Len(s) : Append(s, e)[i] = s[i]
        /\ Append(s, e)[Len(s) + 1] = e
    BY AppendProperties
  <1>2. Len(s) \in Nat /\ DOMAIN s = 1 .. Len(s)
        /\ DOMAIN Append(s, e) = 1 .. Len(Append(s, e))
    BY <1>1, LenProperties
  <1>3. \A i \in 1 .. Len(s) + 1 : i \in 1 .. Len(s) \/ i = Len(s) + 1
    BY <1>2
  <1> QED BY <1>1, <1>2, <1>3

\* The gather loop records buffers only.
LEMMA Gathered ==
    ASSUME Types, Gather, rejected = << >>
    PROVE  /\ rejected' \in Seq({"Chain", "Buffer"})
           /\ \A i \in DOMAIN rejected' : rejected'[i] = "Buffer"
  <1> DEFINE outside == {k \in DOMAIN readable :
                            ~InRange(readable[k].addr, readable[k].len)}
             n == Cardinality(outside)
             entries == [i \in 1 .. n |-> "Buffer"]
  <1>1. rejected' = rejected \o entries
    BY DEF Gather
  <1>2. n \in Nat
    <2>1. DOMAIN readable = 1 .. Len(readable) /\ Len(readable) \in Nat
      BY LenProperties DEF Types
    <2>2. IsFiniteSet(DOMAIN readable)
      BY <2>1, FS_Interval
    <2>3. IsFiniteSet(outside)
      BY <2>2, FS_Subset
    <2> QED BY <2>3, FS_CardinalityType
  <1> HIDE DEF n
  <1>3. entries \in Seq({"Chain", "Buffer"})
    <2>1. entries \in [1 .. n -> {"Chain", "Buffer"}]
      OBVIOUS
    <2> QED BY <1>2, <2>1, SeqDef
  <1>4. rejected \o entries = entries
    BY <1>3, ConcatEmptySeq
  <1> QED BY <1>1, <1>3, <1>4

\* No chain has been taken up when the device starts.
LEMMA InitAccount == Init => AccountInv
  <1> SUFFICES ASSUME Init PROVE AccountInv
    OBVIOUS
  <1>1. << >> \in Seq({"Chain", "Buffer"}) /\ Len(<< >>) = 0 /\ DOMAIN << >> = {}
    BY EmptySeq
  <1> QED BY <1>1 DEF Init, AccountInv, ChainRefused

\* Every step keeps the invariant.
LEMMA AccountStep == Types /\ ScatterInv /\ AccountInv /\ [Next]_vars => AccountInv'
  <1> SUFFICES ASSUME Types, ScatterInv, AccountInv, [Next]_vars
               PROVE  AccountInv'
    OBVIOUS
  <1>0. << >> \in Seq({"Chain", "Buffer"}) /\ DOMAIN << >> = {}
    BY EmptySeq
  <1>1. CASE PopChainHead
    BY <1>0, <1>1 DEF PopChainHead, AccountInv, ChainRefused
  <1>2. CASE WalkDescriptor
    <2>1. pc = "walk" /\ pc' = "walk" /\ rejected' = rejected /\ touched' = touched
          /\ cursor' = cursor
      BY <1>2 DEF WalkDescriptor
    <2> QED BY <2>1 DEF AccountInv, ChainRefused
  <1>3. CASE RejectChain
    <2>1. /\ pc = "walk" /\ pc' = "complete" /\ cursor' = 0 /\ touched' = touched
          /\ rejected' = Append(rejected, "Chain")
      BY <1>3 DEF RejectChain
    <2>2. rejected \in Seq({"Chain", "Buffer"}) /\ touched = {}
      BY <2>1 DEF AccountInv
    <2>3. rejected' \in Seq({"Chain", "Buffer"}) /\ rejected' # << >>
      BY <2>1, <2>2, Recorded
    <2> QED BY <2>1, <2>2, <2>3 DEF AccountInv, ChainRefused
  <1>4. CASE Gather
    <2>1. pc = "walk" /\ pc' = "scatter"
      BY <1>4 DEF Gather
    <2>2. rejected = << >>
      BY <2>1 DEF AccountInv
    <2>3. /\ rejected' \in Seq({"Chain", "Buffer"})
          /\ \A i \in DOMAIN rejected' : rejected'[i] = "Buffer"
      BY <1>4, <2>2, Gathered
    <2> QED BY <2>1, <2>3 DEF AccountInv, ChainRefused
  <1>5. CASE ScatterBuffer
    <2>1. pc = "scatter" /\ ~ChainRefused /\ rejected \in Seq({"Chain", "Buffer"})
      BY <1>5 DEF ScatterBuffer, AccountInv
    <2>2. CASE InRange(writable[1].addr, Piece)
      <3>1. pc' = pc /\ rejected' = rejected
        BY <1>5, <2>2 DEF ScatterBuffer
      <3> QED BY <2>1, <3>1 DEF AccountInv, ChainRefused
    <2>3. CASE ~InRange(writable[1].addr, Piece)
      <3>1. pc' = "complete" /\ rejected' = Append(rejected, "Buffer")
        BY <1>5, <2>3 DEF ScatterBuffer
      <3>2. /\ rejected' \in Seq({"Chain", "Buffer"})
            /\ rejected' # << >>
            /\ ~ChainRefused'
        BY <2>1, <3>1, Recorded DEF ChainRefused
      <3> QED BY <3>1, <3>2 DEF AccountInv
    <2> QED BY <2>2, <2>3
  <1>6. CASE ScatterDone
    <2>1. /\ pc = "scatter" /\ pc' = "complete"
          /\ writable = << >> \/ cursor >= response
          /\ UNCHANGED <<cursor, response, promised, touched, rejected>>
      BY <1>6 DEF ScatterDone, chainVars
    <2>2. /\ cursor \in Nat /\ response \in Nat /\ Len(promised) \in Nat
          /\ cursor <= Len(promised) /\ cursor <= response
          /\ cursor = response \/ Placed(writable, promised, cursor)
      BY <2>1, LenProperties DEF Types, ScatterInv
    <2>3. cursor = response \/ cursor = Len(promised)
      <3>1. CASE cursor >= response
        BY <3>1, <2>2
      <3>2. CASE writable = << >>
        BY <3>2, <2>2, PlacedNone
      <3> QED BY <3>1, <3>2, <2>1
    <2>4. cursor = IF response < Len(promised) THEN response ELSE Len(promised)
      BY <2>2, <2>3
    <2> QED BY <2>1, <2>4 DEF AccountInv, ChainRefused
  <1>7. CASE AddUsed
    BY <1>7 DEF AddUsed, chainVars, AccountInv, ChainRefused
  <1>8. CASE UNCHANGED vars
    BY <1>8 DEF vars, AccountInv, ChainRefused
  <1> QED BY <1>1, <1>2, <1>3, <1>4, <1>5, <1>6, <1>7, <1>8 DEF Next

\* Whatever the driver writes, nothing is lost without a trace: a chain whose
\* walk failed is completed with length 0, and one with no entry in
\* stats.rejected receives the whole response or all of it that its buffers hold
\* (Device::process).
THEOREM ShortfallInvariant == Spec => []ShortfallIsAccounted
  <1>1. WalkInv => Types BY DEF WalkInv
  <1>2. Spec => []AccountInv
    BY <1>1, WalkAlways, InitScatter, ScatterStep, InitAccount, AccountStep, PTL
       DEF Spec
  <1>3. ScatterInv /\ AccountInv => ShortfallIsAccounted
    BY DEF ScatterInv, AccountInv, ChainRefused, ShortfallIsAccounted
  <1>4. Spec => []ScatterInv
    BY <1>1, WalkAlways, InitScatter, ScatterStep, PTL DEF Spec
  <1> QED BY <1>2, <1>3, <1>4, PTL
=============================================================================

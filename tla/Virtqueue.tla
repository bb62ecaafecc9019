------------------------------ MODULE Virtqueue -----------------------------
(***************************************************************************)
(* One split virtqueue: the driver half (driver.rs), the device half       *)
(* (device.rs) and the memory they share (mem.rs, layout.rs), all under    *)
(* rung-02-virtio/toy-virtq-raw/src.                                       *)
(*                                                                         *)
(* The two halves are concurrent actors.  A method is split at each access *)
(* to memory the other side may write or read meanwhile; everything that   *)
(* is private to one side between two such accesses is one step.  Release  *)
(* and acquire order every pair of accesses but a store followed by a      *)
(* load; memory is sequentially consistent here, and KickRace is about     *)
(* that pair.                                                              *)
(*                                                                         *)
(* Driver.avail_idx and avail.idx are one variable, and so are             *)
(* Device.next_used and used.idx: each is written by one side only, which  *)
(* stores its private copy in the step that changes it.                    *)
(***************************************************************************)
EXTENDS Chain, Sequences

CONSTANTS
    EventIdx,      \* the event_idx argument of Driver::new and Device::new
    Buffers,       \* buffers a request is made of: records [addr, len, write]
    Requests,      \* what callers hand to add_chain: sequences of buffers
    MaxResponse,   \* bound: bytes the device's work function returns
    ArmDrained,    \* TRUE: the driver arms used_event only with no chain
                   \* outstanding, as bench_notification does; FALSE: any time
    ShortPasses    \* TRUE: the driver lets a process() pass end before it has
                   \* completed Modulus chains; FALSE: passes of any length

ASSUME EventIdxAssumption == EventIdx \in BOOLEAN
ASSUME BuffersAssumption ==
    \A b \in Buffers : b \in [addr : {b.addr}, len : Nat, write : BOOLEAN]

\* What add_chain asserts of its argument: at least one buffer, and the
\* device-readable ones before the device-writable ones.
WellFormed(b) ==
    /\ b # << >>
    /\ \A i \in 1 .. Len(b) - 1 : b[i].write => b[i + 1].write

\* The bytes of the first i buffers of a request, for every i.
IsTotals(b, total) ==
    /\ total[0] = 0
    /\ \A i \in 1 .. Len(b) : total[i] = total[i - 1] + b[i].len

ASSUME RequestsAssumption == \A b \in Requests : b \in Seq(Buffers) /\ WellFormed(b)

\* Callers keep a chain below the bytes a device accepts (VIRTIO 1.2, 2.7.5.2, in
\* TooManyBytes): their buffers are parts of one region of 64 KiB.
ASSUME BytesAssumption ==
    \A b \in Requests :
        \E total \in [0 .. Len(b) -> 0 .. ByteLimit - 1] : IsTotals(b, total)
ASSUME BoundsAssumption == MaxResponse \in Nat
ASSUME CallersAssumption == ArmDrained \in BOOLEAN /\ ShortPasses \in BOOLEAN

VARIABLES
    \* --- shared memory, written by the driver
    desc,          \* the descriptor table
    avail_ring,    \* avail.ring
    avail_idx,     \* avail.idx and Driver.avail_idx
    used_event,    \* driver to device: interrupt me past this completion
    \* --- shared memory, written by the device
    used_ring,     \* used.ring
    used_idx,      \* used.idx and Device.next_used
    avail_event,   \* device to driver: kick me past this submission
    no_notify,     \* VIRTQ_USED_F_NO_NOTIFY in used.flags
    \* --- the two doorbells (external): sticky, consumed when their side wakes
    kick,
    irq,
    \* --- driver private
    dpc,           \* where the driver is
    free_descs,    \* free list, a stack
    outstanding,   \* head -> descriptors of its chain; << >> when absent
    last_kick, last_used,
    bufs,          \* the argument of add_chain
    indices,       \* the descriptors popped for it
    pos,           \* the next of them to write
    used_seen,     \* the used.idx collect_used loaded
    armed,         \* the caller armed used_event and collected nothing since
    \* --- device private
    vpc,           \* where the device is
    next_avail, num_added,
    head,          \* the chain in hand
    it,            \* its ChainIter
    walked,        \* the buffers collected from it
    capacity,      \* bytes its device-writable buffers hold
    err,           \* its ChainError, or NoError
    \* --- history, read by no action
    request,       \* head -> the buffers the driver submitted under it
    arrived        \* a completion was published since used_event was armed

sharedByDriver == <<desc, avail_ring, avail_idx, used_event>>
sharedByDevice == <<used_ring, used_idx, avail_event, no_notify>>
addChainVars == <<bufs, indices, pos>>
driverVars == <<dpc, free_descs, outstanding, last_kick, last_used, bufs,
                indices, pos, used_seen, armed, request, arrived>>
walkVars == <<head, it, walked, capacity, err>>
deviceVars == <<vpc, next_avail, num_added, head, it, walked, capacity, err>>
vars == <<desc, avail_ring, avail_idx, used_event,
          used_ring, used_idx, avail_event, no_notify, kick, irq,
          dpc, free_descs, outstanding, last_kick, last_used, bufs,
          indices, pos, used_seen, armed, request, arrived,
          vpc, next_avail, num_added, head, it, walked, capacity, err>>

Descriptor ==
    [addr : {b.addr : b \in Buffers} \cup {0}, len : Nat, write : BOOLEAN,
     has_next : BOOLEAN, next : Desc, indirect : BOOLEAN]

\* What zeroed memory holds.
ZeroDesc == [addr |-> 0, len |-> 0, write |-> FALSE,
             has_next |-> FALSE, next |-> 0, indirect |-> FALSE]

Min2(a, b) == IF a <= b THEN a ELSE b

Init ==
    /\ desc = [d \in Desc |-> ZeroDesc]
    /\ avail_ring = [s \in Desc |-> 0]
    /\ avail_idx = 0
    /\ used_event = 0
    /\ used_ring = [s \in Desc |-> [id |-> 0, len |-> 0]]
    /\ used_idx = 0
    /\ avail_event = 0
    /\ no_notify = FALSE
    /\ kick = FALSE
    /\ irq = FALSE
    \* Driver::new
    /\ dpc = "idle"
    /\ free_descs = [i \in 1 .. QueueSize |-> QueueSize - i]
    /\ outstanding = [d \in Desc |-> << >>]
    /\ last_kick = 0
    /\ last_used = 0
    /\ bufs = << >>
    /\ indices = << >>
    /\ pos = 1
    /\ used_seen = 0
    /\ armed = FALSE
    \* Device::new
    /\ vpc = "sleep"
    /\ next_avail = 0
    /\ num_added = 0
    /\ head = 0
    /\ it = NewIter(0)
    /\ walked = << >>
    /\ capacity = 0
    /\ err = NoError
    /\ request = [d \in Desc |-> << >>]
    /\ arrived = FALSE

-----------------------------------------------------------------------------
(***************************************************************************)
(* The driver.                                                             *)
(***************************************************************************)

\* add_chain up to its first store: pop the descriptors, remember the chain.
\* OutOfDescriptors returns an error and changes nothing.  ShortPasses is about
\* the caller: at most QueueSize chains can still join the pass in progress.
AddChain(b) ==
    /\ dpc \in {"idle", "submitted"}
    /\ Len(b) <= Len(free_descs)
    /\ ShortPasses => num_added + QueueSize < Modulus
    /\ LET n == Len(free_descs)
           popped == [i \in 1 .. Len(b) |-> free_descs[n - i + 1]]
       IN  /\ free_descs' = SubSeq(free_descs, 1, n - Len(b))
           /\ indices' = popped
           /\ outstanding' = [outstanding EXCEPT ![popped[1]] = popped]
           /\ request' = [request EXCEPT ![popped[1]] = b]
    /\ bufs' = b
    /\ pos' = 1
    /\ dpc' = "desc"
    /\ UNCHANGED <<sharedByDriver, sharedByDevice, kick, irq, deviceVars,
                   last_kick, last_used, used_seen, armed, arrived>>

\* Mutant of NextIndex: off by one, a descriptor links to itself.
NextIndexSelf == IF pos = Len(bufs) THEN 0 ELSE indices[pos]

\* The next field of the descriptor being written.
NextIndex == IF pos = Len(bufs) THEN 0 ELSE indices[pos + 1]

\* Step 1 of add_chain, one descriptor: only the last has no F_NEXT.
WriteDescriptor ==
    /\ dpc = "desc"
    /\ LET last == pos = Len(bufs)
       IN  /\ desc' = [desc EXCEPT ![indices[pos]] =
                [addr |-> bufs[pos].addr, len |-> bufs[pos].len,
                 write |-> bufs[pos].write, has_next |-> ~last,
                 next |-> NextIndex,
                 indirect |-> FALSE]]
           /\ dpc' = IF last THEN "slot" ELSE "desc"
    /\ pos' = pos + 1
    /\ UNCHANGED <<avail_ring, avail_idx, used_event, sharedByDevice, kick, irq,
                   deviceVars, free_descs, outstanding, last_kick, last_used,
                   bufs, indices, used_seen, armed, request, arrived>>

\* Step 2 of add_chain: the head goes into the ring slot.
WriteSlot ==
    /\ dpc = "slot"
    /\ avail_ring' = [avail_ring EXCEPT ![Slot(avail_idx)] = indices[1]]
    /\ dpc' = "idx"
    /\ UNCHANGED <<desc, avail_idx, used_event, sharedByDevice, kick, irq,
                   deviceVars, free_descs, outstanding, last_kick, last_used,
                   addChainVars, used_seen, armed, request,
                   arrived>>

\* Steps 3 and 4 of add_chain: store_idx_release makes the chain visible.
\* The locals of add_chain are dropped.
PublishIdx ==
    /\ dpc = "idx"
    /\ avail_idx' = Inc(avail_idx)
    /\ dpc' = "submitted"
    /\ bufs' = << >>
    /\ indices' = << >>
    /\ pos' = 1
    /\ UNCHANGED <<desc, avail_ring, used_event, sharedByDevice, kick, irq,
                   deviceVars, free_descs, outstanding, last_kick, last_used,
                   used_seen, armed, request, arrived>>

\* Mutant of KickNeeded: the exact rule "notify when idx = event + 1".
KickOnEquality == ~EventIdx \/ avail_idx = Inc(avail_event)

\* The answer of needs_kick.  It never looks at used.flags.
KickNeeded == ~EventIdx \/ need_event(avail_event, avail_idx, last_kick)

\* needs_kick, and the caller rings the doorbell if it says so.
NeedsKick ==
    /\ dpc = "submitted"
    /\ last_kick' = avail_idx
    /\ kick' = (kick \/ KickNeeded)
    /\ dpc' = "idle"
    /\ UNCHANGED <<sharedByDriver, sharedByDevice, irq, deviceVars, free_descs,
                   outstanding, last_used, addChainVars, used_seen, armed, request,
                   arrived>>

\* arm_used_event.  Arming again before collecting stores the same value.
ArmUsedEvent ==
    /\ dpc = "idle"
    /\ ~armed
    /\ ArmDrained => \A d \in Desc : outstanding[d] = << >>
    /\ used_event' = last_used
    /\ armed' = TRUE
    /\ arrived' = FALSE
    /\ UNCHANGED <<desc, avail_ring, avail_idx, sharedByDevice, kick, irq,
                   deviceVars, dpc, free_descs, outstanding, last_kick,
                   last_used, addChainVars, used_seen, request>>

\* The load-acquire of collect_used.  A completion uses up the arming.
LoadUsedIdx ==
    /\ used_seen' = used_idx
    /\ dpc' = IF used_idx = last_used THEN "idle" ELSE "collect"
    /\ armed' = (armed /\ used_idx = last_used)

\* A driver that polls: collect_used with something to collect.
CollectBegin ==
    /\ dpc = "idle"
    /\ used_idx # last_used
    /\ LoadUsedIdx
    /\ UNCHANGED <<sharedByDriver, sharedByDevice, kick, irq, deviceVars,
                   free_descs, outstanding, last_kick, last_used, addChainVars,
                   request, arrived>>

\* Mutant of ReturnedBy: frees only the head the used ring names.
ReturnedHeadOnly(id) == IF outstanding[id] = << >> THEN << >> ELSE <<id>>

\* The descriptors a completion gives back: the whole chain the driver
\* remembers under id, and nothing for an id it does not know.
ReturnedBy(id) == outstanding[id]

\* One iteration of collect_used: read a used element, free its chain, advance.
CollectOne ==
    /\ dpc = "collect"
    /\ LET id == used_ring[Slot(last_used)].id
       IN  /\ free_descs' = free_descs \o ReturnedBy(id)
           /\ outstanding' = [outstanding EXCEPT ![id] = << >>]
           /\ request' = [request EXCEPT ![id] = << >>]
    /\ last_used' = Inc(last_used)
    /\ dpc' = IF Inc(last_used) = used_seen THEN "idle" ELSE "collect"
    /\ UNCHANGED <<sharedByDriver, sharedByDevice, kick, irq, deviceVars,
                   last_kick, addChainVars, used_seen, armed, arrived>>

\* A driver that has armed its threshold and has chains out stops polling...
WaitForInterrupt ==
    /\ dpc = "idle"
    /\ armed
    /\ \E d \in Desc : outstanding[d] # << >>
    /\ dpc' = "wait"
    /\ UNCHANGED <<sharedByDriver, sharedByDevice, kick, irq, deviceVars,
                   free_descs, outstanding, last_kick, last_used, addChainVars,
                   used_seen, armed, request, arrived>>

\* ... until the interrupt arrives, and collects.
TakeInterrupt ==
    /\ dpc = "wait"
    /\ irq
    /\ irq' = FALSE
    /\ LoadUsedIdx
    /\ UNCHANGED <<sharedByDriver, sharedByDevice, kick, deviceVars, free_descs,
                   outstanding, last_kick, last_used, addChainVars, request,
                   arrived>>

-----------------------------------------------------------------------------
(***************************************************************************)
(* The device.                                                             *)
(***************************************************************************)

\* The doorbell wakes the device, whose caller enters process().
TakeKick ==
    /\ vpc = "sleep"
    /\ kick
    /\ kick' = FALSE
    /\ vpc' = "pop"
    /\ UNCHANGED <<sharedByDriver, sharedByDevice, irq, driverVars, next_avail,
                   num_added, walkVars>>

\* disable_notification, which a caller may use before process().
DisableNotification ==
    /\ vpc = "pop"
    /\ ~EventIdx
    /\ ~no_notify
    /\ no_notify' = TRUE
    /\ UNCHANGED <<sharedByDriver, used_ring, used_idx, avail_event, kick, irq,
                   driverVars, deviceVars>>

\* available(): chains published and not consumed, by wrapping subtraction.
Available == Dist(avail_idx, next_avail)

\* Mutant of PopLoad: off by one, the last chain is left in the ring.
PopLoadLeavesLast ==
    /\ vpc = "pop"
    /\ vpc' = IF Available <= 1 THEN "notify" ELSE "slot"
    /\ UNCHANGED <<sharedByDriver, sharedByDevice, kick, irq, driverVars,
                   next_avail, num_added, walkVars>>

\* available() in pop_chain_head: the load-acquire of avail.idx.
PopLoad ==
    /\ vpc = "pop"
    /\ vpc' = IF Available = 0 THEN "notify" ELSE "slot"
    /\ UNCHANGED <<sharedByDriver, sharedByDevice, kick, irq, driverVars,
                   next_avail, num_added, walkVars>>

\* The rest of pop_chain_head, and ChainIter::new.
PopSlot ==
    /\ vpc = "slot"
    /\ head' = avail_ring[Slot(next_avail)]
    /\ next_avail' = Inc(next_avail)
    /\ it' = NewIter(head')
    /\ walked' = << >>
    /\ capacity' = 0
    /\ err' = NoError
    /\ vpc' = "walk"
    /\ UNCHANGED <<sharedByDriver, sharedByDevice, kick, irq, driverVars,
                   num_added>>

\* One ChainIter::next in process(): collect the descriptor, or stop on error.
WalkDescriptor ==
    /\ vpc = "walk"
    /\ LET e == IterError(it, desc)
           d == desc[it.next_index]
       IN  IF e = NoError
             THEN /\ it' = IterAfter(it, d)
                  /\ walked' = Append(walked,
                        [addr |-> d.addr, len |-> d.len, write |-> d.write])
                  /\ capacity' = IF d.write THEN capacity + d.len ELSE capacity
                  /\ vpc' = IF d.has_next THEN "walk" ELSE "respond"
                  /\ UNCHANGED err
             ELSE /\ it' = IterFailed(it)
                  /\ err' = e
                  /\ vpc' = "respond"
                  /\ UNCHANGED <<walked, capacity>>
    /\ UNCHANGED <<sharedByDriver, sharedByDevice, kick, irq, driverVars,
                   next_avail, num_added, head>>

\* Mutant of UsedSlot: fills the slot after the one it advertises.
UsedSlotAhead == Slot(Inc(used_idx))

\* The slot add_used fills.
UsedSlot == Slot(used_idx)

\* The end of process() for one chain, up to the element add_used writes: the
\* work function returns any number of bytes, truncated to what the writable
\* buffers hold; a rejected chain is completed with length 0.
Respond ==
    /\ vpc = "respond"
    /\ \E n \in 0 .. MaxResponse :
          used_ring' = [used_ring EXCEPT ![UsedSlot] =
              [id |-> head,
               len |-> IF err = NoError THEN Min2(n, capacity) ELSE 0]]
    /\ vpc' = "publish"
    /\ UNCHANGED <<sharedByDriver, used_idx, avail_event, no_notify, kick, irq,
                   driverVars, next_avail, num_added, walkVars>>

\* The store_idx_release of add_used.  The chain's locals are dropped.
PublishUsed ==
    /\ vpc = "publish"
    /\ used_idx' = Inc(used_idx)
    /\ num_added' = Inc(num_added)
    /\ vpc' = "pop"
    /\ head' = 0
    /\ it' = NewIter(0)
    /\ walked' = << >>
    /\ capacity' = 0
    /\ arrived' = TRUE
    /\ UNCHANGED <<sharedByDriver, used_ring, avail_event, no_notify, kick, irq,
                   dpc, free_descs, outstanding, last_kick, last_used,
                   addChainVars, used_seen, armed, request, next_avail, err>>

\* Mutant of InterruptNeeded: decides about the last completion only.
InterruptForLastOnly ==
    ~EventIdx \/ need_event(used_event, used_idx, Dist(used_idx, 1))

\* The answer of needs_notification, about every completion since the last one.
InterruptNeeded ==
    ~EventIdx \/ need_event(used_event, used_idx, Dist(used_idx, num_added))

\* needs_notification, and the caller raises the interrupt if it says so.
NeedsNotification ==
    /\ vpc = "notify"
    /\ irq' = (irq \/ InterruptNeeded)
    /\ num_added' = 0
    /\ vpc' = "enable"
    /\ UNCHANGED <<sharedByDriver, sharedByDevice, kick, driverVars, next_avail,
                   walkVars>>

\* enable_notification up to its fence: ask to be told again.
EnableNotification ==
    /\ vpc = "enable"
    /\ avail_event' = IF EventIdx THEN next_avail ELSE avail_event
    /\ no_notify' = IF EventIdx THEN no_notify ELSE FALSE
    /\ vpc' = "recheck"
    /\ UNCHANGED <<sharedByDriver, used_ring, used_idx, kick, irq, driverVars,
                   next_avail, num_added, walkVars>>

\* The rest of enable_notification, and its caller: loop if work arrived
\* meanwhile, sleep if none did.
RecheckAvailable ==
    /\ vpc = "recheck"
    /\ vpc' = IF Available # 0 THEN "pop" ELSE "sleep"
    /\ UNCHANGED <<sharedByDriver, sharedByDevice, kick, irq, driverVars,
                   next_avail, num_added, walkVars>>

-----------------------------------------------------------------------------
DriverNext ==
    \/ \E b \in Requests : AddChain(b)
    \/ WriteDescriptor
    \/ WriteSlot
    \/ PublishIdx
    \/ NeedsKick
    \/ ArmUsedEvent
    \/ CollectBegin
    \/ CollectOne
    \/ WaitForInterrupt
    \/ TakeInterrupt

DeviceNext ==
    \/ TakeKick
    \/ DisableNotification
    \/ PopLoad
    \/ PopSlot
    \/ WalkDescriptor
    \/ Respond
    \/ PublishUsed
    \/ NeedsNotification
    \/ EnableNotification
    \/ RecheckAvailable

Next == DriverNext \/ DeviceNext

Spec == Init /\ [][Next]_vars

\* Each side runs on a thread of its own that the scheduler does not starve.
FairSpec == Spec /\ WF_vars(DriverNext) /\ WF_vars(DeviceNext)

-----------------------------------------------------------------------------
(***************************************************************************)
(* Properties.                                                             *)
(***************************************************************************)

Buffer == [addr : {b.addr : b \in Buffers} \cup {0}, len : Nat, write : BOOLEAN]

SharedTypeOK ==
    /\ desc \in [Desc -> Descriptor]
    /\ avail_ring \in [Desc -> Desc]
    /\ used_ring \in [Desc -> [id : Desc, len : Nat]]
    /\ avail_idx \in Counter /\ used_idx \in Counter
    /\ avail_event \in Counter /\ used_event \in Counter
    /\ no_notify \in BOOLEAN /\ kick \in BOOLEAN /\ irq \in BOOLEAN

DriverTypeOK ==
    /\ dpc \in {"idle", "desc", "slot", "idx", "submitted", "collect", "wait"}
    /\ free_descs \in Seq(Desc)
    /\ outstanding \in [Desc -> Seq(Desc)]
    /\ last_kick \in Counter /\ last_used \in Counter /\ used_seen \in Counter
    /\ bufs \in Seq(Buffers)
    /\ indices \in Seq(Desc)
    /\ Len(indices) = Len(bufs)
    /\ pos \in Nat \ {0}
    /\ dpc \in {"desc", "slot", "idx"} => bufs # << >>
    /\ dpc = "desc" => pos <= Len(bufs)
    /\ armed \in BOOLEAN /\ arrived \in BOOLEAN
    /\ request \in [Desc -> Seq(Buffers)]

DeviceTypeOK ==
    /\ vpc \in {"sleep", "pop", "slot", "walk", "respond", "publish", "notify",
               "enable", "recheck"}
    /\ next_avail \in Counter /\ num_added \in Counter
    /\ head \in Desc
    /\ it \in [next_index : Desc, ttl : 0 .. QueueSize, bytes : Nat,
              seen_writable : BOOLEAN, done : BOOLEAN]
    /\ walked \in Seq(Buffer)
    /\ capacity \in Nat
    /\ err \in ChainErrors \cup {NoError}

\* Every variable holds what its Rust type allows, the descriptor indices and
\* ring entries either side keeps are valid ones, and add_chain never runs past
\* the buffers it was given.
TypeOK == SharedTypeOK /\ DriverTypeOK /\ DeviceTypeOK

\* The free list never holds a descriptor twice.
FreeListDistinct ==
    \A i, j \in DOMAIN free_descs : free_descs[i] = free_descs[j] => i = j

\* A remembered chain is filed under its own head and holds no descriptor twice.
ChainsWellFormed ==
    \A h \in Desc :
        /\ outstanding[h] # << >> => outstanding[h][1] = h
        /\ \A i, j \in DOMAIN outstanding[h] :
               outstanding[h][i] = outstanding[h][j] => i = j

\* No descriptor belongs to two chains, or to a chain and the free list.
OneOwner ==
    /\ \A h, g \in Desc : \A i \in DOMAIN outstanding[h], j \in DOMAIN outstanding[g] :
           outstanding[h][i] = outstanding[g][j] => h = g
    /\ \A h \in Desc : \A i \in DOMAIN outstanding[h], j \in DOMAIN free_descs :
           outstanding[h][i] # free_descs[j]

\* No descriptor is lost: each is free or in a chain the driver remembers.
NoLeak ==
    \A d \in Desc :
        \/ \E i \in DOMAIN free_descs : free_descs[i] = d
        \/ \E h \in Desc : \E i \in DOMAIN outstanding[h] : outstanding[h][i] = d

\* The driver's bookkeeping partitions the descriptor table between the free
\* list and the chains in flight, in whatever order chains of either length are
\* served and their descriptors used again (Driver.free_descs, Driver.outstanding: "losing track here is a
\* descriptor leak, and a queue that slowly stops accepting work").
DescriptorOwnership ==
    FreeListDistinct /\ ChainsWellFormed /\ OneOwner /\ NoLeak

\* What the device has collected of a chain is what the driver submitted under
\* that head, buffer for buffer, however their steps interleave: it never
\* follows a stale link, reads a descriptor being rewritten, or rejects a chain
\* a correct driver built (add_chain's ordering, process's walk).
DeviceReadsSubmission ==
    vpc \in {"walk", "respond", "publish"} =>
        /\ err = NoError
        /\ Len(walked) <= Len(request[head])
        /\ \A i \in 1 .. Len(walked) : walked[i] = request[head][i]
        /\ vpc # "walk" => Len(walked) = Len(request[head])

\* The device never sleeps on work: if it is asleep with a chain it has not
\* seen, its doorbell is ringing or the driver has yet to decide whether to
\* ring it (enable_notification's re-check, needs_kick).
NoLostKick ==
    vpc = "sleep" /\ Available # 0 => kick \/ last_kick # avail_idx

\* A driver that armed used_event and waits is interrupted once one more
\* completion has arrived: after the device's decision on that completion the
\* interrupt is pending (arm_used_event: "interrupt me when one more completion
\* arrives"; needs_notification decides for every completion of the batch).
NoLostInterrupt ==
    dpc = "wait" /\ arrived /\ vpc \in {"enable", "recheck", "sleep"} => irq

\* With EVENT_IDX, a kick or an interrupt is raised exactly when the counter,
\* stepping from the previous decision to this one, took the value event + 1:
\* no batch steps over the threshold, none is announced twice, and no wrap
\* confuses it (layout::need_event, "has the counter crossed event + 1 since we
\* last checked?").
KickIsCrossing ==
    dpc = "submitted" /\ dpc' = "idle" =>
        (kick' <=> kick \/ Crossed(avail_event, avail_idx, last_kick))
InterruptIsCrossing ==
    vpc = "notify" /\ vpc' = "enable" =>
        (irq' <=> irq \/ Crossed(used_event, used_idx, Dist(used_idx, num_added)))
SuppressionIsExact ==
    [][EventIdx => KickIsCrossing /\ InterruptIsCrossing]_vars

\* Every chain handed to add_chain is eventually completed and its descriptors
\* given back, though both sides sleep between doorbells.
EveryChainIsCollected ==
    \A h \in Desc : outstanding[h] # << >> ~> outstanding[h] = << >>

-----------------------------------------------------------------------------
(***************************************************************************)
(* The virtqueue implements a queue of requests.  The abstract queues are  *)
(* read off the rings: avail entries from next_avail up to avail_idx, the  *)
(* chain in the device's hands, used entries from last_used up to used_idx.*)
(***************************************************************************)
Entry(h) == [id |-> h, payload |-> request[h]]

Pending ==
    [i \in 1 .. Available |-> Entry(avail_ring[Slot(next_avail + i - 1)])]

Serving ==
    IF vpc \in {"walk", "respond", "publish"} THEN <<Entry(head)>> ELSE << >>

Done ==
    [i \in 1 .. Dist(used_idx, last_used) |->
        Entry(used_ring[Slot(last_used + i - 1)].id)]

RQ == INSTANCE RequestQueue WITH
        Ids <- Desc, Payloads <- Requests,
        pending <- Pending, serving <- Serving, done <- Done

\* Seen through its rings, the virtqueue is a first-in first-out queue of
\* requests, each completed and collected exactly once under its own head:
\* no ring slot is overwritten before it is read, across every wrap of the
\* counters.
ImplementsRequestQueue == RQ!Spec
=============================================================================

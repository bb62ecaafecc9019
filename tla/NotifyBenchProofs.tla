-------------------------- MODULE NotifyBenchProofs -------------------------
(***************************************************************************)
(* Theorems about NotifyBench, for every queue size, counter width, number *)
(* of requests and set of burst sizes the assumptions allow.               *)
(***************************************************************************)
EXTENDS NotifyBench, RingProofs

\* The sender that has moved by `d` since the threshold was set to `event`, and
\* last asked at `old`, rings if and only if `old` is not past the threshold.
LEMMA Rings ==
    ASSUME NEW event \in Counter, NEW new \in Counter, NEW old \in Counter,
           Dist(new, event) > 0
    PROVE  need_event(event, new, old) <=> Dist(new, event) <= Dist(new, old)
  <1>0. Modulus \in Nat /\ Modulus > 1 /\ 1 \in Counter
    BY IncCases DEF Counter
  <1>1. Dist(new, event) \in Counter /\ Dist(new, old) \in Counter
    BY DistFacts
  <1>2. Dist(Dist(new, event), 1) = Dist(new, event) - 1
    BY <1>0, <1>1, DistCases DEF Counter
  <1> QED BY <1>0, <1>1, <1>2 DEF need_event, Counter

-----------------------------------------------------------------------------
Types ==
    /\ batch \in Batches /\ event_idx \in BOOLEAN
    /\ pc \in {"arm", "add", "kick", "process", "enable", "collect", "done"}
    /\ submitted \in Nat /\ left \in Nat /\ bursts \in Nat
    /\ kicks \in Nat /\ interrupts \in Nat /\ free \in Int
    /\ avail_idx \in Counter /\ last_kick \in Counter /\ last_used \in Counter
    /\ next_avail \in Counter /\ next_used \in Counter /\ num_added \in Counter
    /\ avail_event \in Counter /\ used_event \in Counter

\* Requests of the burst the driver has added so far.
Added == Dist(avail_idx, last_used)

\* Requests submitted before the burst, and the size of the burst.
Before == (bursts - 1) * batch
Size == IF batch < Total - Before THEN batch ELSE Total - Before

\* Between two bursts both halves stand at the same place.
Idle ==
    /\ avail_idx = last_used /\ last_kick = last_used
    /\ next_avail = last_used /\ next_used = last_used /\ num_added = 0
    /\ event_idx => avail_event = last_used
    /\ free = QueueSize
    /\ submitted <= Total
    /\ submitted <= bursts * batch
    /\ submitted < Total => submitted = bursts * batch
    /\ kicks = IF event_idx THEN bursts ELSE submitted
    /\ interrupts = bursts

\* While a burst is submitted the device stands where it was; `sent` of the
\* burst's requests have been asked about.
Submitting(sent) ==
    /\ bursts > 0 /\ Before < Total
    /\ next_avail = last_used /\ next_used = last_used /\ num_added = 0
    /\ used_event = last_used
    /\ event_idx => avail_event = last_used
    /\ free = QueueSize - 2 * Added
    /\ submitted = Before + sent
    /\ left > 0 /\ left + sent = Size
    /\ kicks = IF event_idx THEN (IF sent = 0 THEN bursts - 1 ELSE bursts)
                 ELSE submitted
    /\ interrupts = bursts - 1

\* The whole burst is submitted and the device is `done` requests into it.
Draining(done) ==
    /\ bursts > 0 /\ Before < Total
    /\ last_kick = avail_idx
    /\ next_used = next_avail
    /\ Dist(next_avail, last_used) = done
    /\ used_event = last_used
    /\ free = QueueSize - 2 * Added
    /\ submitted = Before + Added
    /\ Added = Size
    /\ kicks = IF event_idx THEN bursts ELSE submitted

Phases ==
    /\ pc \in {"arm", "done"} => Idle
    /\ pc = "add" => Submitting(Added) /\ last_kick = avail_idx
    /\ pc = "kick" => /\ Submitting(Added - 1) /\ Added > 0
                      /\ Dist(avail_idx, last_kick) = 1
    /\ pc = "process" => /\ Draining(num_added) /\ num_added <= Added
                         /\ interrupts = bursts - 1
    /\ pc \in {"enable", "collect"} => /\ Draining(Added) /\ num_added = 0
                                       /\ interrupts = bursts
    /\ pc = "collect" => (event_idx => avail_event = next_avail)

Inv == Types /\ Phases

-----------------------------------------------------------------------------
\* The program starts between two bursts.
LEMMA InitInv == Init => Inv
  <1> SUFFICES ASSUME Init PROVE Inv
    OBVIOUS
  <1> USE DEF Init
  <1>1. 0 \in Counter
    BY QueueSizeAssumption, ModulusAssumption DEF Counter
  <1>2. batch \in Nat /\ Total \in Nat /\ QueueSize \in Nat
    BY BatchesAssumption, TotalAssumption, QueueSizeAssumption
  <1>3. Types BY <1>1, <1>2 DEF Types
  <1>4. Idle BY <1>2 DEF Idle
  <1> QED BY <1>3, <1>4 DEF Inv, Phases

\* What the arithmetic of a step needs: a burst fits the queue twice over, and
\* the number of requests before it is a number.
LEMMA Sizes ==
    ASSUME Types
    PROVE  /\ batch \in Nat /\ batch > 0 /\ 2 * batch <= QueueSize
           /\ Total \in Nat /\ Total > 0
           /\ QueueSize \in Nat /\ Modulus \in Nat /\ 2 * QueueSize <= Modulus
           /\ Before \in Int /\ Size \in Int /\ Size <= batch
           /\ Before + batch = bursts * batch /\ bursts * batch \in Nat
           /\ Added \in Nat /\ Added < Modulus
  <1>1. batch \in Nat /\ batch > 0 /\ 2 * batch <= QueueSize
    BY BatchesAssumption DEF Types
  <1>2. Total \in Nat /\ Total > 0
    BY TotalAssumption
  <1>3. QueueSize \in Nat /\ Modulus \in Nat /\ 2 * QueueSize <= Modulus
    BY QueueSizeAssumption, ModulusAssumption
  <1>4. Before \in Int /\ Before + batch = bursts * batch /\ bursts * batch \in Nat
    BY <1>1 DEF Types, Before
  <1>5. Size \in Int /\ Size <= batch
    BY <1>1, <1>2, <1>4 DEF Size
  <1>6. Added \in Nat /\ Added < Modulus
    BY <1>3, DistFacts DEF Types, Added, Counter
  <1> QED BY <1>1, <1>2, <1>3, <1>4, <1>5, <1>6

\* A burst begins: the driver's threshold and the burst are set, and `batch`
\* requests per burst went before it.
LEMMA ArmStep == Inv /\ Arm => Inv'
  <1> SUFFICES ASSUME Inv, Arm PROVE Inv'
    OBVIOUS
  <1> USE DEF Arm, Inv, config, counts, driver, device
  <1>0. Types /\ Idle /\ Phases
    BY DEF Phases
  <1>1. Burst \in Nat /\ Burst > 0
    BY <1>0, Sizes DEF Types, Burst
  <1>2. Types'
    BY <1>1 DEF Types
  <1>3. Added' = 0
    BY <1>0, DistFacts DEF Types, Idle, Added
  <1>4. Before' = submitted /\ Size' = Burst
    <2>1. submitted = bursts * batch /\ bursts' - 1 = bursts
      BY <1>0 DEF Types, Idle
    <2>2. Before' = bursts * batch
      BY <2>1 DEF Before
    <2> QED BY <2>1, <2>2 DEF Size, Burst
  <1>5. Submitting(Added)' /\ last_kick' = avail_idx'
    BY <1>0, <1>1, <1>3, <1>4, Sizes DEF Types, Idle, Submitting
  <1> QED BY <1>2, <1>5 DEF Phases

\* A request is added: one more of the burst, two descriptors fewer.
LEMMA AddChainStep == Inv /\ AddChain => Inv'
  <1> SUFFICES ASSUME Inv, AddChain PROVE Inv'
    OBVIOUS
  <1> USE DEF AddChain, Inv, config, counts, device, events
  <1>0. Types /\ Submitting(Added) /\ last_kick = avail_idx
    BY DEF Phases
  <1>1. Types'
    BY <1>0, IncCases DEF Types
  <1>2. Added' = Added + 1 /\ Dist(avail_idx', last_kick') = 1
    BY <1>0, Sizes, DistMoves DEF Types, Submitting, Added
  <1>3. Before' = Before /\ Size' = Size
    BY DEF Before, Size
  <1>4. Added \in Nat /\ QueueSize \in Nat
    BY <1>0, Sizes
  <1>5. Added' > 0 /\ Added' - 1 = Added /\ free' = QueueSize - 2 * Added'
    BY <1>0, <1>2, <1>4 DEF Submitting
  <1>6. Submitting(Added - 1)'
    BY <1>0, <1>3, <1>5 DEF Submitting
  <1> QED BY <1>1, <1>2, <1>5, <1>6 DEF Phases

\* The first request of a burst crosses the device's threshold, the others do
\* not.
LEMMA NeedsKickStep == Inv /\ NeedsKick => Inv'
  <1> SUFFICES ASSUME Inv, NeedsKick PROVE Inv'
    OBVIOUS
  <1> USE DEF NeedsKick, Inv, config, device, events
  <1>0. /\ Types /\ Submitting(Added - 1) /\ Added > 0
        /\ Dist(avail_idx, last_kick) = 1
    BY DEF Phases
  <1>1. Types'
    BY <1>0 DEF Types, Submitting
  <1>2. Added' = Added /\ Before' = Before /\ Size' = Size
    BY DEF Added, Before, Size
  <1>3. event_idx => (need_event(avail_event, avail_idx, last_kick) <=> Added = 1)
    BY <1>0, Rings, Sizes DEF Types, Submitting, Added
  <1>4. kicks' = IF event_idx THEN bursts ELSE submitted'
    BY <1>0, <1>3, Sizes DEF Types, Submitting
  <1>5. submitted' = Before + Added /\ left' + Added = Size /\ left' \in Nat
    BY <1>0, Sizes DEF Types, Submitting
  <1>6. CASE left = 1
    <2>1. Added' = Size'
      BY <1>0, <1>2, <1>5, <1>6, Sizes DEF Types
    <2>2. Dist(next_avail, last_used) = 0
      BY <1>0, DistFacts DEF Types, Submitting
    <2>3. Draining(num_added)' /\ num_added' <= Added' /\ interrupts' = bursts' - 1
      BY <1>0, <1>2, <1>4, <1>5, <2>1, <2>2, Sizes DEF Types, Submitting, Draining
    <2> QED BY <1>1, <1>6, <2>3 DEF Phases
  <1>7. CASE left # 1
    <2>1. Submitting(Added)' /\ last_kick' = avail_idx'
      BY <1>0, <1>2, <1>4, <1>5, <1>7, Sizes DEF Types, Submitting
    <2> QED BY <1>1, <1>7, <2>1 DEF Phases
  <1> QED BY <1>6, <1>7

\* The device is one request further into the burst.
LEMMA ProcessChainStep == Inv /\ ProcessChain => Inv'
  <1> SUFFICES ASSUME Inv, ProcessChain PROVE Inv'
    OBVIOUS
  <1> USE DEF ProcessChain, Inv, config, counts, driver, events
  <1>0. Types /\ Draining(num_added) /\ num_added <= Added /\ interrupts = bursts - 1
    BY DEF Phases
  <1>1. Types'
    BY <1>0, IncCases DEF Types
  <1>2. Added' = Added /\ Before' = Before /\ Size' = Size
    BY DEF Added, Before, Size
  <1>3. num_added # Added
    BY <1>0, DistFacts DEF Types, Draining, Added
  <1>4. num_added < Added /\ 2 * Added <= QueueSize
    <2>1. Size <= batch /\ 2 * batch <= QueueSize /\ Added \in Nat
          /\ batch \in Nat /\ QueueSize \in Nat /\ Size = Added
      BY <1>0, Sizes DEF Draining
    <2>2. num_added \in Int
      BY <1>0 DEF Types, Counter
    <2> QED BY <1>0, <1>3, <2>1, <2>2
  <1>5. num_added' = num_added + 1
    BY <1>0, <1>4, IncCases, Sizes DEF Types, Counter
  <1>6. Dist(next_avail', last_used) = num_added + 1
    <2>1. next_avail \in Counter /\ last_used \in Counter /\ next_avail' = Inc(next_avail)
          /\ Dist(next_avail, last_used) = num_added /\ num_added + 1 < Modulus
      BY <1>0, <1>4, Sizes DEF Types, Draining, Counter
    <2> QED BY <2>1, DistMoves
  <1>7. Draining(num_added)' /\ num_added' <= Added'
    BY <1>0, <1>2, <1>4, <1>5, <1>6, Sizes DEF Types, Draining, Counter
  <1> QED BY <1>0, <1>1, <1>7 DEF Phases

\* The pass of a whole burst crosses the driver's threshold.
LEMMA NeedsNotificationStep == Inv /\ NeedsNotification => Inv'
  <1> SUFFICES ASSUME Inv, NeedsNotification PROVE Inv'
    OBVIOUS
  <1> USE DEF NeedsNotification, Inv, config, driver, events
  <1>0. Types /\ Draining(num_added) /\ interrupts = bursts - 1
    BY DEF Phases
  <1>1. Types'
    BY <1>0, QueueSizeAssumption, ModulusAssumption DEF Types, Counter
  <1>2. Added' = Added /\ Before' = Before /\ Size' = Size
    BY DEF Added, Before, Size
  <1>3. num_added = Added /\ Added > 0
    BY <1>0, Sizes DEF Types, Draining, Added, Size
  <1>4. Dist(next_used, num_added) = last_used
    BY <1>0, DistFacts DEF Types, Draining
  <1>5. need_event(used_event, next_used, Dist(next_used, num_added))
    BY <1>0, <1>3, <1>4, Rings, Sizes DEF Types, Draining, Added
  <1>6. interrupts' = bursts'
    BY <1>0, <1>5 DEF Types
  <1>7. Draining(Added)'
    BY <1>0, <1>2, <1>3 DEF Draining
  <1> QED BY <1>1, <1>6, <1>7 DEF Phases

\* The device's threshold follows it.
LEMMA EnableStep == Inv /\ EnableNotification => Inv'
  <1> SUFFICES ASSUME Inv, EnableNotification PROVE Inv'
    OBVIOUS
  <1> USE DEF EnableNotification, Inv, config, counts, driver, device
  <1>0. Types /\ Draining(Added) /\ num_added = 0 /\ interrupts = bursts
    BY DEF Phases
  <1>1. Types'
    BY <1>0 DEF Types
  <1>2. Added' = Added /\ Before' = Before /\ Size' = Size
    BY DEF Added, Before, Size
  <1>3. Draining(Added)'
    BY <1>0, <1>2 DEF Draining
  <1> QED BY <1>0, <1>1, <1>3 DEF Phases

\* Every descriptor of the burst comes back, and the halves stand together
\* again.
LEMMA CollectStep == Inv /\ Collect => Inv'
  <1> SUFFICES ASSUME Inv, Collect PROVE Inv'
    OBVIOUS
  <1> USE DEF Collect, Inv, config, counts, device, events
  <1>0. /\ Types /\ Draining(Added) /\ num_added = 0 /\ interrupts = bursts
        /\ event_idx => avail_event = next_avail
    BY DEF Phases
  <1>1. next_avail = avail_idx
    BY <1>0, DistFacts DEF Types, Draining, Added
  <1>2. free' = QueueSize
    BY <1>0, Sizes DEF Types, Draining, Returned, Added
  <1>3. Types'
    BY <1>0, <1>2, Sizes DEF Types
  <1>4. /\ submitted <= Total /\ submitted <= bursts * batch
        /\ submitted < Total => submitted = bursts * batch
    BY <1>0, Sizes DEF Types, Draining, Size
  <1>5. Idle'
    BY <1>0, <1>1, <1>2, <1>4 DEF Types, Draining, Idle
  <1> QED BY <1>3, <1>5 DEF Phases

\* Every step keeps the invariant.
LEMMA InvStep == Inv /\ [Next]_vars => Inv'
  <1>1. Inv /\ Finish => Inv'
    BY DEF Finish, Inv, Types, Phases, Idle, config, counts, driver, device, events
  <1>2. Inv /\ UNCHANGED vars => Inv'
    BY DEF vars, Inv, Types, Phases, Idle, Submitting, Draining, Added, Before,
         Size, config, counts, driver, device, events
  <1> QED
    BY <1>1, <1>2, ArmStep, AddChainStep, NeedsKickStep, ProcessChainStep,
       NeedsNotificationStep, EnableStep, CollectStep DEF Next

\* Inv is an invariant.
LEMMA InvAlways == Spec => []Inv
  BY InitInv, InvStep, PTL DEF Spec

\* The benchmark's counts are the ones its table claims, for every queue size,
\* counter width, number of requests and burst size: with EVENT_IDX one kick and
\* one interrupt per burst, without it one kick per request
\* (bench_notification).
THEOREM CountsInvariant == Spec => []CountsAreExact
  <1>1. Inv => CountsAreExact
    BY DEF Inv, Phases, Idle, CountsAreExact
  <1> QED BY <1>1, InvAlways, PTL

\* A request always finds its two descriptors, so that add_chain never fails
\* inside the benchmark, as the sizing of NOTIFY_QUEUE_SIZE promises.
THEOREM ChainsFit == Spec => [](pc = "add" => free >= 2)
  <1>1. Inv => (pc = "add" => free >= 2)
    <2> SUFFICES ASSUME Inv, pc = "add" PROVE free >= 2
      OBVIOUS
    <2> QED BY Sizes DEF Inv, Phases, Types, Submitting
  <1> QED BY <1>1, InvAlways, PTL
=============================================================================

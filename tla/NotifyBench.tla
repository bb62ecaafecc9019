----------------------------- MODULE NotifyBench -----------------------------
(***************************************************************************)
(* bench_notification (main.rs of rung-02-virtio/toy-virtq-raw): a driver  *)
(* submits a burst of requests while the device is busy, the device drains *)
(* the burst in one pass, and the program counts the kicks and interrupts  *)
(* each side would have sent.  "This is a count, not a timing": the module *)
(* says what the count is.                                                 *)
(*                                                                         *)
(* Driver and device are called in turn on one thread, so each call is one *)
(* step.  Requests are counted, not described; Virtqueue describes them.   *)
(* Each configuration has a queue of its own, so that one is chosen.       *)
(***************************************************************************)
EXTENDS Ring

CONSTANTS
    Total,      \* TOTAL, requests per configuration
    Batches     \* the burst sizes tried

\* "Two descriptors per request, and a whole burst must fit before the device
\* drains it": NOTIFY_QUEUE_SIZE is twice MAX_BATCH.
ASSUME TotalAssumption == Total \in Nat \ {0}
ASSUME BatchesAssumption ==
    \A b \in Batches : b \in Nat \ {0} /\ 2 * b <= QueueSize

VARIABLES
    batch, event_idx,               \* the configuration
    pc,                             \* which call is next
    submitted,
    left,                           \* of the burst, requests not yet submitted
    kicks, interrupts,              \* what is counted
    \* --- Driver
    avail_idx, last_kick, last_used,
    free,                           \* descriptors in free_descs
    \* --- Device
    next_avail, next_used, num_added,
    \* --- shared memory; avail.idx is avail_idx, used.idx is next_used
    avail_event, used_event,
    bursts                          \* history: bursts begun

config == <<batch, event_idx>>
driver == <<avail_idx, last_kick, last_used, free>>
device == <<next_avail, next_used, num_added>>
events == <<avail_event, used_event>>
counts == <<kicks, interrupts>>
vars == <<config, pc, submitted, left, counts, driver, device, events, bursts>>

Init ==
    /\ batch \in Batches
    /\ event_idx \in BOOLEAN
    /\ pc = "arm"
    /\ submitted = 0
    /\ left = 0
    /\ kicks = 0 /\ interrupts = 0
    /\ avail_idx = 0 /\ last_kick = 0 /\ last_used = 0
    /\ free = QueueSize
    /\ next_avail = 0 /\ next_used = 0 /\ num_added = 0
    /\ avail_event = 0 /\ used_event = 0
    /\ bursts = 0

-----------------------------------------------------------------------------
\* The requests of the next burst: batch.min(TOTAL - submitted).
Burst == IF batch < Total - submitted THEN batch ELSE Total - submitted

\* arm_used_event, before the burst is submitted.
Arm ==
    /\ pc = "arm"
    /\ submitted < Total
    /\ used_event' = last_used
    /\ left' = Burst
    /\ bursts' = bursts + 1
    /\ pc' = "add"
    /\ UNCHANGED <<config, submitted, counts, driver, device, avail_event>>

\* add_chain with two descriptors; the program panics if it cannot have them.
AddChain ==
    /\ pc = "add"
    /\ free >= 2
    /\ free' = free - 2
    /\ avail_idx' = Inc(avail_idx)
    /\ pc' = "kick"
    /\ UNCHANGED <<config, submitted, left, counts, last_kick, last_used, device,
                   events, bursts>>

\* Mutant of NeedsKick: last_kick is not brought up to date.
NeedsKickKeepsOld ==
    /\ pc = "kick"
    /\ kicks' = IF event_idx => need_event(avail_event, avail_idx, last_kick)
                  THEN kicks + 1 ELSE kicks
    /\ submitted' = submitted + 1
    /\ left' = left - 1
    /\ pc' = IF left = 1 THEN "process" ELSE "add"
    /\ UNCHANGED <<config, interrupts, driver, device, events, bursts>>

\* needs_kick, asked after every submission: without EVENT_IDX it always says
\* yes.
NeedsKick ==
    /\ pc = "kick"
    /\ kicks' = IF event_idx => need_event(avail_event, avail_idx, last_kick)
                  THEN kicks + 1 ELSE kicks
    /\ last_kick' = avail_idx
    /\ submitted' = submitted + 1
    /\ left' = left - 1
    /\ pc' = IF left = 1 THEN "process" ELSE "add"
    /\ UNCHANGED <<config, interrupts, avail_idx, last_used, free, device,
                   events, bursts>>

\* One chain of process: popped, answered and completed by add_used.
ProcessChain ==
    /\ pc = "process"
    /\ next_avail # avail_idx
    /\ next_avail' = Inc(next_avail)
    /\ next_used' = Inc(next_used)
    /\ num_added' = Inc(num_added)
    /\ UNCHANGED <<config, pc, submitted, left, counts, driver, events, bursts>>

\* process has found nothing more; needs_notification about the whole pass.
NeedsNotification ==
    /\ pc = "process"
    /\ next_avail = avail_idx
    /\ interrupts' = IF event_idx => need_event(used_event, next_used,
                                                Dist(next_used, num_added))
                       THEN interrupts + 1 ELSE interrupts
    /\ num_added' = 0
    /\ pc' = "enable"
    /\ UNCHANGED <<config, submitted, left, kicks, driver, next_avail, next_used,
                   events, bursts>>

\* enable_notification; the device has just drained the queue, and its answer
\* is not looked at.  The flag of a queue without EVENT_IDX is never set here.
EnableNotification ==
    /\ pc = "enable"
    /\ avail_event' = IF event_idx THEN next_avail ELSE avail_event
    /\ pc' = "collect"
    /\ UNCHANGED <<config, submitted, left, counts, driver, device, used_event,
                   bursts>>

\* Mutant of Returned: a completion frees the head only.
ReturnedHeads == Dist(next_used, last_used)

\* The descriptors the completions of the burst give back.
Returned == 2 * Dist(next_used, last_used)

\* collect_used
Collect ==
    /\ pc = "collect"
    /\ free' = free + Returned
    /\ last_used' = next_used
    /\ pc' = "arm"
    /\ UNCHANGED <<config, submitted, left, counts, avail_idx, last_kick, device,
                   events, bursts>>

\* The configuration's counts are recorded.
Finish ==
    /\ pc = "arm"
    /\ submitted = Total
    /\ pc' = "done"
    /\ UNCHANGED <<config, submitted, left, counts, driver, device, events,
                   bursts>>

Next == \/ Arm \/ AddChain \/ NeedsKick \/ ProcessChain \/ NeedsNotification
        \/ EnableNotification \/ Collect \/ Finish

Spec == Init /\ [][Next]_vars

\* One thread, which runs.
FairSpec == Spec /\ WF_vars(Next)

-----------------------------------------------------------------------------
\* What the table of bench_notification says, between any two bursts and
\* however often the counters have wrapped: `batch` requests to a burst; with
\* EVENT_IDX one kick and one interrupt for each burst, and so nothing saved at
\* a batch of one; without it a kick for every request.  The interrupts are one
\* per pass in both columns.
CountsAreExact ==
    pc \in {"arm", "done"} =>
        /\ submitted <= bursts * batch
        /\ submitted < Total => submitted = bursts * batch
        /\ kicks = IF event_idx THEN bursts ELSE submitted
        /\ interrupts = bursts

\* Every burst finds the descriptors it needs, so that all requests are
\* submitted and the program is not "a measurement of queue depth instead"
\* (main.rs 367-370): the benchmark reaches its end with every descriptor free.
EveryBurstFits == <>(pc = "done" /\ free = QueueSize)
=============================================================================

------------------------------ MODULE KickRace ------------------------------
(***************************************************************************)
(* The kick handshake of a virtqueue when driver and device run on two     *)
(* cores with store buffers (total store order).  Virtqueue takes shared   *)
(* accesses in program order; what is at stake here is the one pair that   *)
(* release and acquire do not order, a store followed by a load:           *)
(*                                                                         *)
(*    driver   store avail.idx    (add_chain)                              *)
(*             load avail_event   (needs_kick)                             *)
(*    device   store avail_event  (enable_notification)                    *)
(*             SeqCst fence                                                *)
(*             load avail.idx     (enable_notification's re-check)         *)
(*                                                                         *)
(* A store goes to its core's buffer and reaches memory later, in order.   *)
(* Ringing the doorbell is a store of the driver's core as well.  Chains   *)
(* are counted, not described.                                             *)
(* (driver.rs, device.rs and mem.rs of rung-02-virtio/toy-virtq-raw/src.)  *)
(***************************************************************************)
EXTENDS Ring, Sequences

VARIABLES
    \* --- memory
    avail_idx, avail_event,
    kick,                         \* the doorbell
    \* --- the driver and its store buffer
    dpc, own_idx, last_kick,      \* own_idx is Driver.avail_idx
    driver_buffer,                \* pending stores to avail.idx and the doorbell
    \* --- the device and its store buffer
    vpc, next_avail,
    device_buffer                 \* pending stores to avail_event

driverVars == <<dpc, own_idx, last_kick, driver_buffer>>
deviceVars == <<vpc, next_avail, device_buffer>>
vars == <<avail_idx, avail_event, kick, dpc, own_idx, last_kick, driver_buffer,
          vpc, next_avail, device_buffer>>

StoreIdx(v) == [to |-> "avail.idx", value |-> v]
StoreDoorbell == [to |-> "doorbell", value |-> 0]

Init ==
    /\ avail_idx = 0 /\ avail_event = 0 /\ kick = FALSE
    /\ dpc = "idle" /\ own_idx = 0 /\ last_kick = 0 /\ driver_buffer = << >>
    /\ vpc = "sleep" /\ next_avail = 0 /\ device_buffer = << >>

-----------------------------------------------------------------------------
\* add_chain: one more chain, as long as there are descriptors for it.  The
\* caller collects nothing between add_chain and needs_kick, so that one queue's
\* worth of chains is the most that is submitted between two checks.
AddChain ==
    /\ Dist(own_idx, next_avail) < QueueSize
    /\ Dist(own_idx, last_kick) < QueueSize
    /\ own_idx' = Inc(own_idx)
    /\ driver_buffer' = Append(driver_buffer, StoreIdx(own_idx'))
    /\ dpc' = "submitted"
    /\ UNCHANGED <<avail_idx, avail_event, kick, last_kick, deviceVars>>

\* needs_kick: load_relaxed of avail_event, from memory.
NeedsKick ==
    /\ dpc = "submitted"
    /\ last_kick' = own_idx
    /\ driver_buffer' = IF need_event(avail_event, own_idx, last_kick)
                          THEN Append(driver_buffer, StoreDoorbell)
                          ELSE driver_buffer
    /\ dpc' = "idle"
    /\ UNCHANGED <<avail_idx, avail_event, kick, own_idx, deviceVars>>

\* The driver's core drains its oldest store (external: the hardware).
DriverStoreLands ==
    /\ driver_buffer # << >>
    /\ driver_buffer' = Tail(driver_buffer)
    /\ IF Head(driver_buffer).to = "doorbell"
         THEN kick' = TRUE /\ UNCHANGED avail_idx
         ELSE avail_idx' = Head(driver_buffer).value /\ UNCHANGED kick
    /\ UNCHANGED <<avail_event, dpc, own_idx, last_kick, deviceVars>>

-----------------------------------------------------------------------------
\* The doorbell wakes the device.
TakeKick ==
    /\ vpc = "sleep"
    /\ kick
    /\ kick' = FALSE
    /\ vpc' = "pop"
    /\ UNCHANGED <<avail_idx, avail_event, driverVars, next_avail, device_buffer>>

\* pop_chain_head in the loop of process().
PopChain ==
    /\ vpc = "pop"
    /\ IF avail_idx # next_avail
         THEN next_avail' = Inc(next_avail) /\ UNCHANGED vpc
         ELSE vpc' = "enable" /\ UNCHANGED next_avail
    /\ UNCHANGED <<avail_idx, avail_event, kick, driverVars, device_buffer>>

\* enable_notification up to its fence.
EnableNotification ==
    /\ vpc = "enable"
    /\ device_buffer' = Append(device_buffer, next_avail)
    /\ vpc' = "recheck"
    /\ UNCHANGED <<avail_idx, avail_event, kick, driverVars, next_avail>>

\* The device's core drains its oldest store (external: the hardware).
DeviceStoreLands ==
    /\ device_buffer # << >>
    /\ avail_event' = Head(device_buffer)
    /\ device_buffer' = Tail(device_buffer)
    /\ UNCHANGED <<avail_idx, kick, driverVars, vpc, next_avail>>

\* fence(SeqCst): no later load before every earlier store has landed.
FenceSeqCst == device_buffer = << >>

\* enable_notification from its fence on, and its caller.
RecheckAvailable ==
    /\ vpc = "recheck"
    /\ FenceSeqCst
    /\ vpc' = IF avail_idx # next_avail THEN "pop" ELSE "sleep"
    /\ UNCHANGED <<avail_idx, avail_event, kick, driverVars, next_avail,
                   device_buffer>>

Next ==
    \/ AddChain \/ NeedsKick \/ DriverStoreLands
    \/ TakeKick \/ PopChain \/ EnableNotification \/ DeviceStoreLands
    \/ RecheckAvailable

Spec == Init /\ [][Next]_vars

-----------------------------------------------------------------------------
\* Once every store has landed and the driver has made its decision, a sleeping
\* device has nothing to do or its doorbell is ringing: a stale hint costs at
\* most an unnecessary kick, never a lost one (load_relaxed; the SeqCst fence of
\* enable_notification).
StaleHintIsHarmless ==
    (vpc = "sleep" /\ dpc = "idle" /\ driver_buffer = << >> /\ device_buffer = << >>)
        => (kick \/ avail_idx = next_avail)
=============================================================================

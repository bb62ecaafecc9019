-------------------------------- MODULE Vmm ---------------------------------
(***************************************************************************)
(* The two virtual machine monitors of rung 1.  toy-kvm-raw: main runs the *)
(* demo guest, checks what it printed, then runs the benchmark guest in    *)
(* rounds; vmm.rs brings a VM up, runs a guest by calling KVM_RUN in a     *)
(* loop and dispatching on the reason it returned for, with the device     *)
(* model answering through the shared kvm_run page, and takes the VM down. *)
(* toy-kvm-crates: the same demo over kvm-ioctls, whose loop gives up at   *)
(* whatever it does not expect, an interruption included.                  *)
(*                                                                         *)
(* KVM is external.  What matters of it: an access that exits is completed *)
(* only when KVM_RUN is called again, from whatever the page then holds;   *)
(* that happens before a pending signal is looked at; and a call that ends *)
(* in EINTR says nothing through the page, which may still describe the    *)
(* exit before it.                                                         *)
(***************************************************************************)
EXTENDS Devices, FiniteSets

CONSTANTS GuestPrograms,   \* what demo may load
          Expected,        \* what it must print
          Samples,         \* --bench N; 0 is a run without --bench
          MaxInterrupts    \* bound: host interruptions in one behaviour

ASSUME VmmAssumption == Samples \in Nat /\ MaxInterrupts \in Nat

\* Straight-line code with loops: it ends in its only hlt, jumps stay inside, and
\* an access has an address.
IsGuest(p) ==
    /\ DOMAIN p = 1 .. Len(p) /\ Len(p) \in Nat \ {0}
    /\ \A k \in 1 .. Len(p) :
          /\ Silent(p[k]) \/ IsPio(p[k]) \/ IsMmio(p[k]) \/ p[k].op = "hlt"
          /\ p[k].op = "hlt" <=> k = Len(p)
          /\ p[k].op = "loop" => p[k].arg \in 1 .. Len(p)
          /\ IsMmio(p[k]) => p[k].arg \in Nat

\* As the programs of guest.rs are.
ASSUME GuestsAssumption == \A p \in GuestPrograms : IsGuest(p)

VARIABLES vmm,          \* the program: "raw" or "crates"
          phase,        \* main: "demo", "bench", "done" or "failed"
          at,           \* the vCPU thread: "new" (in Vm::new), "setup",
                        \* "enter", "guest", "returned", "finished" (run has
                        \* returned Ok), "drop", "end"
          held,         \* the VM's resources, in the order they are released
          program, cpu, \* guest memory and registers
          rc,           \* what KVM_RUN returned: "ok", "EINTR" or "error"
          page,         \* kvm_run: reason, the port or address, the data
          pending,      \* the exited access KVM has still to complete
          devices,
          summary,      \* RunSummary of this call of run
          timings,      \* per sample, what it measured
          remaining,    \* samples still to be requested
          interrupted,  \* host interruptions the benchmark has been told of
          interrupts    \* host interruptions so far

guest == <<program, cpu>>
bench == <<remaining, interrupted>>
life == <<vmm, held>>
vars == <<vmm, phase, at, held, program, cpu, rc, page, pending, devices,
          summary, timings, remaining, interrupted, interrupts>>

NewSummary == [exits |-> 0, io_exits |-> 0, mmio_exits |-> 0,
               interrupted |-> 0]
NoPage == [reason |-> "none", write |-> FALSE, where |-> "none",
           data |-> Zero]

Init ==
    /\ vmm \in {"raw", "crates"}
    /\ phase = "demo"
    /\ at = "new"
    /\ held = << >>
    /\ program = << >>
    /\ cpu = ResetRegs
    /\ rc = "ok"
    /\ page = NoPage
    /\ pending = FALSE
    /\ devices = NewDevices
    /\ summary = NewSummary
    /\ timings = << >>
    /\ remaining = Samples
    /\ interrupted = 0
    /\ interrupts = 0

-----------------------------------------------------------------------------
(* The VM's life: Vm::new, the drop of a Vm, and their like in the crates. *)

\* What is opened and mapped, in this order.  kvm-ioctls keeps the kvm_run
\* mapping inside its vCPU.
Resources ==
    IF vmm = "raw" THEN <<"kvm", "vm", "mem", "vcpu", "run_map">>
                   ELSE <<"kvm", "vm", "mem", "vcpu">>

\* The next resource of Vm::new.  Until Vm exists they are locals, which an
\* early return drops in the reverse order of their declaration.
Acquire ==
    /\ at = "new"
    /\ Len(held) < Len(Resources)
    /\ held' = <<Resources[Len(held) + 1]>> \o held
    /\ UNCHANGED <<vmm, phase, at, guest, rc, page, pending, devices, summary,
                   timings, bench, interrupts>>

\* Mutant of FieldOrder: struct Vm in the order Vm::new acquires.
FieldOrderAsAcquired == <<"kvm", "vm", "mem", "vcpu", "run_map">>

\* The fields of Vm, which is the order a drop releases them in.
FieldOrder == <<"run_map", "mem", "vcpu", "vm", "kvm">>

\* Vm::new returns; in toy-kvm-crates they stay main's locals.
Built ==
    /\ at = "new"
    /\ Len(held) = Len(Resources)
    /\ held' = IF vmm = "raw" THEN FieldOrder ELSE held
    /\ page' = NoPage
    /\ pending' = FALSE
    /\ at' = "setup"
    /\ UNCHANGED <<vmm, phase, guest, rc, devices, summary, timings, bench,
                   interrupts>>

\* main gives up: it returns, or panics, and its locals are dropped.
Fail == phase' = "failed" /\ at' = "drop"

\* A system call of Vm::new, load or set_real_mode_regs fails.
SetupFails ==
    /\ \/ at = "new" /\ Len(held) < Len(Resources)
       \/ at = "setup" /\ (phase = "demo" \/ remaining > 0)
    /\ Fail
    /\ UNCHANGED <<life, guest, rc, page, pending, devices, summary, timings,
                   bench, interrupts>>

\* One resource is released.
Release ==
    /\ at = "drop"
    /\ held # << >>
    /\ held' = Tail(held)
    /\ UNCHANGED <<vmm, phase, at, guest, rc, page, pending, devices, summary,
                   timings, bench, interrupts>>

\* demo or run_bench has returned: the benchmark brings up a VM of its own,
\* anything else is the end of the program.
Released ==
    /\ at = "drop"
    /\ held = << >>
    /\ at' = IF phase = "bench" THEN "new" ELSE "end"
    /\ UNCHANGED <<life, phase, guest, rc, page, pending, devices, summary,
                   timings, bench, interrupts>>

-----------------------------------------------------------------------------
(* main *)

\* load, set_real_mode_regs and the call of run.
Start(p) ==
    /\ program' = p
    /\ cpu' = ResetRegs
    /\ summary' = NewSummary
    /\ at' = "enter"
    /\ UNCHANGED <<life, phase, rc, page, pending, devices, timings,
                   interrupts>>

StartDemo ==
    /\ phase = "demo"
    /\ at = "setup"
    /\ \E p \in GuestPrograms : Start(p)
    /\ UNCHANGED bench

\* What demo checks once the guest has halted; the benchmark has a VM and
\* devices of its own.
DemoReturns ==
    /\ phase = "demo"
    /\ at = "finished"
    /\ at' = "drop"
    /\ IF devices.serial_out # Expected \/ devices.unhandled # 0
         THEN /\ phase' = "failed"
              /\ UNCHANGED <<guest, devices>>
         ELSE IF vmm = "crates" \/ Samples = 0
         THEN /\ phase' = "done"
              /\ UNCHANGED <<guest, devices>>
         ELSE /\ phase' = "bench"
              /\ program' = << >>
              /\ cpu' = ResetRegs
              /\ devices' = NewDevices
    /\ UNCHANGED <<life, rc, page, pending, summary, timings, bench,
                   interrupts>>

\* Mutant of Chunk: the last round is as long as the others.
ChunkFull == MaxPerRound

\* The exits of the next round.
Chunk == IF remaining < MaxPerRound THEN remaining ELSE MaxPerRound

StartRound ==
    /\ phase = "bench"
    /\ at = "setup"
    /\ remaining > 0
    /\ Start(bench_program(Chunk))
    /\ UNCHANGED bench

\* Mutant of RoundReturns: the round's last sample stays.
RoundReturnsWhole ==
    /\ phase = "bench"
    /\ at = "finished"
    /\ interrupted' = interrupted + summary.interrupted
    /\ remaining' = remaining - Chunk
    /\ at' = "setup"
    /\ UNCHANGED <<life, phase, guest, rc, page, pending, devices, summary,
                   timings, interrupts>>

\* The round's last sample, the hlt, is dropped.
RoundReturns ==
    /\ phase = "bench"
    /\ at = "finished"
    /\ interrupted' = interrupted + summary.interrupted
    /\ timings' = SubSeq(timings, 1, Len(timings) - 1)
    /\ remaining' = remaining - Chunk
    /\ at' = "setup"
    /\ UNCHANGED <<life, phase, guest, rc, page, pending, devices, summary,
                   interrupts>>

BenchReturns ==
    /\ phase = "bench"
    /\ at = "setup"
    /\ remaining = 0
    /\ phase' = "done"
    /\ at' = "drop"
    /\ UNCHANGED <<life, guest, rc, page, pending, devices, summary, timings,
                   bench, interrupts>>

-----------------------------------------------------------------------------
(* KVM and the guest (external) *)

\* KVM_RUN first completes the access it exited for, then enters the guest.
\* toy-kvm-crates counts an exit before it makes the call.
Enter ==
    /\ at = "enter"
    /\ cpu' = IF pending THEN Retire(cpu, program[cpu.pc], page.data) ELSE cpu
    /\ pending' = FALSE
    /\ at' = "guest"
    /\ summary' = IF vmm = "crates" THEN [summary EXCEPT !.exits = @ + 1]
                                    ELSE summary
    /\ UNCHANGED <<life, phase, program, rc, page, devices, timings, bench,
                   interrupts>>

GuestRuns ==
    /\ at = "guest"
    /\ Silent(program[cpu.pc])
    /\ cpu' = Execute(cpu, program[cpu.pc])
    /\ UNCHANGED <<life, phase, at, program, rc, page, pending, devices,
                   summary, timings, bench, interrupts>>

Return(r, pg) ==
    /\ at = "guest"
    /\ rc' = r
    /\ page' = pg
    /\ at' = "returned"
    /\ UNCHANGED <<life, phase, program, devices, summary, timings, bench>>

ExitForAccess ==
    /\ at = "guest"
    /\ LET i == program[cpu.pc]
       IN /\ IsPio(i) \/ IsMmio(i)
          /\ Return("ok", [reason |-> IF IsPio(i) THEN "IO" ELSE "MMIO",
                           write |-> ~IsRead(i),
                           where |-> IF IsPio(i) THEN cpu.dx ELSE i.arg,
                           data |-> IF IsRead(i) THEN page.data ELSE cpu.al])
    /\ pending' = TRUE
    /\ UNCHANGED <<cpu, interrupts>>

ExitForHlt ==
    /\ at = "guest"
    /\ program[cpu.pc].op = "hlt"
    /\ cpu' = [cpu EXCEPT !.pc = @ + 1]
    /\ Return("ok", [page EXCEPT !.reason = "HLT"])
    /\ UNCHANGED <<pending, interrupts>>

\* A signal or a scheduler tick: EINTR, with the page as it was or saying
\* INTR, or a return that reports KVM_EXIT_INTR.
Interrupt ==
    /\ interrupts < MaxInterrupts
    /\ interrupts' = interrupts + 1
    /\ \/ Return("EINTR", page)
       \/ Return("EINTR", [page EXCEPT !.reason = "INTR"])
       \/ Return("ok", [page EXCEPT !.reason = "INTR"])
    /\ UNCHANGED <<cpu, pending>>

\* KVM refuses the guest state, or the ioctl fails.
Refuse ==
    /\ \/ Return("ok", [page EXCEPT !.reason = "FAIL_ENTRY"])
       \/ Return("error", page)
    /\ UNCHANGED <<cpu, pending, interrupts>>

-----------------------------------------------------------------------------
(* Vm::run, and the loop of toy-kvm-crates, after KVM_RUN has returned *)

\* A sample is taken of every return, before it is known what it was; only
\* the benchmark asks for samples.
Sample(kind) ==
    timings' = IF phase = "bench" THEN Append(timings, kind) ELSE timings

\* Vm::run counts what it has seen.
Count(kinds) ==
    summary' = IF vmm = "crates" THEN summary
               ELSE [k \in DOMAIN summary |->
                       IF k \in kinds THEN summary[k] + 1 ELSE summary[k]]

Resume == at' = "enter" /\ UNCHANGED <<life, phase>>
GiveUp == Fail /\ UNCHANGED life

\* Mutant of HandleEintr: the page is dispatched on after EINTR as well.
HandleEintrAsExit ==
    /\ at = "returned"
    /\ rc = "EINTR"
    /\ Sample("intr")
    /\ rc' = "ok"
    /\ Count({"interrupted"})
    /\ UNCHANGED <<life, phase, at, guest, page, pending, devices, bench,
                   interrupts>>

HandleEintr ==
    /\ at = "returned"
    /\ vmm = "raw"
    /\ rc = "EINTR"
    /\ Sample("intr")
    /\ Count({"interrupted"})
    /\ Resume
    /\ UNCHANGED <<guest, rc, page, pending, devices, bench, interrupts>>

\* In toy-kvm-crates the question mark after run() makes EINTR an error too.
HandleError ==
    /\ at = "returned"
    /\ rc = "error" \/ (vmm = "crates" /\ rc = "EINTR")
    /\ Sample("error")
    /\ GiveUp
    /\ UNCHANGED <<guest, rc, page, pending, devices, summary, bench,
                   interrupts>>

Exited(reason) == at = "returned" /\ rc = "ok" /\ page.reason = reason

HandleIo ==
    /\ Exited("IO")
    /\ Sample("io")
    /\ Count({"exits", "io_exits"})
    /\ IF page.write
         THEN /\ devices' = pio_write(devices, page.where, page.data)
              /\ UNCHANGED page
         ELSE /\ devices' = pio_read(devices)
              /\ page' = [page EXCEPT !.data = PioAnswer]
    /\ Resume
    /\ UNCHANGED <<guest, rc, pending, bench, interrupts>>

HandleMmio ==
    /\ Exited("MMIO")
    /\ Sample("mmio")
    /\ Count({"exits", "mmio_exits"})
    /\ IF ~owns_mmio(page.where)
         THEN GiveUp /\ UNCHANGED <<devices, page>>
         ELSE /\ Resume
              /\ IF page.write
                   THEN /\ devices' = mmio_write(devices, page.where,
                                                 page.data)
                        /\ UNCHANGED page
                   ELSE /\ devices' = mmio_read(devices, page.where)
                        /\ page' = [page EXCEPT
                                      !.data = MmioAnswer(devices, page.where)]
    /\ UNCHANGED <<guest, rc, pending, bench, interrupts>>

HandleHlt ==
    /\ Exited("HLT")
    /\ Sample("hlt")
    /\ Count({"exits"})
    /\ at' = "finished"
    /\ UNCHANGED <<life, phase, guest, rc, page, pending, devices, bench,
                   interrupts>>

HandleIntr ==
    /\ vmm = "raw"
    /\ Exited("INTR")
    /\ Sample("intr")
    /\ Count({"exits", "interrupted"})
    /\ Resume
    /\ UNCHANGED <<guest, rc, page, pending, devices, bench, interrupts>>

\* "unhandled exit"
HandleUnknown ==
    /\ Exited("FAIL_ENTRY") \/ (vmm = "crates" /\ Exited("INTR"))
    /\ Sample("fail_entry")
    /\ Count({"exits"})
    /\ GiveUp
    /\ UNCHANGED <<guest, rc, page, pending, devices, bench, interrupts>>

Life == Acquire \/ Built \/ SetupFails \/ Release \/ Released
Main == StartDemo \/ DemoReturns \/ StartRound \/ RoundReturns \/ BenchReturns
Kvm == Enter \/ GuestRuns \/ ExitForAccess \/ ExitForHlt \/ Interrupt \/ Refuse
Run == \/ HandleEintr \/ HandleError \/ HandleIo \/ HandleMmio \/ HandleHlt
       \/ HandleIntr \/ HandleUnknown

Next == Life \/ Main \/ Kvm \/ Run

Spec == Init /\ [][Next]_vars

\* The one thread of the program runs, and KVM_RUN returns.
FairSpec == Spec /\ WF_vars(Next)

-----------------------------------------------------------------------------
(* Properties *)

Measuring(kind) == Cardinality({k \in DOMAIN timings : timings[k] = kind})

\* The samples of a benchmark round are one per requested exit plus one per
\* interruption reported to the caller: at the end of a round none measures
\* the hlt, which run_bench drops by position (main.rs 181-186), the exits
\* delivered by all rounds are exactly those requested, and the interrupted
\* count that main prints accounts for every other sample.
BenchPopulation ==
    phase = "bench" /\ at = "setup" =>
        /\ Measuring("hlt") = 0
        /\ Measuring("io") = Samples - remaining
        /\ Measuring("intr") = interrupted
        /\ Len(timings) = Samples - remaining + interrupted

\* An interruption "is a sample the benchmark must discard" (vmm.rs 150-153):
\* what a finished benchmark reports and writes to its CSV as vmexit_io
\* measures exits only.
InterruptionsDiscarded ==
    phase = "done" => \A k \in DOMAIN timings : timings[k] = "io"

\* The descriptor each resource was made from.  Guest memory was made from none:
\* it is registered with the VM, and the repository says both that it is to be
\* released before the descriptors that refer to it (vmm.rs 130-132, which Vm
\* does) and after them (vmm.rs 60-64; main.rs 65 of toy-kvm-crates).
Parent == [run_map |-> "vcpu", vcpu |-> "vm", vm |-> "kvm"]
IsHeld(r) == \E k \in DOMAIN held : held[k] = r

\* "the kvm_run mapping ... must be released before the fds that reference [it],
\* and the vCPU fd before the VM fd" (vmm.rs 130-132), which is "only valid while
\* the VM fd it came from is open": whether Vm::new fails half-way, the guest is
\* given up on or main ends, nothing is left whose descriptor has been closed.
ReleasedBeforeItsFd ==
    \A r \in DOMAIN Parent : IsHeld(r) => IsHeld(Parent[r])

\* Whatever interrupts or fails, the program ends, with everything released:
\* the guest halts, and the rounds add up to the samples asked for (run_bench).
EveryRunEnds == <>(at = "end" /\ held = << >>)

\* The access has happened for the guest once the run loop has answered it,
\* although KVM completes it on the next entry.
Answered == pending /\ at = "enter"
SeenCpu ==
    IF Answered THEN Retire(cpu, program[cpu.pc], page.data) ELSE cpu

Chunks == 1 .. IF Samples < MaxPerRound THEN Samples ELSE MaxPerRound

M == INSTANCE Machine WITH
        Programs <- GuestPrograms \cup {<< >>}
                      \cup {bench_program(n) : n \in Chunks},
        cpu <- SeenCpu,
        serial <- devices.serial_out,
        latch <- devices.latch,
        accesses <- devices.pio_writes + devices.pio_reads
                      + devices.mmio_writes + devices.mmio_reads,
        invented <- devices.unhandled

\* "The hardware resumes it with a value in a register exactly as if a chip
\* had responded" (device.rs 3-6): whatever the interruptions, the guest runs
\* as on a machine where every access takes effect once, in order, and every
\* read returns what the chip holds.
ImplementsMachine == M!Spec
=============================================================================

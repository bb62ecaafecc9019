----------------------------- MODULE VmmProofs ------------------------------
(***************************************************************************)
(* Theorems about Vmm, for every set of guests, number of samples, length  *)
(* of a round, device window and number of interruptions.                  *)
(***************************************************************************)
EXTENDS Vmm, FiniteSetTheorems, SequenceTheorems, TLAPS

\* Which fields the records have; what al, dx and the latch hold is left open.
Shapes ==
    /\ cpu \in [pc : Nat, al : {cpu.al}, dx : {cpu.dx}, cx : {cpu.cx}]
    /\ page \in [reason : {page.reason}, write : BOOLEAN, where : {page.where},
                 data : {page.data}]
    /\ devices \in [serial_out : {devices.serial_out}, latch : {devices.latch},
                    pio_writes : Nat, pio_reads : Nat, mmio_writes : Nat,
                    mmio_reads : Nat, unhandled : Nat]
    /\ remaining \in 0 .. Samples

\* Nothing is loaded, or what is has halted.
Bootable == program = << >> \/ cpu.pc > Len(program)

\* The guest is in the middle of its program.
Running == IsGuest(program) /\ cpu.pc \in 1 .. Len(program)

Access == page.reason \in {"IO", "MMIO"}

\* The page describes the instruction the guest exited for.
Describes ==
    LET i == program[cpu.pc]
    IN  /\ page.reason = "IO" => IsPio(i) /\ page.where = cpu.dx
        /\ page.reason = "MMIO" => IsMmio(i) /\ page.where = i.arg
        /\ page.write = ~IsRead(i)
        /\ page.write => page.data = cpu.al

\* Where the thread is says whether KVM owes the guest the end of an access.
Places ==
    /\ at \in {"new", "setup"} \/ (at = "drop" /\ phase = "bench") => Bootable
    /\ at \in {"setup", "guest", "finished"} => ~pending
    /\ at \in {"enter", "guest"} => Running
    /\ at = "enter" /\ pending => program[cpu.pc].op # "hlt"
    /\ at = "finished" => Bootable
    /\ at = "returned" /\ rc = "ok" /\ page.reason = "HLT" => Bootable
    /\ at = "returned" /\ ~(rc = "ok" /\ page.reason = "HLT") => Running
    /\ at = "returned" => (pending <=> rc = "ok" /\ Access)
    /\ at = "returned" /\ pending => Describes

Inv == Shapes /\ Places

-----------------------------------------------------------------------------
\* The benchmark's guest is a guest.
LEMMA BenchIsGuest ==
    ASSUME NEW n
    PROVE  IsGuest(bench_program(n))
  BY DEF bench_program, IsGuest, Silent, IsPio, IsMmio, mov_dx, mov_cx, out, loop, hlt

\* Nothing is loaded at first.
LEMMA InitInv == Init => Inv
  BY VmmAssumption DEF Init, Inv, Shapes, Places, Bootable, Access, ResetRegs,
     NoPage, NewDevices

\* Registers are a record of these fields.
IsCpu(c) == c \in [pc : Nat, al : {c.al}, dx : {c.dx}, cx : {c.cx}]

\* An instruction that is not the last leads to another one of the program.
LEMMA ExecuteStays ==
    ASSUME NEW p, IsGuest(p), NEW c, IsCpu(c), c.pc \in 1 .. Len(p),
           Silent(p[c.pc])
    PROVE  IsCpu(Execute(c, p[c.pc])) /\ Execute(c, p[c.pc]).pc \in 1 .. Len(p)
  <1> DEFINE i == p[c.pc]
  <1>1. c.pc # Len(p) /\ Len(p) \in Nat /\ (i.op = "loop" => i.arg \in 1 .. Len(p))
    BY DEF IsGuest, Silent
  <1>2. c.pc + 1 \in 1 .. Len(p) /\ \A k \in 1 .. Len(p) : k \in Nat
    BY <1>1
  <1>3. i.op \in {"mov_al", "mov_dx", "mov_cx", "loop"}
    BY DEF Silent
  <1> HIDE DEF i
  <1>4. ASSUME i.op = "mov_al"
        PROVE  IsCpu(Execute(c, i)) /\ Execute(c, i).pc \in 1 .. Len(p)
    BY <1>2, <1>4 DEF Execute, IsCpu
  <1>5. ASSUME i.op = "mov_dx"
        PROVE  IsCpu(Execute(c, i)) /\ Execute(c, i).pc \in 1 .. Len(p)
    BY <1>2, <1>5 DEF Execute, IsCpu
  <1>6. ASSUME i.op = "mov_cx"
        PROVE  IsCpu(Execute(c, i)) /\ Execute(c, i).pc \in 1 .. Len(p)
    BY <1>2, <1>6 DEF Execute, IsCpu
  <1>7. ASSUME i.op = "loop"
        PROVE  IsCpu(Execute(c, i)) /\ Execute(c, i).pc \in 1 .. Len(p)
    BY <1>1, <1>2, <1>7 DEF Execute, IsCpu
  <1> QED BY <1>3, <1>4, <1>5, <1>6, <1>7 DEF i

\* So does an access.
LEMMA RetireStays ==
    ASSUME NEW p, IsGuest(p), NEW c, IsCpu(c), c.pc \in 1 .. Len(p),
           p[c.pc].op # "hlt", NEW a
    PROVE  /\ IsCpu(Retire(c, p[c.pc], a))
           /\ Retire(c, p[c.pc], a).pc \in 1 .. Len(p)
  <1>1. c.pc # Len(p) /\ Len(p) \in Nat
    BY DEF IsGuest
  <1>2. c.pc + 1 \in 1 .. Len(p) /\ c.pc + 1 \in Nat
    BY <1>1
  <1> QED BY <1>2 DEF Retire, IsCpu

-----------------------------------------------------------------------------
\* The VM's life changes no register, and Built leaves no access open.
LEMMA LifeStep == Inv /\ Life => Inv'
  <1> SUFFICES ASSUME Inv, Life PROVE Inv'
    OBVIOUS
  <1> USE DEF Inv, guest, life, bench
  <1>1. CASE Acquire
    BY <1>1 DEF Acquire, Shapes, Places, Bootable
  <1>2. CASE Built
    BY <1>2 DEF Built, Shapes, Places, Bootable, NoPage
  <1>3. CASE SetupFails
    BY <1>3 DEF SetupFails, Fail, Shapes, Places, Bootable
  <1>4. CASE Release
    BY <1>4 DEF Release, Shapes, Places, Bootable
  <1>5. CASE Released
    BY <1>5 DEF Released, Shapes, Places, Bootable
  <1> QED BY <1>1, <1>2, <1>3, <1>4, <1>5 DEF Life

\* main loads guests, and starts nothing while one runs.
LEMMA MainStep == Inv /\ Main => Inv'
  <1> SUFFICES ASSUME Inv, Main PROVE Inv'
    OBVIOUS
  <1> USE DEF Inv, guest, life, bench
  <1>0. ASSUME NEW p, IsGuest(p), Start(p), at = "setup", remaining' = remaining
        PROVE  Inv'
    <2>1. cpu' = ResetRegs /\ program' = p /\ at' = "enter" /\ pending' = FALSE
      BY <1>0 DEF Start, Places
    <2>2. 1 \in 1 .. Len(p)
      <3>1. Len(p) \in Nat \ {0}
        BY <1>0 DEF IsGuest
      <3> QED BY <3>1
    <2>3. Shapes'
      BY <1>0 DEF Start, Shapes, ResetRegs
    <2>4. Running'
      BY <1>0, <2>1, <2>2 DEF Running, ResetRegs
    <2>5. Places'
      BY <2>1, <2>4 DEF Places
    <2> QED BY <2>3, <2>5
  <1>1. CASE StartDemo
    BY <1>0, <1>1, GuestsAssumption DEF StartDemo
  <1>2. CASE DemoReturns
    <2>1. Shapes'
      BY <1>2 DEF DemoReturns, Shapes, ResetRegs, NewDevices
    <2>2. Places'
      BY <1>2 DEF DemoReturns, Places, Bootable
    <2> QED BY <2>1, <2>2
  <1>3. CASE StartRound
    BY <1>0, <1>3, BenchIsGuest DEF StartRound
  <1>4. CASE RoundReturns
    <2>1. remaining - Chunk \in 0 .. Samples
      BY GuestAssumption, VmmAssumption DEF Shapes, Chunk
    <2>2. Shapes'
      BY <1>4, <2>1 DEF RoundReturns, Shapes
    <2>3. Places'
      BY <1>4 DEF RoundReturns, Places, Bootable
    <2> QED BY <2>2, <2>3
  <1>5. CASE BenchReturns
    BY <1>5 DEF BenchReturns, Shapes, Places, Bootable
  <1> QED BY <1>1, <1>2, <1>3, <1>4, <1>5 DEF Main

\* What returned, with an answer of KVM: the guest has not moved.
LEMMA ReturnStep ==
    ASSUME Inv, NEW r, NEW pg, Return(r, pg), pg \in [reason : {pg.reason},
               write : BOOLEAN, where : {pg.where}, data : {pg.data}],
           UNCHANGED cpu, remaining' = remaining, r # "ok" \/ pg.reason # "HLT",
           pending' <=> r = "ok" /\ pg.reason \in {"IO", "MMIO"},
           pending' => Describes'
    PROVE  Inv'
  <1>1. program' = program /\ cpu' = cpu /\ at = "guest" /\ at' = "returned"
        /\ rc' = r /\ page' = pg /\ devices' = devices
    BY DEF Return
  <1>2. Running'
    BY <1>1 DEF Inv, Places, Running
  <1>3. Shapes'
    BY <1>1 DEF Inv, Shapes
  <1>4. Places'
    BY <1>1, <1>2 DEF Places, Access
  <1> QED BY <1>3, <1>4 DEF Inv

\* KVM completes an access before it runs the guest, and exits before the next.
LEMMA KvmStep == Inv /\ Kvm => Inv'
  <1> SUFFICES ASSUME Inv, Kvm PROVE Inv'
    OBVIOUS
  <1>0. IsCpu(cpu)
    BY DEF Inv, Shapes, IsCpu
  <1> USE DEF guest, life, bench
  <1>1. CASE Enter
    <2>1. at = "enter" /\ IsGuest(program) /\ cpu.pc \in 1 .. Len(program)
          /\ (pending => program[cpu.pc].op # "hlt")
      BY <1>1 DEF Enter, Inv, Places, Running
    <2>2. IsCpu(cpu') /\ cpu'.pc \in 1 .. Len(program)
      <3>1. CASE pending
        BY <1>0, <1>1, <2>1, <3>1, RetireStays DEF Enter
      <3>2. CASE ~pending
        BY <1>0, <1>1, <2>1, <3>2 DEF Enter
      <3> QED BY <3>1, <3>2
    <2>3. program' = program /\ at' = "guest" /\ pending' = FALSE /\ page' = page
          /\ devices' = devices /\ remaining' = remaining
      BY <1>1 DEF Enter
    <2>4. Running'
      BY <2>1, <2>2, <2>3 DEF Running
    <2>5. Shapes'
      BY <2>2, <2>3 DEF Inv, Shapes, IsCpu
    <2>6. Places'
      BY <2>3, <2>4 DEF Places
    <2> QED BY <2>5, <2>6 DEF Inv
  <1>2. CASE GuestRuns
    <2>1. at = "guest" /\ IsGuest(program) /\ cpu.pc \in 1 .. Len(program)
          /\ Silent(program[cpu.pc]) /\ ~pending
      BY <1>2 DEF GuestRuns, Inv, Places, Running
    <2>2. IsCpu(cpu') /\ cpu'.pc \in 1 .. Len(program)
      BY <1>0, <1>2, <2>1, ExecuteStays DEF GuestRuns
    <2>3. program' = program /\ at' = "guest" /\ pending' = FALSE /\ page' = page
          /\ devices' = devices /\ remaining' = remaining
      BY <1>2, <2>1 DEF GuestRuns
    <2>4. Running'
      BY <2>1, <2>2, <2>3 DEF Running
    <2>5. Shapes'
      BY <2>2, <2>3 DEF Inv, Shapes, IsCpu
    <2>6. Places'
      BY <2>3, <2>4 DEF Places
    <2> QED BY <2>5, <2>6 DEF Inv
  <1>3. CASE ExitForAccess
    <2> DEFINE i == program[cpu.pc]
               pg == [reason |-> IF IsPio(i) THEN "IO" ELSE "MMIO",
                      write |-> ~IsRead(i),
                      where |-> IF IsPio(i) THEN cpu.dx ELSE i.arg,
                      data |-> IF IsRead(i) THEN page.data ELSE cpu.al]
    <2>1. Return("ok", pg) /\ pending' = TRUE /\ cpu' = cpu
          /\ (IsPio(i) \/ IsMmio(i)) /\ remaining' = remaining
      BY <1>3 DEF ExitForAccess, Return
    <2>2. program' = program /\ page' = pg
      BY <2>1 DEF Return
    <2>3. Describes'
      BY <2>1, <2>2 DEF Describes
    <2>4. /\ pg.reason \in {"IO", "MMIO"}
          /\ pg \in [reason : {pg.reason}, write : BOOLEAN, where : {pg.where},
                    data : {pg.data}]
      BY DEF IsRead
    <2> HIDE DEF pg
    <2> QED BY <2>1, <2>3, <2>4, ReturnStep
  <1>4. CASE ExitForHlt
    <2>1. at = "guest" /\ IsGuest(program) /\ cpu.pc \in 1 .. Len(program)
          /\ program[cpu.pc].op = "hlt" /\ ~pending
      BY <1>4 DEF ExitForHlt, Inv, Places, Running, Return
    <2>2. cpu.pc = Len(program) /\ Len(program) \in Nat
      BY <2>1 DEF IsGuest
    <2>3. cpu' = [cpu EXCEPT !.pc = @ + 1]
      BY <1>4 DEF ExitForHlt
    <2>4. IsCpu(cpu') /\ cpu'.pc > Len(program)
      BY <1>0, <2>2, <2>3 DEF IsCpu
    <2>5. program' = program /\ at' = "returned" /\ pending' = FALSE /\ rc' = "ok"
          /\ page' = [page EXCEPT !.reason = "HLT"]
          /\ devices' = devices /\ remaining' = remaining
      BY <1>4, <2>1 DEF ExitForHlt, Return
    <2>6. page' \in [reason : {page'.reason}, write : BOOLEAN, where : {page'.where},
                     data : {page'.data}] /\ page'.reason = "HLT"
      BY <2>5 DEF Inv, Shapes
    <2>7. Shapes'
      BY <2>4, <2>5, <2>6 DEF Inv, Shapes, IsCpu
    <2>8. Places'
      BY <2>4, <2>5, <2>6 DEF Places, Bootable, Access
    <2> QED BY <2>7, <2>8 DEF Inv
  <1>5. ASSUME NEW r, NEW x, Return(r, [page EXCEPT !.reason = x]),
               UNCHANGED <<cpu, pending>>,
               r # "ok" \/ x \in {"INTR", "FAIL_ENTRY"}
        PROVE  Inv'
    <2>1. ~pending' /\ remaining' = remaining
      BY <1>5 DEF Return, Inv, Places
    <2> DEFINE pg == [page EXCEPT !.reason = x]
    <2>2. pg.reason = x /\ pg \in [reason : {pg.reason}, write : BOOLEAN,
                                  where : {pg.where}, data : {pg.data}]
      BY DEF Inv, Shapes
    <2> HIDE DEF pg
    <2>3. Return(r, pg)
      BY <1>5 DEF pg
    <2> QED BY <1>5, <2>1, <2>2, <2>3, ReturnStep
  <1>6. page = [page EXCEPT !.reason = page.reason]
    BY DEF Inv, Shapes
  <1>7. CASE Interrupt
    <2>1. UNCHANGED <<cpu, pending>>
      BY <1>7 DEF Interrupt
    <2>2. CASE Return("EINTR", page)
      BY <1>5, <1>6, <2>1, <2>2
    <2>3. CASE Return("EINTR", [page EXCEPT !.reason = "INTR"])
      BY <1>5, <2>1, <2>3
    <2>4. CASE Return("ok", [page EXCEPT !.reason = "INTR"])
      BY <1>5, <2>1, <2>4
    <2> QED BY <1>7, <2>2, <2>3, <2>4 DEF Interrupt
  <1>8. CASE Refuse
    <2>1. UNCHANGED <<cpu, pending>>
      BY <1>8 DEF Refuse
    <2>2. CASE Return("ok", [page EXCEPT !.reason = "FAIL_ENTRY"])
      BY <1>5, <2>1, <2>2
    <2>3. CASE Return("error", page)
      BY <1>5, <1>6, <2>1, <2>3
    <2> QED BY <1>8, <2>2, <2>3 DEF Refuse
  <1> QED BY <1>1, <1>2, <1>3, <1>4, <1>7, <1>8 DEF Kvm

-----------------------------------------------------------------------------
\* What of the device model the guest's machine has.
Chips(d) == [serial |-> d.serial_out, latch |-> d.latch,
             accesses |-> d.pio_writes + d.pio_reads + d.mmio_writes
                            + d.mmio_reads,
             invented |-> d.unhandled]

IsDevices(d) == d \in [serial_out : {d.serial_out}, latch : {d.latch},
                       pio_writes : Nat, pio_reads : Nat, mmio_writes : Nat,
                       mmio_reads : Nat, unhandled : Nat]

\* A device model with these fields.
Dev(s, l, pw, pr, mw, mr, u) ==
    [serial_out |-> s, latch |-> l, pio_writes |-> pw, pio_reads |-> pr,
     mmio_writes |-> mw, mmio_reads |-> mr, unhandled |-> u]

\* A device model is given by its fields.
LEMMA DevicesAre ==
    ASSUME NEW d, IsDevices(d)
    PROVE  \E s, l : \E pw, pr, mw, mr, u \in Nat :
              d = Dev(s, l, pw, pr, mw, mr, u)
  <1>1. /\ d = Dev(d.serial_out, d.latch, d.pio_writes, d.pio_reads,
                  d.mmio_writes, d.mmio_reads, d.unhandled)
        /\ d.pio_writes \in Nat /\ d.pio_reads \in Nat /\ d.mmio_writes \in Nat
        /\ d.mmio_reads \in Nat /\ d.unhandled \in Nat
    BY DEF IsDevices, Dev
  <1> QED BY <1>1

\* And so are its chips.
LEMMA DevChips ==
    ASSUME NEW s, NEW l, NEW pw \in Nat, NEW pr \in Nat, NEW mw \in Nat,
           NEW mr \in Nat, NEW u \in Nat
    PROVE  /\ IsDevices(Dev(s, l, pw, pr, mw, mr, u))
           /\ Chips(Dev(s, l, pw, pr, mw, mr, u)) =
                [serial |-> s, latch |-> l, accesses |-> pw + pr + mw + mr,
                 invented |-> u]
           /\ Dev(s, l, pw, pr, mw, mr, u).latch = l
  BY DEF Dev, IsDevices, Chips

\* The chips after one access.
After(c, serial, latch, invented) ==
    [serial |-> serial, latch |-> latch, accesses |-> c.accesses + 1,
     invented |-> invented]

\* A port write is one access, and appends to what the serial port printed
\* when it is the serial port's.
LEMMA PioWriteChips ==
    ASSUME NEW d, IsDevices(d), NEW port, NEW data
    PROVE  LET c == Chips(d)
           IN  /\ IsDevices(pio_write(d, port, data))
               /\ Chips(pio_write(d, port, data)) =
                    After(c, IF port = "serial" THEN Append(c.serial, data)
                                                ELSE c.serial, c.latch,
                          IF port \in {"serial", "bench"} THEN c.invented
                                                          ELSE c.invented + 1)
  <1>1. PICK s, l : \E pw, pr, mw, mr, u \in Nat : d = Dev(s, l, pw, pr, mw, mr, u)
    BY DevicesAre
  <1>2. PICK pw, pr, mw, mr, u \in Nat : d = Dev(s, l, pw, pr, mw, mr, u)
    BY <1>1
  <1> DEFINE ns == IF port = "serial" THEN Append(s, data) ELSE s
             nu == IF port \in {"serial", "bench"} THEN u ELSE u + 1
  <1>3. pio_write(Dev(s, l, pw, pr, mw, mr, u), port, data) =
          Dev(ns, l, pw + 1, pr, mw, mr, nu)
    <2>1. CASE port = "serial"
      BY <2>1 DEF pio_write, Dev
    <2>2. CASE port = "bench"
      BY <2>2 DEF pio_write, Dev
    <2>3. CASE port \notin {"serial", "bench"}
      BY <2>3 DEF pio_write, Dev
    <2> QED BY <2>1, <2>2, <2>3
  <1>4. nu \in Nat /\ pw + 1 \in Nat /\ (pw + 1) + pr + mw + mr = (pw + pr + mw + mr) + 1
    OBVIOUS
  <1>5. Chips(d) = [serial |-> s, latch |-> l, accesses |-> pw + pr + mw + mr,
                    invented |-> u]
    BY <1>2, DevChips
  <1> HIDE DEF ns, nu
  <1>6. /\ IsDevices(pio_write(d, port, data))
        /\ Chips(pio_write(d, port, data)) = After(Chips(d), ns, l, nu)
    BY <1>2, <1>3, <1>4, <1>5, DevChips DEF After
  <1> QED BY <1>5, <1>6 DEF ns, nu

\* A port read is one access, and nobody answers it.
LEMMA PioReadChips ==
    ASSUME NEW d, IsDevices(d)
    PROVE  LET c == Chips(d)
           IN  /\ IsDevices(pio_read(d))
               /\ Chips(pio_read(d)) =
                    After(c, c.serial, c.latch, c.invented + 1)
  <1>1. PICK s, l : \E pw, pr, mw, mr, u \in Nat : d = Dev(s, l, pw, pr, mw, mr, u)
    BY DevicesAre
  <1>2. PICK pw, pr, mw, mr, u \in Nat : d = Dev(s, l, pw, pr, mw, mr, u)
    BY <1>1
  <1>3. pio_read(Dev(s, l, pw, pr, mw, mr, u)) = Dev(s, l, pw, pr + 1, mw, mr, u + 1)
    <2> DEFINE counted == Dev(s, l, pw, pr + 1, mw, mr, u)
    <2>1. [Dev(s, l, pw, pr, mw, mr, u) EXCEPT !.pio_reads = @ + 1] = counted
      BY DEF Dev
    <2>2. [counted EXCEPT !.unhandled = @ + 1] = Dev(s, l, pw, pr + 1, mw, mr, u + 1)
      BY DEF Dev
    <2> HIDE DEF counted
    <2> QED BY <2>1, <2>2 DEF pio_read
  <1>4. u + 1 \in Nat /\ pr + 1 \in Nat /\ pw + (pr + 1) + mw + mr = (pw + pr + mw + mr) + 1
    OBVIOUS
  <1>5. Chips(d) = [serial |-> s, latch |-> l, accesses |-> pw + pr + mw + mr,
                    invented |-> u]
    BY <1>2, DevChips
  <1> QED BY <1>2, <1>3, <1>4, <1>5, DevChips DEF After

\* A store is one access, and only the chip's address takes the byte.
LEMMA MmioWriteChips ==
    ASSUME NEW d, IsDevices(d), NEW addr \in Nat, NEW data
    PROVE  LET c == Chips(d)
           IN  /\ IsDevices(mmio_write(d, addr, data))
               /\ Chips(mmio_write(d, addr, data)) =
                    After(c, c.serial, IF addr = MmioBase THEN data ELSE c.latch,
                          IF addr = MmioBase THEN c.invented ELSE c.invented + 1)
  <1>1. PICK s, l : \E pw, pr, mw, mr, u \in Nat : d = Dev(s, l, pw, pr, mw, mr, u)
    BY DevicesAre
  <1>2. PICK pw, pr, mw, mr, u \in Nat : d = Dev(s, l, pw, pr, mw, mr, u)
    BY <1>1
  <1> DEFINE nl == IF addr = MmioBase THEN data ELSE l
             nu == IF addr = MmioBase THEN u ELSE u + 1
  <1>3. mmio_write(Dev(s, l, pw, pr, mw, mr, u), addr, data) =
          Dev(s, nl, pw, pr, mw + 1, mr, nu)
    <2>1. addr - MmioBase = 0 <=> addr = MmioBase
      BY GuestAssumption
    <2>2. CASE addr = MmioBase
      BY <2>1, <2>2 DEF mmio_write, Dev
    <2>3. CASE addr # MmioBase
      BY <2>1, <2>3 DEF mmio_write, Dev
    <2> QED BY <2>2, <2>3
  <1>4. nu \in Nat /\ mw + 1 \in Nat /\ pw + pr + (mw + 1) + mr = (pw + pr + mw + mr) + 1
    OBVIOUS
  <1>5. Chips(d) = [serial |-> s, latch |-> l, accesses |-> pw + pr + mw + mr,
                    invented |-> u]
    BY <1>2, DevChips
  <1> QED BY <1>2, <1>3, <1>4, <1>5, DevChips DEF After

\* A load is one access, and only the chip's address has the latch to answer.
LEMMA MmioReadChips ==
    ASSUME NEW d, IsDevices(d), NEW addr \in Nat
    PROVE  LET c == Chips(d)
           IN  /\ IsDevices(mmio_read(d, addr))
               /\ Chips(mmio_read(d, addr)) =
                    After(c, c.serial, c.latch,
                          IF addr = MmioBase THEN c.invented ELSE c.invented + 1)
               /\ MmioAnswer(d, addr) =
                    IF addr = MmioBase THEN c.latch ELSE Floating
  <1>1. PICK s, l : \E pw, pr, mw, mr, u \in Nat : d = Dev(s, l, pw, pr, mw, mr, u)
    BY DevicesAre
  <1>2. PICK pw, pr, mw, mr, u \in Nat : d = Dev(s, l, pw, pr, mw, mr, u)
    BY <1>1
  <1> DEFINE nu == IF addr = MmioBase THEN u ELSE u + 1
  <1>0. addr - MmioBase = 0 <=> addr = MmioBase
    BY GuestAssumption
  <1>3. mmio_read(Dev(s, l, pw, pr, mw, mr, u), addr) =
          Dev(s, l, pw, pr, mw, mr + 1, nu)
    <2>1. CASE addr = MmioBase
      BY <1>0, <2>1 DEF mmio_read, Dev
    <2>2. CASE addr # MmioBase
      BY <1>0, <2>2 DEF mmio_read, Dev
    <2> QED BY <2>1, <2>2
  <1>4. nu \in Nat /\ mr + 1 \in Nat /\ pw + pr + mw + (mr + 1) = (pw + pr + mw + mr) + 1
    OBVIOUS
  <1>5. Chips(d) = [serial |-> s, latch |-> l, accesses |-> pw + pr + mw + mr,
                    invented |-> u] /\ d.latch = l
    BY <1>2, DevChips
  <1>6. MmioAnswer(d, addr) = IF addr = MmioBase THEN Chips(d).latch ELSE Floating
    BY <1>0, <1>5 DEF MmioAnswer
  <1> QED BY <1>2, <1>3, <1>4, <1>5, <1>6, DevChips DEF After

-----------------------------------------------------------------------------
IsPage(pg) == pg \in [reason : {pg.reason}, write : BOOLEAN, where : {pg.where},
                      data : {pg.data}]

\* The loop goes round, whatever it has answered.
LEMMA ResumeStep ==
    ASSUME Inv, at = "returned", ~(rc = "ok" /\ page.reason = "HLT"),
           at' = "enter", UNCHANGED <<program, cpu, pending, remaining>>,
           IsPage(page'), IsDevices(devices')
    PROVE  Inv'
  <1>1. Running'
    BY DEF Inv, Places, Running
  <1>2. Shapes'
    BY DEF Inv, Shapes, IsPage, IsDevices
  <1>3. pending => program[cpu.pc].op # "hlt"
    BY DEF Inv, Places, Access, Describes, IsPio, IsMmio
  <1>4. Places'
    BY <1>1, <1>3 DEF Places
  <1> QED BY <1>2, <1>4 DEF Inv

\* The loop gives up.
LEMMA GiveUpStep ==
    ASSUME Inv, at = "returned", GiveUp, UNCHANGED <<cpu, page, devices, remaining>>
    PROVE  Inv'
  BY DEF Inv, GiveUp, Fail, Shapes, Places

\* Vm::run answers an access, or reports what it was told, and goes on.
LEMMA RunStep == Inv /\ Run => Inv'
  <1> SUFFICES ASSUME Inv, Run PROVE Inv'
    OBVIOUS
  <1> USE DEF guest, life, bench
  <1>0. IsPage(page) /\ IsDevices(devices)
    BY DEF Inv, Shapes, IsPage, IsDevices
  <1>1. CASE HandleEintr
    BY <1>0, <1>1, ResumeStep DEF HandleEintr, Resume
  <1>2. CASE HandleError
    BY <1>2, GiveUpStep DEF HandleError
  <1>3. CASE HandleIo
    <2>1. IsPage(page')
      BY <1>0, <1>3 DEF HandleIo, IsPage
    <2>2. IsDevices(devices')
      BY <1>0, <1>3, PioReadChips, PioWriteChips DEF HandleIo
    <2> QED BY <1>3, <2>1, <2>2, ResumeStep DEF HandleIo, Exited, Resume
  <1>4. CASE HandleMmio
    <2>1. page.where \in Nat
      <3>1. at = "returned" /\ rc = "ok" /\ page.reason = "MMIO"
        BY <1>4 DEF HandleMmio, Exited
      <3>2. Running /\ Describes
        BY <3>1 DEF Inv, Places, Access
      <3>3. IsMmio(program[cpu.pc]) /\ page.where = program[cpu.pc].arg
        BY <3>1, <3>2 DEF Describes
      <3> QED BY <3>2, <3>3 DEF Running, IsGuest
    <2>2. CASE ~owns_mmio(page.where)
      BY <1>4, <2>2, GiveUpStep DEF HandleMmio, Exited
    <2>3. CASE owns_mmio(page.where)
      <3>1. IsPage(page')
        BY <1>0, <1>4, <2>3 DEF HandleMmio, IsPage
      <3>2. IsDevices(devices')
        BY <1>0, <1>4, <2>1, <2>3, MmioReadChips, MmioWriteChips DEF HandleMmio
      <3> QED BY <1>4, <2>3, <3>1, <3>2, ResumeStep DEF HandleMmio, Exited, Resume
    <2> QED BY <2>2, <2>3
  <1>5. CASE HandleHlt
    <2>1. ~pending /\ Bootable
      BY <1>5 DEF HandleHlt, Exited, Inv, Places, Access
    <2>2. Shapes'
      BY <1>5 DEF HandleHlt, Inv, Shapes
    <2>3. Places'
      BY <1>5, <2>1 DEF HandleHlt, Places, Bootable
    <2> QED BY <2>2, <2>3 DEF Inv
  <1>6. CASE HandleIntr
    BY <1>0, <1>6, ResumeStep DEF HandleIntr, Exited, Resume
  <1>7. CASE HandleUnknown
    BY <1>7, GiveUpStep DEF HandleUnknown, Exited
  <1> QED BY <1>1, <1>2, <1>3, <1>4, <1>5, <1>6, <1>7 DEF Run

\* Inv is inductive.
LEMMA InvStep == Inv /\ [Next]_vars => Inv'
  <1>1. Inv /\ UNCHANGED vars => Inv'
    BY DEF vars, Inv, Shapes, Places, Bootable, Running, Access, Describes
  <1> QED BY <1>1, LifeStep, MainStep, KvmStep, RunStep DEF Next

\* Where the thread is, what the page says and what KVM still owes the guest
\* agree throughout a run of either program.
THEOREM PlacesInvariant == Spec => []Inv
  BY InitInv, InvStep, PTL DEF Spec

-----------------------------------------------------------------------------
\* Outside the answered accesses the guest sees its registers as they are.
LEMMA SeenIsCpu ==
    /\ ~(pending /\ at = "enter") => SeenCpu = cpu
    /\ ~(pending' /\ at' = "enter") => SeenCpu' = cpu'
  BY DEF SeenCpu, Answered

\* A step the guest does not see.
LEMMA Unseen ==
    ASSUME UNCHANGED <<program, devices>>, SeenCpu' = SeenCpu
    PROVE  UNCHANGED M!machine
  BY DEF M!machine

\* A guest is loaded and the chips stay.
LEMMA BootStep ==
    ASSUME Inv, NEW p, Start(p), at = "setup",
           p \in GuestPrograms \/ \E n \in Chunks : p = bench_program(n)
    PROVE  M!Boot
  <1>1. /\ program' = p /\ cpu' = ResetRegs /\ at' = "enter" /\ ~pending
        /\ pending' = pending /\ devices' = devices /\ Bootable
    BY DEF Start, Inv, Places
  <1>2. SeenCpu = cpu /\ SeenCpu' = ResetRegs
    BY <1>1, SeenIsCpu
  <1>3. ResetRegs = M!ResetRegs
    BY DEF ResetRegs, M!ResetRegs, Zero, M!Zero
  <1> QED BY <1>1, <1>2, <1>3 DEF M!Boot, Bootable

\* An access is answered: one step of the guest's machine, which completes
\* the instruction and does to the chips what the device model did.
LEMMA AccessStep ==
    ASSUME Inv, at = "returned", rc = "ok", Access, at' = "enter",
           UNCHANGED <<program, cpu, pending>>,
           NEW i, i = program[cpu.pc],
           IsPio(i) \/ (IsMmio(i) /\ M!Decoded(i)),
           NEW known \in BOOLEAN, M!Known(i) = known,
           IsRead(i) => page'.data = IF known THEN devices.latch ELSE Floating,
           Chips(devices') =
              After(Chips(devices),
                    IF i.op = "out" /\ cpu.dx = "serial"
                      THEN Append(devices.serial_out, cpu.al)
                      ELSE devices.serial_out,
                    IF i.op = "store" /\ known THEN cpu.al ELSE devices.latch,
                    IF known THEN devices.unhandled ELSE devices.unhandled + 1)
    PROVE  M!Step
  <1>1. pending /\ IsGuest(program) /\ cpu.pc \in 1 .. Len(program) /\ SeenCpu = cpu
    BY SeenIsCpu DEF Inv, Places, Running, Access
  <1>2. cpu.pc \in DOMAIN program
    BY <1>1 DEF IsGuest
  <1>3. SeenCpu' = Retire(cpu, i, page'.data)
    BY <1>1 DEF SeenCpu, Answered
  <1>4. Retire(cpu, i, page'.data) =
          M!Retire(cpu, i, IF known THEN devices.latch ELSE M!Floating)
    BY DEF Retire, M!Retire, IsRead, M!IsRead, Floating, M!Floating
  <1>5. M!IsPio(i) \/ (M!IsMmio(i) /\ M!Decoded(i))
    BY DEF IsPio, M!IsPio, IsMmio, M!IsMmio
  <1>6. /\ devices'.serial_out = IF i.op = "out" /\ cpu.dx = "serial"
                                   THEN Append(devices.serial_out, cpu.al)
                                   ELSE devices.serial_out
        /\ devices'.latch = IF i.op = "store" /\ known THEN cpu.al ELSE devices.latch
        /\ devices'.pio_writes + devices'.pio_reads + devices'.mmio_writes
             + devices'.mmio_reads =
             (devices.pio_writes + devices.pio_reads + devices.mmio_writes
                + devices.mmio_reads) + 1
        /\ devices'.unhandled = IF known THEN devices.unhandled
                                         ELSE devices.unhandled + 1
    BY DEF Chips, After
  <1> QED BY <1>1, <1>2, <1>3, <1>4, <1>5, <1>6 DEF M!Step

\* The VM's life and main's rounds: a guest is loaded, or nothing happens.
LEMMA LifeAndMainSimulate == Inv /\ (Life \/ Main) => [M!Next]_M!machine
  <1> SUFFICES ASSUME Inv, Life \/ Main PROVE [M!Next]_M!machine
    OBVIOUS
  <1> USE DEF guest, life, bench
  <1>1. CASE Life
    <2>1. UNCHANGED <<program, devices, cpu>> /\ at # "enter" /\ at' # "enter"
      BY <1>1 DEF Life, Acquire, Built, SetupFails, Fail, Release, Released
    <2> QED BY <2>1, SeenIsCpu, Unseen
  <1>2. CASE StartDemo
    BY <1>2, BootStep DEF StartDemo, M!Next
  <1>3. CASE StartRound
    <2>1. Chunk \in Chunks
      BY <1>3, GuestAssumption, VmmAssumption
         DEF StartRound, Inv, Shapes, Chunk, Chunks
    <2> QED BY <1>3, <2>1, BootStep DEF StartRound, M!Next
  <1>4. CASE DemoReturns
    <2>1. SeenCpu = cpu /\ SeenCpu' = cpu' /\ Bootable
      BY <1>4, SeenIsCpu DEF DemoReturns, Inv, Places
    <2>2. CASE UNCHANGED <<program, cpu, devices>>
      BY <2>1, <2>2, Unseen
    <2>3. CASE program' = << >> /\ cpu' = ResetRegs /\ devices' = NewDevices
      <3>1. /\ NewDevices.serial_out = << >> /\ NewDevices.latch = M!Zero
            /\ NewDevices.pio_writes + NewDevices.pio_reads
                 + NewDevices.mmio_writes + NewDevices.mmio_reads = 0
            /\ NewDevices.unhandled = 0
        BY DEF NewDevices, Zero, M!Zero
      <3>2. ResetRegs = M!ResetRegs
        BY DEF ResetRegs, M!ResetRegs, Zero, M!Zero
      <3> QED BY <2>1, <2>3, <3>1, <3>2 DEF M!Next, M!Boot, Bootable
    <2> QED BY <1>4, <2>2, <2>3 DEF DemoReturns
  <1>5. CASE RoundReturns \/ BenchReturns
    BY <1>5, SeenIsCpu, Unseen DEF RoundReturns, BenchReturns
  <1> QED BY <1>1, <1>2, <1>3, <1>4, <1>5 DEF Main

\* KVM: an instruction that does not exit is a step, completing an answered
\* access is none.
LEMMA KvmSimulates == Inv /\ Kvm => [M!Next]_M!machine
  <1> SUFFICES ASSUME Inv, Kvm PROVE [M!Next]_M!machine
    OBVIOUS
  <1> USE DEF guest, life, bench
  <1>1. CASE Enter
    <2>1. SeenCpu' = SeenCpu
      BY <1>1 DEF Enter, SeenCpu, Answered
    <2> QED BY <1>1, <2>1, Unseen DEF Enter
  <1>2. CASE GuestRuns
    <2> DEFINE i == program[cpu.pc]
    <2>1. /\ at = "guest" /\ at' = "guest" /\ UNCHANGED <<program, devices>>
          /\ Silent(i) /\ cpu' = Execute(cpu, i)
      BY <1>2 DEF GuestRuns
    <2>2. cpu.pc \in DOMAIN program
      BY <2>1 DEF Inv, Places, Running, IsGuest
    <2>3. SeenCpu = cpu /\ SeenCpu' = cpu'
      BY <2>1, SeenIsCpu
    <2>4. Execute(cpu, i) = M!Execute(cpu, i) /\ M!Silent(i)
      BY <2>1 DEF Execute, M!Execute, Silent, M!Silent
    <2> HIDE DEF i
    <2>5. M!Step
      BY <2>1, <2>2, <2>3, <2>4 DEF M!Step, i
    <2> QED BY <2>5 DEF M!Next
  <1>3. CASE ExitForHlt
    <2>1. /\ at = "guest" /\ at' = "returned" /\ UNCHANGED <<program, devices>>
          /\ program[cpu.pc].op = "hlt" /\ cpu' = [cpu EXCEPT !.pc = @ + 1]
      BY <1>3 DEF ExitForHlt, Return
    <2>2. cpu.pc \in DOMAIN program
      BY <2>1 DEF Inv, Places, Running, IsGuest
    <2>3. SeenCpu = cpu /\ SeenCpu' = cpu'
      BY <2>1, SeenIsCpu
    <2>4. M!Step
      BY <2>1, <2>2, <2>3 DEF M!Step
    <2> QED BY <2>4 DEF M!Next
  <1>4. CASE ExitForAccess \/ Interrupt \/ Refuse
    <2>1. /\ at = "guest" /\ at' = "returned"
          /\ UNCHANGED <<program, devices, cpu>>
      BY <1>4 DEF ExitForAccess, Interrupt, Refuse, Return
    <2> QED BY <2>1, SeenIsCpu, Unseen
  <1> QED BY <1>1, <1>2, <1>3, <1>4 DEF Kvm

\* The run loop: answering an access is the step in which it happens.
LEMMA RunSimulates == Inv /\ Run => [M!Next]_M!machine
  <1> SUFFICES ASSUME Inv, Run PROVE [M!Next]_M!machine
    OBVIOUS
  <1> USE DEF guest, life, bench
  <1> DEFINE i == program[cpu.pc]
  <1>0. IsDevices(devices)
    BY DEF Inv, Shapes, IsDevices
  <1>1. CASE HandleEintr \/ HandleIntr
    <2>1. /\ at = "returned" /\ ~(rc = "ok" /\ Access)
          /\ UNCHANGED <<program, devices, cpu, pending>>
      BY <1>1 DEF HandleEintr, HandleIntr, Exited, Access
    <2> QED BY <2>1, SeenIsCpu, Unseen DEF Inv, Places
  <1>2. CASE HandleError \/ HandleHlt \/ HandleUnknown
    <2>1. /\ at = "returned" /\ at' # "enter"
          /\ UNCHANGED <<program, devices, cpu>>
      BY <1>2 DEF HandleError, HandleHlt, HandleUnknown, Exited, GiveUp, Fail
    <2> QED BY <2>1, SeenIsCpu, Unseen
  <1>3. CASE HandleIo
    <2>1. /\ at = "returned" /\ rc = "ok" /\ page.reason = "IO" /\ at' = "enter"
          /\ UNCHANGED <<program, cpu, pending>>
      BY <1>3 DEF HandleIo, Exited, Resume
    <2>2. IsPio(i) /\ page.where = cpu.dx /\ page.write = ~IsRead(i)
          /\ (page.write => page.data = cpu.al)
      BY <2>1 DEF Inv, Places, Access, Describes
    <2>3. CASE page.write
      <3>1. i.op = "out"
        BY <2>2, <2>3 DEF IsPio, IsRead
      <3>2. devices' = pio_write(devices, cpu.dx, cpu.al)
        BY <1>3, <2>2, <2>3 DEF HandleIo
      <3> DEFINE known == cpu.dx \in {"serial", "bench"}
      <3>3. M!Known(i) = known /\ known \in BOOLEAN
        <4>1. SeenCpu = cpu
          BY <2>1, SeenIsCpu
        <4> QED BY <3>1, <4>1 DEF M!Known
      <3>4. Chips(devices') =
              After(Chips(devices),
                    IF i.op = "out" /\ cpu.dx = "serial"
                      THEN Append(devices.serial_out, cpu.al)
                      ELSE devices.serial_out,
                    IF i.op = "store" /\ known THEN cpu.al ELSE devices.latch,
                    IF known THEN devices.unhandled ELSE devices.unhandled + 1)
        BY <1>0, <3>1, <3>2, PioWriteChips DEF Chips
      <3>5. ~IsRead(i)
        BY <3>1 DEF IsRead
      <3> HIDE DEF known, i
      <3>6. M!Step
        BY <2>1, <2>2, <3>3, <3>4, <3>5, AccessStep DEF i, Access
      <3> QED BY <3>6 DEF M!Next
    <2>4. CASE ~page.write
      <3>1. i.op = "in"
        BY <2>2, <2>4 DEF IsPio, IsRead
      <3>2. devices' = pio_read(devices) /\ page'.data = Floating
        BY <1>3, <2>4 DEF HandleIo, PioAnswer, Inv, Shapes
      <3>3. M!Known(i) = FALSE
        BY <3>1 DEF M!Known
      <3>4. Chips(devices') =
              After(Chips(devices),
                    IF i.op = "out" /\ cpu.dx = "serial"
                      THEN Append(devices.serial_out, cpu.al)
                      ELSE devices.serial_out,
                    IF i.op = "store" /\ FALSE THEN cpu.al ELSE devices.latch,
                    IF FALSE THEN devices.unhandled ELSE devices.unhandled + 1)
        BY <1>0, <3>1, <3>2, PioReadChips DEF Chips
      <3> HIDE DEF i
      <3>5. M!Step
        BY <2>1, <2>2, <3>2, <3>3, <3>4, AccessStep DEF i, Access
      <3> QED BY <3>5 DEF M!Next
    <2> QED BY <2>3, <2>4
  <1>4. CASE HandleMmio
    <2>1. /\ at = "returned" /\ rc = "ok" /\ page.reason = "MMIO"
          /\ UNCHANGED <<program, cpu, pending>>
      BY <1>4 DEF HandleMmio, Exited
    <2>2. IsMmio(i) /\ page.where = i.arg /\ page.write = ~IsRead(i)
          /\ (page.write => page.data = cpu.al)
      BY <2>1 DEF Inv, Places, Access, Describes
    <2>3. i.arg \in Nat
      BY <2>1, <2>2 DEF Inv, Places, Running, IsGuest
    <2>4. CASE ~owns_mmio(page.where)
      <3>1. at' # "enter" /\ devices' = devices
        BY <1>4, <2>4 DEF HandleMmio, GiveUp, Fail
      <3> QED BY <2>1, <3>1, SeenIsCpu, Unseen
    <2>5. CASE owns_mmio(page.where)
      <3>1. at' = "enter"
        BY <1>4, <2>5 DEF HandleMmio, Resume
      <3>2. M!Decoded(i)
        BY <2>2, <2>3, <2>5, GuestAssumption DEF owns_mmio, M!Decoded
      <3> DEFINE known == i.arg = MmioBase
      <3>3. M!Known(i) = known
        BY <2>2 DEF M!Known, IsMmio
      <3>4. CASE page.write
        <4>1. i.op = "store" /\ ~IsRead(i)
          BY <2>2, <3>4 DEF IsMmio, IsRead
        <4>2. devices' = mmio_write(devices, i.arg, cpu.al)
          BY <1>4, <2>2, <2>5, <3>4 DEF HandleMmio
        <4>3. Chips(devices') =
                After(Chips(devices),
                      IF i.op = "out" /\ cpu.dx = "serial"
                        THEN Append(devices.serial_out, cpu.al)
                        ELSE devices.serial_out,
                      IF i.op = "store" /\ known THEN cpu.al ELSE devices.latch,
                      IF known THEN devices.unhandled ELSE devices.unhandled + 1)
          BY <1>0, <2>3, <4>1, <4>2, MmioWriteChips DEF Chips
        <4> HIDE DEF known, i
        <4>4. M!Step
          BY <2>1, <2>2, <3>1, <3>2, <3>3, <4>1, <4>3, AccessStep
             DEF i, Access, known
        <4> QED BY <4>4 DEF M!Next
      <3>5. CASE ~page.write
        <4>1. i.op = "load"
          BY <2>2, <3>5 DEF IsMmio, IsRead
        <4>2. /\ devices' = mmio_read(devices, i.arg)
              /\ page' = [page EXCEPT !.data = MmioAnswer(devices, i.arg)]
          BY <1>4, <2>2, <2>5, <3>5 DEF HandleMmio
        <4>3. page'.data = MmioAnswer(devices, i.arg)
          BY <4>2 DEF Inv, Shapes
        <4>4. page'.data = IF known THEN devices.latch ELSE Floating
          <5>1. MmioAnswer(devices, i.arg) =
                  IF i.arg = MmioBase THEN Chips(devices).latch ELSE Floating
            <6> HIDE DEF i
            <6> QED BY <1>0, <2>3, MmioReadChips
          <5>2. Chips(devices).latch = devices.latch
            BY DEF Chips
          <5> HIDE DEF i
          <5> QED BY <4>3, <5>1, <5>2
        <4>5. Chips(devices') =
                After(Chips(devices),
                      IF i.op = "out" /\ cpu.dx = "serial"
                        THEN Append(devices.serial_out, cpu.al)
                        ELSE devices.serial_out,
                      IF i.op = "store" /\ known THEN cpu.al ELSE devices.latch,
                      IF known THEN devices.unhandled ELSE devices.unhandled + 1)
          BY <1>0, <2>3, <4>1, <4>2, MmioReadChips DEF Chips
        <4> HIDE DEF known, i
        <4>6. M!Step
          BY <2>1, <2>2, <3>1, <3>2, <3>3, <4>4, <4>5, AccessStep
             DEF i, Access, known
        <4> QED BY <4>6 DEF M!Next
      <3> QED BY <3>4, <3>5
    <2> QED BY <2>4, <2>5
  <1> QED BY <1>1, <1>2, <1>3, <1>4 DEF Run

\* The guest of either program runs as on a machine with real chips, whatever
\* interrupts or fails: the run loop's answers through the shared page, which
\* KVM takes in at the next entry, add up to one step per instruction.
THEOREM MachineRefinement == Spec => ImplementsMachine
  <1>1. Init => M!Init
    BY DEF Init, M!Init, SeenCpu, Answered, ResetRegs, M!ResetRegs, Zero, M!Zero,
       NewDevices
  <1>2. Inv /\ UNCHANGED vars => UNCHANGED M!machine
    BY DEF vars, M!machine, SeenCpu, Answered
  <1>3. Inv /\ [Next]_vars => [M!Next]_M!machine
    BY <1>2, LifeAndMainSimulate, KvmSimulates, RunSimulates DEF Next
  <1> QED BY <1>1, <1>3, PlacesInvariant, PTL DEF Spec, ImplementsMachine, M!Spec

-----------------------------------------------------------------------------
(***************************************************************************)
(* The order of release.                                                   *)
(***************************************************************************)
ResourceNames == {"kvm", "vm", "mem", "vcpu", "run_map"}

\* The descriptor a resource was made from is released after it.
ReleasesInOrder(h) ==
    \A k \in DOMAIN h : h[k] \in DOMAIN Parent =>
        \E j \in DOMAIN h : j > k /\ h[j] = Parent[h[k]]

\* Vm::new holds what it has acquired so far, the latest first; from then on
\* what is held is released from the front.
HeldInv ==
    /\ vmm \in {"raw", "crates"}
    /\ held \in Seq(ResourceNames)
    /\ at = "new" => /\ Len(held) <= Len(Resources)
                     /\ \A k \in 1 .. Len(held) : held[k] = Resources[Len(held) + 1 - k]
    /\ ReleasesInOrder(held)

\* Each resource was made from an earlier one of Vm::new.
LEMMA ResourcesInOrder ==
    ASSUME vmm \in {"raw", "crates"}, NEW n \in 1 .. Len(Resources),
           Resources[n] \in DOMAIN Parent
    PROVE  \E m \in 1 .. n - 1 : Resources[m] = Parent[Resources[n]]
  <1>1. CASE vmm = "raw"
    <2>1. Resources = <<"kvm", "vm", "mem", "vcpu", "run_map">>
      BY <1>1 DEF Resources
    <2>2. n \in 1 .. 5
      BY <2>1
    <2>3. n = 1 \/ n = 2 \/ n = 3 \/ n = 4 \/ n = 5
      BY <2>2
    <2>4. Resources[1] = "kvm" /\ Resources[2] = "vm" /\ Resources[3] = "mem"
          /\ Resources[4] = "vcpu" /\ Resources[5] = "run_map"
      BY <2>1
    <2>5. n # 1 /\ n # 3
      BY <2>4 DEF Parent
    <2>6. CASE n = 2
      <3>1. 1 \in 1 .. n - 1 /\ Resources[1] = Parent[Resources[n]]
        BY <2>4, <2>6 DEF Parent
      <3> QED BY <3>1
    <2>7. CASE n = 4
      <3>1. 2 \in 1 .. n - 1 /\ Resources[2] = Parent[Resources[n]]
        BY <2>4, <2>7 DEF Parent
      <3> QED BY <3>1
    <2>8. CASE n = 5
      <3>1. 4 \in 1 .. n - 1 /\ Resources[4] = Parent[Resources[n]]
        BY <2>4, <2>8 DEF Parent
      <3> QED BY <3>1
    <2> QED BY <2>3, <2>5, <2>6, <2>7, <2>8
  <1>2. CASE vmm = "crates"
    <2>1. Resources = <<"kvm", "vm", "mem", "vcpu">>
      BY <1>2 DEF Resources
    <2>2. n \in 1 .. 4
      BY <2>1
    <2>3. n = 1 \/ n = 2 \/ n = 3 \/ n = 4
      BY <2>2
    <2>4. Resources[1] = "kvm" /\ Resources[2] = "vm" /\ Resources[3] = "mem"
          /\ Resources[4] = "vcpu"
      BY <2>1
    <2>5. n # 1 /\ n # 3
      BY <2>4 DEF Parent
    <2>6. CASE n = 2
      <3>1. 1 \in 1 .. n - 1 /\ Resources[1] = Parent[Resources[n]]
        BY <2>4, <2>6 DEF Parent
      <3> QED BY <3>1
    <2>7. CASE n = 4
      <3>1. 2 \in 1 .. n - 1 /\ Resources[2] = Parent[Resources[n]]
        BY <2>4, <2>7 DEF Parent
      <3> QED BY <3>1
    <2> QED BY <2>3, <2>5, <2>6, <2>7
  <1> QED BY <1>1, <1>2

\* Vm::new opens and maps five resources, toy-kvm-crates four.
LEMMA ResourcesNamed ==
    ASSUME vmm \in {"raw", "crates"}
    PROVE  Resources \in Seq(ResourceNames) /\ Len(Resources) \in {4, 5}
  <1>1. /\ "kvm" \in ResourceNames /\ "vm" \in ResourceNames /\ "mem" \in ResourceNames
        /\ "vcpu" \in ResourceNames /\ "run_map" \in ResourceNames
    BY DEF ResourceNames
  <1>2. CASE vmm = "raw"
    <2>1. Resources = <<"kvm", "vm", "mem", "vcpu", "run_map">>
      BY <1>2 DEF Resources
    <2> QED BY <1>1, <2>1
  <1>3. CASE vmm = "crates"
    <2>1. Resources = <<"kvm", "vm", "mem", "vcpu">>
      BY <1>3 DEF Resources
    <2> QED BY <1>1, <2>1
  <1> QED BY <1>2, <1>3

\* Acquiring keeps the order.
LEMMA AcquireHeld == HeldInv /\ Acquire => HeldInv'
  <1> SUFFICES ASSUME HeldInv, Acquire PROVE HeldInv'
    OBVIOUS
  <1>1. /\ at = "new" /\ at' = "new" /\ vmm' = vmm /\ Len(held) < Len(Resources)
        /\ held' = <<Resources[Len(held) + 1]>> \o held
    BY DEF Acquire, life
  <1>2. Resources \in Seq(ResourceNames) /\ Len(Resources) \in {4, 5}
    BY ResourcesNamed DEF HeldInv
  <1>3. PICK n : n = Len(held)
    OBVIOUS
  <1>4. PICK r : r = Resources[n + 1]
    OBVIOUS
  <1>5. /\ n \in Nat /\ n + 1 \in 1 .. Len(Resources) /\ r \in ResourceNames
        /\ held \in Seq(ResourceNames)
        /\ \A k \in 1 .. n : held[k] = Resources[n + 1 - k]
    BY <1>1, <1>2, <1>3, <1>4 DEF HeldInv
  <1>6. /\ held' \in Seq(ResourceNames) /\ Len(held') = n + 1
        /\ held'[1] = r /\ \A k \in 1 .. n : held'[k + 1] = held[k]
    BY <1>1, <1>3, <1>4, <1>5
  <1>7. Resources' = Resources
    BY <1>1 DEF Resources
  <1>8. \A k \in 1 .. n + 1 : k = 1 \/ (k - 1 \in 1 .. n /\ k = (k - 1) + 1)
    BY <1>5
  <1>9. ASSUME NEW k \in 1 .. n + 1 PROVE held'[k] = Resources[(n + 1) + 1 - k]
    <2>1. CASE k = 1
      <3>1. (n + 1) + 1 - k = n + 1
        BY <1>5, <2>1
      <3> QED BY <1>4, <1>6, <2>1, <3>1
    <2>2. CASE k - 1 \in 1 .. n /\ k = (k - 1) + 1
      <3>1. held'[k] = held[k - 1]
        BY <1>6, <2>2
      <3>2. n + 1 - (k - 1) = (n + 1) + 1 - k
        BY <1>5, <2>2
      <3> QED BY <1>5, <2>2, <3>1, <3>2
    <2> QED BY <1>8, <2>1, <2>2
  <1>10. ASSUME NEW k \in 1 .. n + 1, held'[k] \in DOMAIN Parent
         PROVE  \E j \in 1 .. n + 1 : j > k /\ held'[j] = Parent[held'[k]]
    <2>1. CASE k = 1
      <3>1. PICK m \in 1 .. n : Resources[m] = Parent[r]
        <4>1. (n + 1) - 1 = n
          BY <1>5
        <4> QED BY <1>4, <1>5, <1>6, <1>10, <2>1, <4>1, ResourcesInOrder DEF HeldInv
      <3>2. (n + 1 - m) \in 1 .. n /\ (n + 1) - (n + 1 - m) = m
        BY <1>5, <3>1
      <3>3. held[n + 1 - m] = Resources[m]
        BY <1>5, <3>2
      <3>4. held'[(n + 1 - m) + 1] = Parent[held'[k]]
        BY <1>6, <2>1, <3>1, <3>2, <3>3
      <3>5. (n + 1 - m) + 1 \in 1 .. n + 1 /\ (n + 1 - m) + 1 > k
        BY <1>5, <2>1, <3>2
      <3> QED BY <3>4, <3>5
    <2>2. CASE k - 1 \in 1 .. n /\ k = (k - 1) + 1
      <3>1. held'[k] = held[k - 1]
        BY <1>6, <2>2
      <3>2. DOMAIN held = 1 .. n
        BY <1>3, <1>5
      <3>3. PICK j \in 1 .. n : j > k - 1 /\ held[j] = Parent[held[k - 1]]
        BY <1>10, <2>2, <3>1, <3>2 DEF HeldInv, ReleasesInOrder
      <3>4. held'[j + 1] = Parent[held'[k]] /\ j + 1 \in 1 .. n + 1 /\ j + 1 > k
        BY <1>5, <1>6, <2>2, <3>1, <3>3
      <3> QED BY <3>4
    <2> QED BY <1>8, <2>1, <2>2
  <1>11. DOMAIN held' = 1 .. n + 1
    BY <1>6
  <1>12. ReleasesInOrder(held')
    BY <1>10, <1>11 DEF ReleasesInOrder
  <1>13. n + 1 <= Len(Resources)
    BY <1>2, <1>5
  <1> QED BY <1>1, <1>6, <1>7, <1>9, <1>12, <1>13 DEF HeldInv

\* struct Vm's fields are declared in an order a drop may follow.
LEMMA FieldsInOrder == FieldOrder \in Seq(ResourceNames) /\ ReleasesInOrder(FieldOrder)
  <1>1. /\ FieldOrder \in Seq(ResourceNames) /\ DOMAIN FieldOrder = 1 .. 5
        /\ FieldOrder[1] = "run_map" /\ FieldOrder[2] = "mem" /\ FieldOrder[3] = "vcpu"
        /\ FieldOrder[4] = "vm" /\ FieldOrder[5] = "kvm"
    BY DEF FieldOrder, ResourceNames
  <1>2. ASSUME NEW k \in 1 .. 5, FieldOrder[k] \in DOMAIN Parent
        PROVE  \E j \in 1 .. 5 : j > k /\ FieldOrder[j] = Parent[FieldOrder[k]]
    <2>1. k = 1 \/ k = 2 \/ k = 3 \/ k = 4 \/ k = 5
      OBVIOUS
    <2>2. k # 2 /\ k # 5
      BY <1>1, <1>2 DEF Parent
    <2>3. CASE k = 1
      <3>1. 3 > k /\ FieldOrder[3] = Parent[FieldOrder[k]]
        BY <1>1, <2>3 DEF Parent
      <3> QED BY <3>1
    <2>4. CASE k = 3
      <3>1. 4 > k /\ FieldOrder[4] = Parent[FieldOrder[k]]
        BY <1>1, <2>4 DEF Parent
      <3> QED BY <3>1
    <2>5. CASE k = 4
      <3>1. 5 > k /\ FieldOrder[5] = Parent[FieldOrder[k]]
        BY <1>1, <2>5 DEF Parent
      <3> QED BY <3>1
    <2> QED BY <2>1, <2>2, <2>3, <2>4, <2>5
  <1> QED BY <1>1, <1>2 DEF ReleasesInOrder

\* Releasing the first keeps the order of the others.
LEMMA ReleaseHeld == HeldInv /\ Release => HeldInv'
  <1> SUFFICES ASSUME HeldInv, Release PROVE HeldInv'
    OBVIOUS
  <1>1. /\ at = "drop" /\ at' = "drop" /\ vmm' = vmm
        /\ held # << >> /\ held' = Tail(held) /\ held \in Seq(ResourceNames)
    BY DEF Release, HeldInv
  <1>2. PICK n \in Nat : n = Len(held)
    BY <1>1
  <1>3. /\ held' \in Seq(ResourceNames) /\ DOMAIN held' = 1 .. n - 1
        /\ DOMAIN held = 1 .. n
        /\ \A k \in 1 .. n - 1 : held'[k] = held[k + 1]
    BY <1>1, <1>2
  <1>4. ASSUME NEW k \in 1 .. n - 1, held'[k] \in DOMAIN Parent
        PROVE  \E j \in 1 .. n - 1 : j > k /\ held'[j] = Parent[held'[k]]
    <2>1. k + 1 \in 1 .. n /\ held'[k] = held[k + 1]
      BY <1>2, <1>3
    <2>2. PICK j \in 1 .. n : j > k + 1 /\ held[j] = Parent[held[k + 1]]
      BY <1>3, <1>4, <2>1 DEF HeldInv, ReleasesInOrder
    <2>3. j - 1 \in 1 .. n - 1 /\ j - 1 > k /\ (j - 1) + 1 = j
      BY <1>2, <2>2
    <2> QED BY <1>3, <2>1, <2>2, <2>3
  <1>5. ReleasesInOrder(held')
    BY <1>3, <1>4 DEF ReleasesInOrder
  <1> QED BY <1>1, <1>3, <1>5 DEF HeldInv

LEMMA HeldStep == HeldInv /\ [Next]_vars => HeldInv'
  <1> SUFFICES ASSUME HeldInv, [Next]_vars PROVE HeldInv'
    OBVIOUS
  <1> USE DEF life
  <1>1. ASSUME UNCHANGED <<vmm, held>>, at' # "new" \/ held = << >> \/ at' = at PROVE HeldInv'
    <2>1. Resources' = Resources /\ Len(Resources) \in {4, 5}
      BY <1>1 DEF Resources, HeldInv
    <2> QED BY <1>1, <2>1 DEF HeldInv
  <1>2. CASE Acquire
    BY <1>2, AcquireHeld
  <1>3. CASE Built
    BY <1>3, FieldsInOrder DEF Built, HeldInv
  <1>4. CASE SetupFails
    BY <1>1, <1>4 DEF SetupFails, Fail
  <1>5. CASE Release
    BY <1>5, ReleaseHeld
  <1>6. CASE Released
    BY <1>1, <1>6 DEF Released
  <1>7. CASE Main
    BY <1>1, <1>7 DEF Main, StartDemo, StartRound, Start, DemoReturns, RoundReturns,
       BenchReturns
  <1>8. CASE Kvm
    BY <1>1, <1>8 DEF Kvm, Enter, GuestRuns, ExitForAccess, ExitForHlt, Interrupt,
       Refuse, Return
  <1>9. CASE Run
    BY <1>1, <1>9 DEF Run, HandleEintr, HandleError, HandleIo, HandleMmio, HandleHlt,
       HandleIntr, HandleUnknown, Resume, GiveUp, Fail
  <1>10. CASE UNCHANGED vars
    BY <1>1, <1>10 DEF vars
  <1> QED BY <1>2, <1>3, <1>4, <1>5, <1>6, <1>7, <1>8, <1>9, <1>10 DEF Next, Life

\* No descriptor is ever closed before what was made from it, wherever Vm::new or
\* the run loop gives up (the field order of struct Vm, the locals of Vm::new).
THEOREM ReleaseInvariant == Spec => []ReleasedBeforeItsFd
  <1>1. Init => HeldInv
    BY DEF Init, HeldInv, ReleasesInOrder, Resources
  <1>2. HeldInv => ReleasedBeforeItsFd
    BY DEF HeldInv, ReleasesInOrder, ReleasedBeforeItsFd, IsHeld
  <1> QED BY <1>1, <1>2, HeldStep, PTL DEF Spec
-----------------------------------------------------------------------------
(***************************************************************************)
(* The samples of the benchmark.                                           *)
(***************************************************************************)
Kinds == {"io", "mmio", "hlt", "intr", "error", "fail_entry"}

\* The places of a kind of sample.
Where(s, kind) == {k \in DOMAIN s : s[k] = kind}

\* As many samples of each kind as there are to be, and no others.
Counted(i, n, h) ==
    /\ Measuring("io") = i /\ Measuring("intr") = n /\ Measuring("hlt") = h
    /\ Len(timings) = i + n + h

\* The exits the guest of a round has made, from its registers.
Looped(r) == IF r.pc \in {1, 2} THEN 0
             ELSE IF r.pc = 3 THEN Chunk - r.cx
             ELSE IF r.pc = 4 THEN Chunk - r.cx + 1
             ELSE Chunk

\* Nothing is sampled before the benchmark; between two rounds there is an exit
\* for every sample no longer requested; within a round there is one more for
\* each turn of the guest's loop, and after it the hlt.
BenchTypes ==
    /\ timings \in Seq(Kinds) /\ interrupted \in Nat /\ summary.interrupted \in Nat
    /\ DOMAIN summary = {"exits", "io_exits", "mmio_exits", "interrupted"}

BenchInv ==
    /\ BenchTypes
    /\ phase = "demo" => timings = << >> /\ interrupted = 0 /\ remaining = Samples
    /\ vmm = "raw" \/ (vmm = "crates" /\ phase # "bench")
    /\ phase = "bench" /\ at \in {"new", "setup", "drop"} =>
          Counted(Samples - remaining, interrupted, 0)
    /\ phase = "bench" /\ at \in {"enter", "guest", "returned", "finished"} =>
          remaining > 0
    /\ phase = "bench" /\ at \in {"enter", "guest", "returned"} =>
          /\ program = bench_program(Chunk)
          /\ SeenCpu.pc \in 1 .. 6
          /\ SeenCpu.pc \in {3, 4} => SeenCpu.cx \in 1 .. Chunk
          /\ Counted(Samples - remaining + Looped(SeenCpu),
                     interrupted + summary.interrupted, 0)
    /\ phase = "bench" /\ at = "returned" /\ rc = "ok" /\ page.reason = "HLT" =>
          cpu.pc = 6
    /\ phase = "bench" /\ at = "finished" =>
          /\ Counted(Samples - remaining + Chunk, interrupted + summary.interrupted, 1)
          /\ timings[Len(timings)] = "hlt"

\* One more element is one more place of its kind.
LEMMA CountAppend ==
    ASSUME NEW S, NEW s \in Seq(S), NEW e \in S, NEW kind
    PROVE  /\ Cardinality(Where(s, kind)) \in Nat
           /\ Cardinality(Where(Append(s, e), kind)) =
                IF e = kind THEN Cardinality(Where(s, kind)) + 1
                            ELSE Cardinality(Where(s, kind))
  <1> DEFINE t == Append(s, e)
             w == Where(s, kind)
  <1>1. PICK n \in Nat : n = Len(s)
    OBVIOUS
  <1>2. /\ DOMAIN s = 1 .. n /\ DOMAIN t = 1 .. n + 1
        /\ t[n + 1] = e /\ \A k \in 1 .. n : t[k] = s[k]
    BY <1>1
  <1> HIDE DEF t
  <1>3. \A k : k \in 1 .. n + 1 <=> k \in 1 .. n \/ k = n + 1
    BY <1>1
  <1>4. Where(t, kind) = IF e = kind THEN w \cup {n + 1} ELSE w
    BY <1>2, <1>3 DEF Where
  <1>5. IsFiniteSet(w) /\ n + 1 \notin w
    <2>1. IsFiniteSet(1 .. n)
      BY <1>1, FS_Interval
    <2>2. w \subseteq 1 .. n
      BY <1>2 DEF Where
    <2>3. n + 1 \notin 1 .. n
      BY <1>1
    <2> QED BY <2>1, <2>2, <2>3, FS_Subset
  <1> HIDE DEF w
  <1>6. Cardinality(w) \in Nat /\ Cardinality(w \cup {n + 1}) = Cardinality(w) + 1
    BY <1>5, FS_CardinalityType, FS_AddElement
  <1> QED BY <1>4, <1>6 DEF t, w

\* A sequence is what is left of it without its last element, and that.
LEMMA LastApart ==
    ASSUME NEW S, NEW s \in Seq(S), Len(s) > 0
    PROVE  LET d == SubSeq(s, 1, Len(s) - 1)
           IN  /\ d \in Seq(S) /\ Len(d) = Len(s) - 1
               /\ s[Len(s)] \in S /\ s = Append(d, s[Len(s)])
  <1> DEFINE d == SubSeq(s, 1, Len(s) - 1)
             e == s[Len(s)]
  <1>1. PICK n \in Nat : n + 1 = Len(s)
    <2>1. Len(s) \in Nat /\ Len(s) - 1 \in Nat /\ (Len(s) - 1) + 1 = Len(s)
      OBVIOUS
    <2> QED BY <2>1
  <1>2. d = SubSeq(s, 1, n)
    BY <1>1
  <1>3. d \in Seq(S) /\ Len(d) = n /\ \A k \in 1 .. n : d[k] = s[k]
    BY <1>1, <1>2
  <1>4. e \in S
    BY <1>1
  <1> HIDE DEF d, e
  <1>5. /\ Append(d, e) \in Seq(S) /\ Len(Append(d, e)) = n + 1
        /\ Append(d, e)[n + 1] = e /\ \A k \in 1 .. n : Append(d, e)[k] = d[k]
    BY <1>3, <1>4
  <1>6. \A k \in 1 .. n + 1 : Append(d, e)[k] = s[k]
    <2>1. \A k \in 1 .. n + 1 : k \in 1 .. n \/ k = n + 1
      BY <1>1
    <2> QED BY <1>1, <1>3, <1>5, <2>1 DEF e
  <1>7. s = Append(d, e)
    BY <1>1, <1>5, <1>6, SeqEqual
  <1>8. Len(d) = Len(s) - 1
    BY <1>1, <1>3
  <1> QED BY <1>3, <1>4, <1>7, <1>8 DEF d, e

\* A sample counts as what it measured.
LEMMA SampleCounted ==
    ASSUME BenchTypes, NEW kind \in Kinds, timings' = Append(timings, kind),
           NEW i \in Nat, NEW n \in Nat, NEW h \in Nat, Counted(i, n, h)
    PROVE  /\ kind = "io" => Counted(i + 1, n, h)'
           /\ kind = "intr" => Counted(i, n + 1, h)'
           /\ kind = "hlt" => Counted(i, n, h + 1)' /\ timings'[Len(timings')] = "hlt"
           /\ timings' \in Seq(Kinds)
  <1>1. ASSUME NEW x \in {"io", "intr", "hlt"}
        PROVE  Measuring(x)' = IF kind = x THEN Measuring(x) + 1 ELSE Measuring(x)
    <2>1. timings \in Seq(Kinds) /\ kind \in Kinds
      BY DEF BenchTypes
    <2>2. Cardinality(Where(Append(timings, kind), x)) =
            IF kind = x THEN Cardinality(Where(timings, x)) + 1
                        ELSE Cardinality(Where(timings, x))
      BY <2>1, CountAppend
    <2> QED BY <2>2 DEF Where, Measuring
  <1>2. /\ timings' \in Seq(Kinds) /\ Len(timings') = Len(timings) + 1
        /\ timings'[Len(timings')] = kind
    BY DEF BenchTypes
  <1>3. CASE kind = "io"
    <2>1. Measuring("io")' = i + 1 /\ Measuring("intr")' = n /\ Measuring("hlt")' = h
      BY <1>1, <1>3 DEF Counted
    <2>2. Len(timings') = (i + 1) + n + h
      BY <1>2 DEF Counted
    <2> QED BY <1>2, <1>3, <2>1, <2>2 DEF Counted
  <1>4. CASE kind = "intr"
    <2>1. Measuring("io")' = i /\ Measuring("intr")' = n + 1 /\ Measuring("hlt")' = h
      BY <1>1, <1>4 DEF Counted
    <2>2. Len(timings') = i + (n + 1) + h
      BY <1>2 DEF Counted
    <2> QED BY <1>2, <1>4, <2>1, <2>2 DEF Counted
  <1>5. CASE kind = "hlt"
    <2>1. Measuring("io")' = i /\ Measuring("intr")' = n /\ Measuring("hlt")' = h + 1
      BY <1>1, <1>5 DEF Counted
    <2>2. Len(timings') = i + n + (h + 1)
      BY <1>2 DEF Counted
    <2> QED BY <1>2, <1>5, <2>1, <2>2 DEF Counted
  <1> QED BY <1>2, <1>3, <1>4, <1>5

\* Dropping the last sample of a round drops its hlt.
LEMMA HltDropped ==
    ASSUME BenchTypes, NEW i \in Nat, NEW n \in Nat, Counted(i, n, 1),
           timings[Len(timings)] = "hlt",
           timings' = SubSeq(timings, 1, Len(timings) - 1)
    PROVE  Counted(i, n, 0)' /\ timings' \in Seq(Kinds)
  <1>1. timings \in Seq(Kinds) /\ Len(timings) > 0
    BY DEF BenchTypes, Counted
  <1>2. /\ timings' \in Seq(Kinds) /\ Len(timings') = Len(timings) - 1
        /\ timings = Append(timings', "hlt")
    BY <1>1, LastApart
  <1>3. "hlt" \in Kinds
    BY DEF Kinds
  <1>4. ASSUME NEW x \in {"io", "intr", "hlt"}
        PROVE  /\ Measuring(x)' \in Nat
               /\ Measuring(x) = IF "hlt" = x THEN Measuring(x)' + 1 ELSE Measuring(x)'
    <2>1. PICK d : d = timings'
      OBVIOUS
    <2>2. d \in Seq(Kinds)
      BY <1>2, <2>1
    <2>3. /\ Cardinality(Where(d, x)) \in Nat
          /\ Cardinality(Where(Append(d, "hlt"), x)) =
               IF "hlt" = x THEN Cardinality(Where(d, x)) + 1
                            ELSE Cardinality(Where(d, x))
      BY <1>3, <2>2, CountAppend
    <2>4. Measuring(x)' = Cardinality(Where(d, x))
      BY <2>1 DEF Measuring, Where
    <2>5. Measuring(x) = Cardinality(Where(Append(d, "hlt"), x))
      BY <1>2, <2>1 DEF Measuring, Where
    <2> QED BY <2>3, <2>4, <2>5
  <1>5. Measuring("io")' = i /\ Measuring("intr")' = n
    BY <1>4 DEF Counted
  <1>6. Measuring("hlt")' = 0
    <2>1. Measuring("hlt")' \in Nat /\ Measuring("hlt") = Measuring("hlt")' + 1
      BY <1>4
    <2> QED BY <2>1 DEF Counted
  <1>7. Len(timings') = i + n + 0
    BY <1>2 DEF Counted
  <1> QED BY <1>2, <1>5, <1>6, <1>7 DEF Counted

\* The instructions of the benchmark's guest.
LEMMA BenchProgram ==
    ASSUME NEW n
    PROVE  LET p == bench_program(n)
           IN  /\ Len(p) = 5
               /\ p[1].op = "mov_dx" /\ p[2].op = "mov_cx" /\ p[2].arg = n
               /\ p[3].op = "out" /\ p[4].op = "loop" /\ p[4].arg = 3
               /\ p[5].op = "hlt"
  BY DEF bench_program, mov_dx, mov_cx, out, loop, hlt

\* A multiple of m less than m from 0 is 0, so x + m leaves x over m.
LEMMA Wraps ==
    ASSUME NEW m \in Nat \ {0}, NEW x \in 0 .. m - 1
    PROVE  (x + m) % m = x
  <1> DEFINE q == (x + m) \div m
             r == (x + m) % m
  <1>1. q \in Int /\ r \in 0 .. m - 1 /\ x + m = (m * q) + r
    OBVIOUS
  <1> HIDE DEF q, r
  <1>2. PICK t \in Int : t = q - 1
    BY <1>1
  <1>3. m * t = x - r
    BY <1>1, <1>2
  <1>4. CASE t >= 1
    BY <1>1, <1>3, <1>4
  <1>5. CASE t <= -1
    BY <1>1, <1>3, <1>5
  <1>6. CASE t = 0
    BY <1>1, <1>3, <1>6 DEF r
  <1> QED BY <1>2, <1>4, <1>5, <1>6

\* One turn of the loop takes one from cx, and the last one leaves it.
LEMMA LoopTurns ==
    ASSUME NEW n \in 1 .. MaxPerRound, NEW c, IsCpu(c), c.pc \in {1, 2, 4},
           c.pc = 4 => c.cx \in 1 .. n
    PROVE  LET r == Execute(c, bench_program(n)[c.pc])
           IN  /\ c.pc = 1 => r.pc = 2
               /\ c.pc = 2 => r.pc = 3 /\ r.cx = n
               /\ c.pc = 4 => IF c.cx = 1 THEN r.pc = 5
                                          ELSE r.pc = 3 /\ r.cx = c.cx - 1
  <1> DEFINE i == bench_program(n)[c.pc]
             r == Execute(c, i)
  <1>1. CASE c.pc = 1
    <2>1. i.op = "mov_dx"
      BY <1>1, BenchProgram
    <2> HIDE DEF i
    <2>2. r = [[c EXCEPT !.pc = c.pc + 1] EXCEPT !.dx = i.arg]
      BY <2>1 DEF Execute
    <2>3. r.pc = 2
      BY <1>1, <2>2 DEF IsCpu
    <2> QED BY <1>1, <2>3 DEF i
  <1>2. CASE c.pc = 2
    <2>1. i.op = "mov_cx" /\ i.arg = n
      BY <1>2, BenchProgram
    <2> HIDE DEF i
    <2>2. r = [[c EXCEPT !.pc = c.pc + 1] EXCEPT !.cx = n]
      BY <2>1 DEF Execute
    <2>3. r.pc = 3 /\ r.cx = n
      BY <1>2, <2>2 DEF IsCpu
    <2> QED BY <1>2, <2>3 DEF i
  <1>3. CASE c.pc = 4
    <2>1. i.op = "loop" /\ i.arg = 3
      BY <1>3, BenchProgram
    <2>2. c.cx \in 1 .. MaxPerRound /\ MaxPerRound \in Nat /\ c.cx - 1 \in 0 .. MaxPerRound
      BY <1>3, GuestAssumption
    <2>3. (c.cx + MaxPerRound) % (MaxPerRound + 1) = c.cx - 1
      <3>1. ((c.cx - 1) + (MaxPerRound + 1)) % (MaxPerRound + 1) = c.cx - 1
        BY <2>2, Wraps
      <3>2. (c.cx - 1) + (MaxPerRound + 1) = c.cx + MaxPerRound
        BY <2>2
      <3> QED BY <3>1, <3>2
    <2>4. c.cx - 1 # 0 <=> c.cx # 1
      BY <2>2
    <2> HIDE DEF i
    <2>5. r = [c EXCEPT !.cx = c.cx - 1, !.pc = IF c.cx # 1 THEN 3 ELSE c.pc + 1]
      BY <2>1, <2>3, <2>4 DEF Execute
    <2>6. IF c.cx = 1 THEN r.pc = 5 ELSE r.pc = 3 /\ r.cx = c.cx - 1
      BY <1>3, <2>5 DEF IsCpu
    <2> QED BY <1>3, <2>6 DEF i
  <1> QED BY <1>1, <1>2, <1>3

\* A round asks for at least one exit, and for no more than there is to ask for.
LEMMA ChunkFits ==
    ASSUME Inv, remaining > 0
    PROVE  Chunk \in 1 .. MaxPerRound /\ remaining - Chunk \in 0 .. Samples
  BY GuestAssumption, VmmAssumption DEF Inv, Shapes, Chunk

LEMMA BenchLife == Inv /\ BenchInv /\ Life => BenchInv'
  <1> SUFFICES ASSUME Inv, BenchInv, Life PROVE BenchInv'
    OBVIOUS
  <1> USE DEF life, bench, guest
  <1>1. ASSUME UNCHANGED <<vmm, timings, remaining, interrupted, summary>>,
               phase' = "failed" \/ (/\ phase' = phase
                                     /\ phase = "bench" => /\ at \in {"new", "drop", "setup"}
                                                           /\ at' \in {"new", "drop", "setup"})
        PROVE  BenchInv'
    <2>1. \A i, n, h : Counted(i, n, h)' = Counted(i, n, h)
      BY <1>1 DEF Counted, Measuring
    <2>2. BenchTypes'
      BY <1>1 DEF BenchInv, BenchTypes
    <2> QED BY <1>1, <2>1, <2>2 DEF BenchInv
  <1>2. CASE Acquire
    BY <1>1, <1>2 DEF Acquire
  <1>3. CASE Built
    BY <1>1, <1>3 DEF Built
  <1>4. CASE SetupFails
    BY <1>1, <1>4 DEF SetupFails, Fail
  <1>5. CASE Release
    BY <1>1, <1>5 DEF Release
  <1>6. CASE Released
    BY <1>1, <1>6 DEF Released
  <1> QED BY <1>2, <1>3, <1>4, <1>5, <1>6 DEF Life

LEMMA BenchMain == Inv /\ BenchInv /\ Main => BenchInv'
  <1> SUFFICES ASSUME Inv, BenchInv, Main PROVE BenchInv'
    OBVIOUS
  <1> USE DEF life, bench, guest
  <1>0. BenchTypes 
    BY DEF BenchInv
  <1>1. CASE StartDemo
    <2>1. /\ phase = "demo" /\ phase' = phase /\ vmm' = vmm
          /\ UNCHANGED <<timings, remaining, interrupted>> /\ summary' = NewSummary
      BY <1>1 DEF StartDemo, Start
    <2>2. BenchTypes'
      BY <1>0, <2>1 DEF BenchTypes, NewSummary
    <2> QED BY <2>1, <2>2 DEF BenchInv
  <1>2. CASE DemoReturns
    <2>1. /\ phase = "demo" /\ phase' \in {"failed", "done", "bench"} /\ at' = "drop"
          /\ vmm' = vmm /\ (phase' = "bench" => vmm # "crates")
          /\ UNCHANGED <<timings, remaining, interrupted, summary>>
      BY <1>2 DEF DemoReturns
    <2>2. timings = << >> /\ interrupted = 0 /\ remaining = Samples
      BY <2>1 DEF BenchInv
    <2>3. BenchTypes'
      BY <1>0, <2>1 DEF BenchTypes
    <2>4. Counted(0, 0, 0)'
      <3>1. timings' = << >> /\ Len(timings') = 0 /\ DOMAIN timings' = {}
        BY <2>1, <2>2
      <3>2. \A x : Measuring(x)' = 0
        <4>1. \A x : Measuring(x)' = Cardinality({})
          BY <3>1 DEF Measuring
        <4> QED BY <4>1, FS_EmptySet
      <3> QED BY <3>1, <3>2 DEF Counted
    <2>5. Samples - remaining' = 0 /\ interrupted' = 0
      BY <2>1, <2>2, VmmAssumption
    <2>6. vmm' = "raw" \/ (vmm' = "crates" /\ phase' # "bench")
      BY <2>1 DEF BenchInv
    <2> QED BY <2>1, <2>3, <2>4, <2>5, <2>6 DEF BenchInv
  <1>3. CASE StartRound
    <2>1. /\ phase = "bench" /\ at = "setup" /\ remaining > 0 /\ at' = "enter"
          /\ UNCHANGED <<vmm, phase, timings, remaining, interrupted, pending>>
          /\ program' = bench_program(Chunk) /\ cpu' = ResetRegs
          /\ summary' = NewSummary
      BY <1>3 DEF StartRound, Start
    <2>2. Counted(Samples - remaining, interrupted, 0) /\ vmm = "raw" /\ ~pending
      BY <2>1 DEF BenchInv, Inv, Places
    <2>3. SeenCpu' = ResetRegs /\ Chunk' = Chunk
      BY <2>1, <2>2 DEF SeenCpu, Answered, Chunk
    <2>4. /\ SeenCpu.pc' = 1 /\ Looped(SeenCpu)' = 0 /\ summary'.interrupted = 0
          /\ interrupted \in Nat /\ Samples - remaining \in Nat
      BY <1>0, <2>1, <2>3, VmmAssumption
         DEF Looped, ResetRegs, NewSummary, BenchTypes, Inv, Shapes
    <2>5. Counted(Samples - remaining, interrupted, 0)'
      BY <2>1, <2>2 DEF Counted, Measuring
    <2>6. (Samples - remaining + Looped(SeenCpu))' = (Samples - remaining)'
          /\ (interrupted + summary.interrupted)' = interrupted'
      BY <2>1, <2>4
    <2>7. BenchTypes'
      BY <1>0, <2>1 DEF BenchTypes, NewSummary
    <2>8. /\ SeenCpu.pc' \in 1 .. 6 /\ SeenCpu.pc' \notin {3, 4}
          /\ Counted(Samples - remaining + Looped(SeenCpu),
                     interrupted + summary.interrupted, 0)'
      BY <2>4, <2>5, <2>6
    <2> QED BY <2>1, <2>2, <2>3, <2>7, <2>8 DEF BenchInv
  <1>4. CASE RoundReturns
    <2>1. /\ phase = "bench" /\ at = "finished" /\ at' = "setup"
          /\ UNCHANGED <<vmm, phase, summary>>
          /\ interrupted' = interrupted + summary.interrupted
          /\ remaining' = remaining - Chunk
          /\ timings' = SubSeq(timings, 1, Len(timings) - 1)
      BY <1>4 DEF RoundReturns
    <2>2. /\ remaining > 0 /\ vmm = "raw" /\ timings[Len(timings)] = "hlt"
          /\ Counted(Samples - remaining + Chunk, interrupted + summary.interrupted, 1)
      BY <2>1 DEF BenchInv
    <2>3. /\ Samples - remaining + Chunk \in Nat
          /\ interrupted + summary.interrupted \in Nat
          /\ Samples - remaining' = Samples - remaining + Chunk
      <3>1. Samples \in Nat /\ remaining \in 0 .. Samples /\ Chunk \in 1 .. MaxPerRound
        BY <2>2, ChunkFits, VmmAssumption DEF Inv, Shapes
      <3>2. Chunk \in Nat
        BY <3>1, GuestAssumption
      <3> QED BY <1>0, <2>1, <3>1, <3>2 DEF BenchTypes
    <2>5. PICK i \in Nat : i = Samples - remaining + Chunk
      BY <2>3
    <2>6. PICK n \in Nat : n = interrupted + summary.interrupted
      BY <2>3
    <2>7. Counted(i, n, 0)' /\ timings' \in Seq(Kinds)
      BY <1>0, <2>1, <2>2, <2>5, <2>6, HltDropped
    <2>8. Samples - remaining' = i /\ interrupted' = n
      BY <2>1, <2>3, <2>5, <2>6
    <2>9. BenchTypes'
      BY <1>0, <2>1, <2>6, <2>7, <2>8 DEF BenchTypes
    <2> QED BY <2>1, <2>2, <2>7, <2>8, <2>9 DEF BenchInv
  <1>5. CASE BenchReturns
    <2>1. /\ phase' = "done" /\ vmm' = vmm
          /\ UNCHANGED <<timings, remaining, interrupted, summary>>
      BY <1>5 DEF BenchReturns
    <2>2. BenchTypes'
      BY <1>0, <2>1 DEF BenchTypes
    <2> QED BY <2>1, <2>2 DEF BenchInv
  <1> QED BY <1>1, <1>2, <1>3, <1>4, <1>5 DEF Main

\* KVM and the guest take no sample; what they count is in cx.
LEMMA BenchKvm == Inv /\ BenchInv /\ Kvm => BenchInv'
  <1> SUFFICES ASSUME Inv, BenchInv, Kvm PROVE BenchInv'
    OBVIOUS
  <1> USE DEF life, bench, guest
  <1>0. BenchTypes
    BY DEF BenchInv
  <1>1. ASSUME at \in {"enter", "guest"}, at' \in {"guest", "returned"},
               UNCHANGED <<vmm, phase, program, timings, remaining, interrupted>>,
               summary'.interrupted = summary.interrupted,
               DOMAIN summary' = DOMAIN summary,
               phase = "bench" =>
                 /\ cpu'.pc \in 1 .. 6
                 /\ cpu'.pc \in {3, 4} => cpu'.cx \in 1 .. Chunk
                 /\ Looped(cpu') = Looped(SeenCpu)
                 /\ at' = "returned" /\ rc' = "ok" /\ page'.reason = "HLT" => cpu'.pc = 6
        PROVE  BenchInv'
    <2>1. BenchTypes'
      BY <1>0, <1>1 DEF BenchTypes
    <2>2. SeenCpu' = cpu' /\ Chunk' = Chunk
      BY <1>1 DEF SeenCpu, Answered, Chunk
    <2>3. \A i, n, h : Counted(i, n, h)' = Counted(i, n, h)
      BY <1>1 DEF Counted, Measuring
    <2>4. Looped(SeenCpu)' = Looped(cpu')
      BY <2>2 DEF Looped
    <2>5. ASSUME phase = "bench" PROVE
            /\ program' = bench_program(Chunk)
            /\ cpu'.pc \in 1 .. 6 /\ (cpu'.pc \in {3, 4} => cpu'.cx \in 1 .. Chunk)
            /\ Counted(Samples - remaining + Looped(SeenCpu),
                       interrupted + summary.interrupted, 0)'
            /\ remaining > 0 /\ vmm = "raw"
      BY <1>1, <2>3, <2>4, <2>5 DEF BenchInv
    <2> QED BY <1>1, <2>1, <2>2, <2>5 DEF BenchInv
  <1>2. ASSUME at \in {"enter", "guest"}, phase = "bench"
        PROVE  /\ program = bench_program(Chunk) /\ Chunk \in 1 .. MaxPerRound
               /\ Len(program) = 5
               /\ cpu.pc \in 1 .. 5 /\ SeenCpu.pc \in 1 .. 6
               /\ SeenCpu.pc \in {3, 4} => SeenCpu.cx \in 1 .. Chunk
               /\ at = "guest" => SeenCpu = cpu
    <2>1. remaining > 0 /\ program = bench_program(Chunk) /\ SeenCpu.pc \in 1 .. 6
          /\ (SeenCpu.pc \in {3, 4} => SeenCpu.cx \in 1 .. Chunk)
      BY <1>2 DEF BenchInv
    <2>2. Len(program) = 5 /\ cpu.pc \in 1 .. Len(program)
      BY <1>2, <2>1, BenchProgram DEF Inv, Places, Running
    <2> QED BY <1>2, <2>1, <2>2, ChunkFits DEF SeenCpu, Answered
  <1>3. CASE Enter
    <2>1. /\ at = "enter" /\ at' = "guest"
          /\ UNCHANGED <<vmm, phase, program, timings, remaining, interrupted>>
          /\ cpu' = SeenCpu
          /\ summary' = IF vmm = "crates" THEN [summary EXCEPT !.exits = @ + 1]
                                          ELSE summary
      BY <1>3 DEF Enter, SeenCpu, Answered
    <2>2. summary'.interrupted = summary.interrupted /\ DOMAIN summary' = DOMAIN summary
      BY <1>0, <2>1 DEF BenchTypes
    <2> QED BY <1>1, <1>2, <2>1, <2>2
  <1>4. CASE GuestRuns
    <2>1. /\ at = "guest" /\ at' = "guest"
          /\ UNCHANGED <<vmm, phase, program, timings, remaining, interrupted, summary>>
          /\ Silent(program[cpu.pc]) /\ cpu' = Execute(cpu, program[cpu.pc])
      BY <1>4 DEF GuestRuns
    <2>2. ASSUME phase = "bench"
          PROVE  /\ cpu'.pc \in 1 .. 6
                 /\ cpu'.pc \in {3, 4} => cpu'.cx \in 1 .. Chunk
                 /\ Looped(cpu') = Looped(SeenCpu)
      <3>1. cpu.pc = 1 \/ cpu.pc = 2 \/ cpu.pc = 3 \/ cpu.pc = 4 \/ cpu.pc = 5
        BY <1>2, <2>1, <2>2
      <3>2. cpu.pc # 3 /\ cpu.pc # 5
        BY <1>2, <2>1, <2>2, BenchProgram DEF Silent
      <3>3. IsCpu(cpu) /\ Chunk \in 1 .. MaxPerRound /\ SeenCpu = cpu
            /\ (cpu.pc = 4 => cpu.cx \in 1 .. Chunk)
        BY <1>2, <2>1, <2>2 DEF IsCpu, Inv, Shapes
      <3>4. /\ cpu.pc = 1 => cpu'.pc = 2
            /\ cpu.pc = 2 => cpu'.pc = 3 /\ cpu'.cx = Chunk
            /\ cpu.pc = 4 => IF cpu.cx = 1 THEN cpu'.pc = 5
                                           ELSE cpu'.pc = 3 /\ cpu'.cx = cpu.cx - 1
        <4>1. PICK c : c = cpu
          OBVIOUS
        <4>2. cpu' = Execute(c, bench_program(Chunk)[c.pc])
          BY <1>2, <2>1, <2>2, <4>1
        <4> QED BY <3>1, <3>2, <3>3, <4>1, <4>2, LoopTurns
      <3>5. Chunk \in Nat \ {0} /\ \A k \in 1 .. Chunk : k \in Nat
        BY <3>3, GuestAssumption
      <3>6. CASE cpu.pc = 1
        BY <3>3, <3>4, <3>6 DEF Looped
      <3>7. CASE cpu.pc = 2
        BY <3>3, <3>4, <3>5, <3>7 DEF Looped
      <3>8. CASE cpu.pc = 4 /\ cpu.cx = 1
        BY <3>3, <3>4, <3>5, <3>8 DEF Looped
      <3>9. CASE cpu.pc = 4 /\ cpu.cx # 1
        <4>1. cpu.cx \in 1 .. Chunk /\ cpu'.pc = 3 /\ cpu'.cx = cpu.cx - 1
          BY <3>3, <3>4, <3>9
        <4>2. cpu.cx - 1 \in 1 .. Chunk /\ Chunk - (cpu.cx - 1) = Chunk - cpu.cx + 1
          BY <3>5, <3>9, <4>1
        <4> QED BY <3>3, <3>9, <4>1, <4>2 DEF Looped
      <3> QED BY <3>1, <3>2, <3>6, <3>7, <3>8, <3>9
    <2>3. ~(at' = "returned")
      BY <2>1
    <2> QED BY <1>1, <2>1, <2>2, <2>3
  <1>5. ASSUME NEW r, NEW pg, Return(r, pg), UNCHANGED <<remaining, interrupted, cpu>>,
               r # "ok" \/ pg.reason # "HLT"
        PROVE  BenchInv'
    <2>1. /\ at = "guest" /\ at' = "returned" /\ rc' = r /\ page' = pg
          /\ UNCHANGED <<vmm, phase, program, timings, remaining, interrupted, summary>>
      BY <1>5 DEF Return
    <2>2. ~(rc' = "ok" /\ page'.reason = "HLT")
      BY <1>5, <2>1
    <2> QED BY <1>1, <1>2, <1>5, <2>1, <2>2
  <1>6. CASE ExitForAccess
    <2> DEFINE i == program[cpu.pc]
               pg == [reason |-> IF IsPio(i) THEN "IO" ELSE "MMIO",
                      write |-> ~IsRead(i),
                      where |-> IF IsPio(i) THEN cpu.dx ELSE i.arg,
                      data |-> IF IsRead(i) THEN page.data ELSE cpu.al]
    <2>1. Return("ok", pg) /\ UNCHANGED <<remaining, interrupted, cpu>>
      BY <1>6 DEF ExitForAccess, Return
    <2>2. pg.reason # "HLT"
      OBVIOUS
    <2> HIDE DEF pg
    <2> QED BY <1>5, <2>1, <2>2
  <1>7. CASE ExitForHlt
    <2>1. /\ at = "guest" /\ at' = "returned" /\ cpu' = [cpu EXCEPT !.pc = @ + 1]
          /\ UNCHANGED <<vmm, phase, program, timings, remaining, interrupted, summary>>
          /\ program[cpu.pc].op = "hlt"
      BY <1>7 DEF ExitForHlt, Return
    <2>2. ASSUME phase = "bench"
          PROVE  cpu'.pc = 6 /\ Looped(cpu') = Looped(SeenCpu)
      <3>1. cpu.pc = 1 \/ cpu.pc = 2 \/ cpu.pc = 3 \/ cpu.pc = 4 \/ cpu.pc = 5
        BY <1>2, <2>1, <2>2
      <3>2. program = bench_program(Chunk) /\ SeenCpu = cpu
        BY <1>2, <2>1, <2>2
      <3>3. cpu.pc = 5
        BY <2>1, <3>1, <3>2, BenchProgram
      <3>4. cpu'.pc = 6
        BY <2>1, <3>3 DEF Inv, Shapes
      <3> QED BY <3>2, <3>3, <3>4 DEF Looped
    <2> QED BY <1>1, <2>1, <2>2
  <1>8. \A x : [page EXCEPT !.reason = x].reason = x
    BY DEF Inv, Shapes
  <1>9. CASE Interrupt
    <2>1. UNCHANGED cpu
      BY <1>9 DEF Interrupt
    <2>2. UNCHANGED <<remaining, interrupted>>
      BY <1>9 DEF Interrupt, Return
    <2>3. CASE Return("EINTR", page)
      BY <1>5, <2>1, <2>2, <2>3
    <2>4. CASE Return("EINTR", [page EXCEPT !.reason = "INTR"])
      BY <1>5, <2>1, <2>2, <2>4
    <2>5. CASE Return("ok", [page EXCEPT !.reason = "INTR"])
      <3>1. [page EXCEPT !.reason = "INTR"].reason # "HLT"
        BY <1>8
      <3> QED BY <1>5, <2>1, <2>2, <2>5, <3>1
    <2> QED BY <1>9, <2>3, <2>4, <2>5 DEF Interrupt
  <1>10. CASE Refuse
    <2>1. UNCHANGED <<remaining, interrupted, cpu>>
      BY <1>10 DEF Refuse, Return
    <2>2. CASE Return("ok", [page EXCEPT !.reason = "FAIL_ENTRY"])
      <3>1. [page EXCEPT !.reason = "FAIL_ENTRY"].reason # "HLT"
        BY <1>8
      <3> QED BY <1>5, <2>1, <2>2, <3>1
    <2>3. CASE Return("error", page)
      BY <1>5, <2>1, <2>3
    <2> QED BY <1>10, <2>2, <2>3 DEF Refuse
  <1> QED BY <1>3, <1>4, <1>6, <1>7, <1>9, <1>10 DEF Kvm

\* The run loop counts an interruption when it says so; toy-kvm-crates counts
\* none.
LEMMA CountKeeps ==
    ASSUME BenchTypes, NEW kinds, Count(kinds)
    PROVE  /\ DOMAIN summary' = DOMAIN summary /\ summary'.interrupted \in Nat
           /\ vmm = "raw" =>
                summary'.interrupted = IF "interrupted" \in kinds
                                         THEN summary.interrupted + 1
                                         ELSE summary.interrupted
  <1>1. "interrupted" \in DOMAIN summary /\ summary.interrupted \in Nat
    BY DEF BenchTypes
  <1>2. CASE vmm = "crates"
    BY <1>1, <1>2 DEF Count
  <1>3. CASE vmm # "crates"
    BY <1>1, <1>3 DEF Count
  <1> QED BY <1>2, <1>3

\* Every return of a round is sampled once, and an exit takes the guest on by
\* one turn of its loop.
LEMMA BenchRun == Inv /\ BenchInv /\ Run => BenchInv'
  <1> SUFFICES ASSUME Inv, BenchInv, Run PROVE BenchInv'
    OBVIOUS
  <1> USE DEF life, bench, guest
  <1>0. BenchTypes
    BY DEF BenchInv
  <1>1. \A k : timings' = timings \/ (timings' = Append(timings, k) /\ k \in Kinds)
          => timings' \in Seq(Kinds)
    BY <1>0 DEF BenchTypes
  <1> DEFINE Same == UNCHANGED <<vmm, remaining, interrupted>>
  \* What gives up, or is not the benchmark, leaves nothing to account for.
  <1>2. ASSUME Same, NEW k \in Kinds, Sample(k), DOMAIN summary' = DOMAIN summary,
               summary'.interrupted \in Nat,
               phase' = "failed" \/ (phase' = phase /\ phase # "bench")
        PROVE  BenchInv'
    <2>1. BenchTypes'
      BY <1>0, <1>1, <1>2 DEF BenchTypes, Sample
    <2>2. phase' = phase /\ phase # "bench" => timings' = timings
      BY <1>2 DEF Sample
    <2> QED BY <1>2, <2>1, <2>2 DEF BenchInv
  <1>3. ASSUME at = "returned", phase = "bench"
        PROVE  /\ remaining > 0 /\ vmm = "raw" /\ program = bench_program(Chunk)
               /\ Chunk \in 1 .. MaxPerRound /\ SeenCpu = cpu
               /\ cpu.pc \in 1 .. 6 /\ (cpu.pc \in {3, 4} => cpu.cx \in 1 .. Chunk)
               /\ Counted(Samples - remaining + Looped(cpu),
                          interrupted + summary.interrupted, 0)
               /\ Samples - remaining + Looped(cpu) \in Nat
               /\ interrupted + summary.interrupted \in Nat
    <2>1. /\ remaining > 0 /\ vmm = "raw" /\ program = bench_program(Chunk)
          /\ SeenCpu = cpu /\ Chunk \in 1 .. MaxPerRound
      BY <1>3, ChunkFits DEF BenchInv, SeenCpu, Answered
    <2>2. /\ cpu.pc \in 1 .. 6 /\ (cpu.pc \in {3, 4} => cpu.cx \in 1 .. Chunk)
          /\ Counted(Samples - remaining + Looped(cpu),
                     interrupted + summary.interrupted, 0)
      BY <1>3, <2>1 DEF BenchInv
    <2>3. Chunk \in Nat /\ Samples - remaining \in Nat
      BY <2>1, GuestAssumption, VmmAssumption DEF Inv, Shapes
    <2>4. Looped(cpu) \in Nat
      BY <2>2, <2>3 DEF Looped
    <2> QED BY <1>0, <2>1, <2>2, <2>3, <2>4 DEF BenchTypes
  \* An interruption: the guest is where it was.
  <1>4. ASSUME at = "returned", vmm = "raw", ~pending, Same, Sample("intr"),
               NEW kinds, Count(kinds), "interrupted" \in kinds, Resume,
               UNCHANGED <<program, cpu, pending, page>>
        PROVE  BenchInv'
    <2>1. /\ DOMAIN summary' = DOMAIN summary /\ summary'.interrupted \in Nat
          /\ summary'.interrupted = summary.interrupted + 1
      BY <1>0, <1>4, CountKeeps
    <2>2. "intr" \in Kinds
      BY DEF Kinds
    <2>3. CASE phase = "bench"
      <3>1. PICK i \in Nat : i = Samples - remaining + Looped(cpu)
        BY <1>3, <1>4, <2>3
      <3>2. PICK n \in Nat : n = interrupted + summary.interrupted
        BY <1>3, <1>4, <2>3
      <3>3. Counted(i, n, 0) /\ timings' = Append(timings, "intr")
        BY <1>3, <1>4, <2>3, <3>1, <3>2 DEF Sample
      <3>4. Counted(i, n + 1, 0)' /\ timings' \in Seq(Kinds)
        BY <1>0, <2>2, <3>3, SampleCounted
      <3>5. SeenCpu' = cpu /\ Chunk' = Chunk /\ at' = "enter" /\ phase' = phase
        BY <1>4 DEF SeenCpu, Answered, Chunk, Resume
      <3>6. Looped(SeenCpu)' = Looped(cpu)
        BY <3>5 DEF Looped
      <3>7. (Samples - remaining + Looped(SeenCpu))' = i
            /\ (interrupted + summary.interrupted)' = n + 1
        BY <1>0, <1>4, <2>1, <3>1, <3>2, <3>6 DEF BenchTypes
      <3>8. BenchTypes'
        BY <1>0, <1>4, <2>1, <3>4 DEF BenchTypes
      <3>9. Counted(Samples - remaining + Looped(SeenCpu),
                    interrupted + summary.interrupted, 0)'
        BY <3>4, <3>7
      <3> QED BY <1>3, <1>4, <2>3, <3>5, <3>8, <3>9 DEF BenchInv
    <2>4. CASE phase # "bench"
      BY <1>2, <1>4, <2>1, <2>2, <2>4 DEF Resume
    <2> QED BY <2>3, <2>4
  <1>5. CASE HandleEintr
    <2>1. ~pending /\ Same /\ UNCHANGED <<program, cpu, pending, page>>
      BY <1>5 DEF HandleEintr, Resume, Inv, Places
    <2> QED BY <1>4, <1>5, <2>1 DEF HandleEintr
  <1>6. CASE HandleIntr
    <2>1. ~pending /\ Same /\ UNCHANGED <<program, cpu, pending, page>>
      BY <1>6 DEF HandleIntr, Exited, Access, Resume, Inv, Places
    <2> QED BY <1>4, <1>6, <2>1 DEF HandleIntr, Exited
  <1>7. CASE HandleError
    <2>1. Same /\ Sample("error") /\ phase' = "failed" /\ summary' = summary
          /\ "error" \in Kinds
      BY <1>7 DEF HandleError, GiveUp, Fail, Kinds
    <2> QED BY <1>0, <1>2, <2>1 DEF BenchTypes
  <1>8. CASE HandleUnknown
    <2>1. Same /\ Sample("fail_entry") /\ phase' = "failed" /\ Count({"exits"})
          /\ "fail_entry" \in Kinds
      BY <1>8 DEF HandleUnknown, GiveUp, Fail, Kinds
    <2>2. DOMAIN summary' = DOMAIN summary /\ summary'.interrupted \in Nat
      BY <1>0, <2>1, CountKeeps
    <2> QED BY <1>2, <2>1, <2>2
  <1>9. CASE HandleHlt
    <2>1. /\ at = "returned" /\ rc = "ok" /\ page.reason = "HLT" /\ Sample("hlt")
          /\ Count({"exits"}) /\ at' = "finished" /\ phase' = phase /\ Same
          /\ program' = program
      BY <1>9 DEF HandleHlt, Exited
    <2>2. DOMAIN summary' = DOMAIN summary /\ summary'.interrupted \in Nat
          /\ (vmm = "raw" => summary'.interrupted = summary.interrupted)
      BY <1>0, <2>1, CountKeeps
    <2>3. "hlt" \in Kinds
      BY DEF Kinds
    <2>4. CASE phase = "bench"
      <3>1. PICK i \in Nat : i = Samples - remaining + Looped(cpu)
        BY <1>3, <2>1, <2>4
      <3>2. PICK n \in Nat : n = interrupted + summary.interrupted
        BY <1>3, <2>1, <2>4
      <3>3. Counted(i, n, 0) /\ timings' = Append(timings, "hlt")
        BY <1>3, <2>1, <2>4, <3>1, <3>2 DEF Sample
      <3>4. Counted(i, n, 1)' /\ timings' \in Seq(Kinds) /\ timings'[Len(timings')] = "hlt"
        <4>1. 0 + 1 = 1
          OBVIOUS
        <4> QED BY <1>0, <2>3, <3>3, <4>1, SampleCounted
      <3>5. Looped(cpu) = Chunk /\ Chunk' = Chunk
        BY <2>1, <2>4 DEF BenchInv, Looped, Chunk
      <3>6. (Samples - remaining + Chunk)' = i /\ (interrupted + summary.interrupted)' = n
        BY <1>3, <2>1, <2>2, <2>4, <3>1, <3>2, <3>5
      <3>7. BenchTypes'
        BY <1>0, <2>1, <2>2, <3>4 DEF BenchTypes
      <3>8. Counted(Samples - remaining + Chunk, interrupted + summary.interrupted, 1)'
        BY <3>4, <3>6
      <3> QED BY <1>3, <2>1, <2>4, <3>4, <3>7, <3>8 DEF BenchInv
    <2>5. CASE phase # "bench"
      BY <1>2, <2>1, <2>2, <2>3, <2>5
    <2> QED BY <2>4, <2>5
  <1>10. CASE HandleMmio
    <2>1. /\ at = "returned" /\ rc = "ok" /\ page.reason = "MMIO" /\ Sample("mmio")
          /\ Count({"exits", "mmio_exits"}) /\ phase' \in {phase, "failed"} /\ Same
      BY <1>10 DEF HandleMmio, Exited, Resume, GiveUp, Fail
    <2>2. DOMAIN summary' = DOMAIN summary /\ summary'.interrupted \in Nat
      BY <1>0, <2>1, CountKeeps
    <2>3. phase # "bench"
      <3>1. ASSUME phase = "bench" PROVE FALSE
        <4>1. program = bench_program(Chunk)
          BY <1>3, <2>1, <3>1
        <4>2. pending /\ IsMmio(program[cpu.pc]) /\ cpu.pc \in 1 .. Len(program)
          BY <2>1 DEF Inv, Places, Access, Describes, Running
        <4>3. cpu.pc = 1 \/ cpu.pc = 2 \/ cpu.pc = 3 \/ cpu.pc = 4 \/ cpu.pc = 5
          BY <4>1, <4>2, BenchProgram
        <4> QED BY <4>1, <4>2, <4>3, BenchProgram DEF IsMmio
      <3> QED BY <3>1
    <2>4. "mmio" \in Kinds
      BY DEF Kinds
    <2> QED BY <1>2, <2>1, <2>2, <2>3, <2>4
  <1>11. CASE HandleIo
    <2>1. /\ at = "returned" /\ rc = "ok" /\ page.reason = "IO" /\ Sample("io")
          /\ Count({"exits", "io_exits"}) /\ phase' = phase /\ Same
          /\ at' = "enter" /\ UNCHANGED <<program, cpu, pending>>
      BY <1>11 DEF HandleIo, Exited, Resume
    <2>2. DOMAIN summary' = DOMAIN summary /\ summary'.interrupted \in Nat
          /\ (vmm = "raw" => summary'.interrupted = summary.interrupted)
      BY <1>0, <2>1, CountKeeps
    <2>3. "io" \in Kinds
      BY DEF Kinds
    <2>4. CASE phase = "bench"
      <3>1. PICK i \in Nat : i = Samples - remaining + Looped(cpu)
        BY <1>3, <2>1, <2>4
      <3>2. PICK n \in Nat : n = interrupted + summary.interrupted
        BY <1>3, <2>1, <2>4
      <3>3. Counted(i, n, 0) /\ timings' = Append(timings, "io")
        BY <1>3, <2>1, <2>4, <3>1, <3>2 DEF Sample
      <3>4. Counted(i + 1, n, 0)' /\ timings' \in Seq(Kinds)
        BY <1>0, <2>3, <3>3, SampleCounted
      <3>5. pending /\ cpu.pc = 3 /\ IsCpu(cpu)
        <4>1. program = bench_program(Chunk)
          BY <1>3, <2>1, <2>4
        <4>2. pending /\ IsPio(program[cpu.pc]) /\ cpu.pc \in 1 .. Len(program)
          BY <2>1 DEF Inv, Places, Access, Describes, Running
        <4>3. cpu.pc = 1 \/ cpu.pc = 2 \/ cpu.pc = 3 \/ cpu.pc = 4 \/ cpu.pc = 5
          BY <4>1, <4>2, BenchProgram
        <4>4. cpu.pc = 3
          BY <4>1, <4>2, <4>3, BenchProgram DEF IsPio
        <4> QED BY <4>2, <4>4 DEF Inv, Shapes, IsCpu
      <3>6. SeenCpu.pc' = 4 /\ SeenCpu.cx' = cpu.cx /\ Chunk' = Chunk
        <4>1. SeenCpu' = Retire(cpu, program[cpu.pc], page'.data)
          BY <2>1, <3>5 DEF SeenCpu, Answered
        <4> QED BY <2>1, <3>5, <4>1 DEF Retire, IsCpu, Chunk
      <3>7. cpu.cx \in 1 .. Chunk /\ Chunk \in Nat
        BY <1>3, <2>1, <2>4, <3>5, GuestAssumption
      <3>8. Looped(SeenCpu)' = Looped(cpu) + 1
        BY <3>5, <3>6, <3>7 DEF Looped
      <3>9. (Samples - remaining + Looped(SeenCpu))' = i + 1
            /\ (interrupted + summary.interrupted)' = n
        <4>1. Samples - remaining \in Int /\ Looped(cpu) \in Int
          BY <3>5, <3>7, VmmAssumption DEF Looped, Inv, Shapes
        <4> QED BY <1>3, <2>1, <2>2, <2>4, <3>1, <3>2, <3>8, <4>1
      <3>10. BenchTypes'
        BY <1>0, <2>1, <2>2, <3>4 DEF BenchTypes
      <3>11. Counted(Samples - remaining + Looped(SeenCpu),
                     interrupted + summary.interrupted, 0)'
        BY <3>4, <3>9
      <3>12. SeenCpu.pc' \in 1 .. 6 /\ SeenCpu.cx' \in 1 .. Chunk'
        BY <3>6, <3>7
      <3> QED BY <1>3, <2>1, <2>4, <3>6, <3>10, <3>11, <3>12 DEF BenchInv
    <2>5. CASE phase # "bench"
      BY <1>2, <2>1, <2>2, <2>3, <2>5
    <2> QED BY <2>4, <2>5
  <1> QED BY <1>5, <1>6, <1>7, <1>8, <1>9, <1>10, <1>11 DEF Run

LEMMA BenchStep == Inv /\ BenchInv /\ [Next]_vars => BenchInv'
  <1> SUFFICES ASSUME Inv, BenchInv, [Next]_vars PROVE BenchInv'
    OBVIOUS
  <1>1. CASE UNCHANGED vars
    <2>1. \A i, n, h : Counted(i, n, h)' = Counted(i, n, h)
      BY <1>1 DEF vars, Counted, Measuring
    <2>2. SeenCpu' = SeenCpu /\ Chunk' = Chunk
      BY <1>1 DEF vars, SeenCpu, Answered, Chunk
    <2>3. Looped(SeenCpu)' = Looped(SeenCpu)
      BY <2>2 DEF Looped
    <2> QED BY <1>1, <2>1, <2>2, <2>3 DEF BenchInv, BenchTypes, vars
  <1> QED BY <1>1, BenchLife, BenchMain, BenchKvm, BenchRun DEF Next

\* At the end of every round the samples left are one for each exit requested so
\* far and one for each interruption counted, and none is the hlt's, wherever
\* the interruptions fell (run_bench).
THEOREM PopulationInvariant == Spec => []BenchPopulation
  <1>1. Init => BenchInv
    BY VmmAssumption DEF Init, BenchInv, BenchTypes, NewSummary
  <1>2. Inv /\ BenchInv => BenchPopulation
    <2> SUFFICES ASSUME Inv, BenchInv, phase = "bench", at = "setup" PROVE BenchPopulation
      BY DEF BenchPopulation
    <2>1. Counted(Samples - remaining, interrupted, 0) /\ interrupted \in Nat
      BY DEF BenchInv, BenchTypes
    <2>2. Samples - remaining \in Int
      BY VmmAssumption DEF Inv, Shapes
    <2>3. Len(timings) = Samples - remaining + interrupted
      BY <2>1, <2>2 DEF Counted
    <2> QED BY <2>1, <2>3 DEF Counted, BenchPopulation
  <1>3. Inv /\ BenchInv /\ [Next]_vars => BenchInv'
    BY BenchStep
  <1> QED BY <1>1, <1>2, <1>3, PlacesInvariant, PTL DEF Spec
=============================================================================

------------------------------ MODULE Devices -------------------------------
(***************************************************************************)
(* device.rs: the device model the run loop dispatches to.  Each operation *)
(* maps the Devices value to the next one; Answer is what a read leaves in *)
(* the buffer the guest's register is filled from.                         *)
(***************************************************************************)
EXTENDS Guest

NewDevices == [serial_out |-> << >>, latch |-> Zero, pio_writes |-> 0,
               pio_reads |-> 0, mmio_writes |-> 0, mmio_reads |-> 0,
               unhandled |-> 0]

pio_write(d, port, data) ==
    LET counted == [d EXCEPT !.pio_writes = @ + 1]
    IN CASE port = "serial" ->
              [counted EXCEPT !.serial_out = Append(@, data)]
         [] port = "bench" -> counted
         [] OTHER -> [counted EXCEPT !.unhandled = @ + 1]

pio_read(d) ==
    LET counted == [d EXCEPT !.pio_reads = @ + 1]
    IN [counted EXCEPT !.unhandled = @ + 1]

PioAnswer == Floating

mmio_write(d, addr, data) ==
    LET counted == [d EXCEPT !.mmio_writes = @ + 1]
    IN IF addr - MmioBase = 0 THEN [counted EXCEPT !.latch = data]
                              ELSE [counted EXCEPT !.unhandled = @ + 1]

mmio_read(d, addr) ==
    LET counted == [d EXCEPT !.mmio_reads = @ + 1]
    IN IF addr - MmioBase = 0 THEN counted
                              ELSE [counted EXCEPT !.unhandled = @ + 1]

MmioAnswer(d, addr) == IF addr - MmioBase = 0 THEN d.latch ELSE Floating

owns_mmio(addr) == addr >= MmioBase /\ addr < MmioBase + MmioLen
=============================================================================

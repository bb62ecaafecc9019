------------------------------ MODULE Machine -------------------------------
(***************************************************************************)
(* The computer the guest believes it runs on: a processor wired to a      *)
(* serial port, a diagnostic port and a one-register chip, with no exits,  *)
(* no shared page and nobody answering.  Every instruction is one step and *)
(* happens once.  An access no chip decodes reads all ones and is counted; *)
(* one outside the device window never completes.                          *)
(***************************************************************************)
EXTENDS Guest

CONSTANT Programs     \* the programs that may be loaded

VARIABLES program,    \* what is loaded, << >> before the first boot
          cpu,
          serial,     \* the bytes that came out of the serial port
          latch,      \* the chip's register
          accesses,   \* port and device accesses so far
          invented    \* of those, the ones no chip decodes

machine == <<program, cpu, serial, latch, accesses, invented>>

Decoded(i) == i.arg \in MmioBase .. MmioBase + MmioLen - 1
Known(i) == CASE i.op = "out" -> cpu.dx \in {"serial", "bench"}
              [] i.op = "in" -> FALSE
              [] OTHER -> i.arg = MmioBase

Init ==
    /\ program = << >>
    /\ cpu = ResetRegs
    /\ serial = << >>
    /\ latch = Zero
    /\ accesses = 0
    /\ invented = 0

\* A new program starts with reset registers, on the chips as they are or on
\* new ones.
Boot ==
    /\ program = << >> \/ cpu.pc > Len(program)
    /\ program' \in Programs
    /\ cpu' = ResetRegs
    /\ \/ UNCHANGED <<serial, latch, accesses, invented>>
       \/ /\ serial' = << >>
          /\ latch' = Zero
          /\ accesses' = 0
          /\ invented' = 0

Step ==
    /\ cpu.pc \in DOMAIN program
    /\ LET i == program[cpu.pc]
       IN \/ /\ Silent(i)
             /\ cpu' = Execute(cpu, i)
             /\ UNCHANGED <<serial, latch, accesses, invented>>
          \/ /\ i.op = "hlt"
             /\ cpu' = [cpu EXCEPT !.pc = @ + 1]
             /\ UNCHANGED <<serial, latch, accesses, invented>>
          \/ /\ IsPio(i) \/ (IsMmio(i) /\ Decoded(i))
             /\ cpu' = Retire(cpu, i, IF Known(i) THEN latch ELSE Floating)
             /\ serial' = IF i.op = "out" /\ cpu.dx = "serial"
                            THEN Append(serial, cpu.al) ELSE serial
             /\ latch' = IF i.op = "store" /\ Known(i) THEN cpu.al ELSE latch
             /\ accesses' = accesses + 1
             /\ invented' = IF Known(i) THEN invented ELSE invented + 1
    /\ UNCHANGED program

Next == Boot \/ Step

Spec == Init /\ [][Next]_machine
=============================================================================

-------------------------------- MODULE Guest -------------------------------
(***************************************************************************)
(* The guest programs of guest.rs as instruction sequences, and the part   *)
(* of a real-mode vCPU they use: al, dx, cx and the instruction pointer.   *)
(* Every access is one byte wide.  A store or load in these programs is    *)
(* always outside guest RAM: an access inside it does not exit.            *)
(***************************************************************************)
EXTENDS Naturals, Sequences

CONSTANTS MaxPerRound,   \* BENCH_MAX_PER_ROUND: the largest value of cx
          MmioBase,      \* MMIO_BASE, where guest RAM ends
          MmioLen        \* MMIO_LEN

ASSUME GuestAssumption == /\ MaxPerRound \in Nat \ {0}
                          /\ MmioBase \in Nat
                          /\ MmioLen \in Nat \ {0}

Floating == "0xff"       \* what an access nobody answers reads
Zero == "0"              \* a register after KVM_SET_REGS, the latch of a new
                         \* device

mov_al(v) == [op |-> "mov_al", arg |-> v]
mov_dx(v) == [op |-> "mov_dx", arg |-> v]
mov_cx(v) == [op |-> "mov_cx", arg |-> v]
loop(t)   == [op |-> "loop", arg |-> t]
out       == [op |-> "out", arg |-> 0]
in        == [op |-> "in", arg |-> 0]
store(a)  == [op |-> "store", arg |-> a]
load(a)   == [op |-> "load", arg |-> a]
hlt       == [op |-> "hlt", arg |-> 0]

IsPio(i) == i.op \in {"out", "in"}
IsMmio(i) == i.op \in {"store", "load"}
IsRead(i) == i.op \in {"in", "load"}
Silent(i) == i.op \in {"mov_al", "mov_dx", "mov_cx", "loop"}

\* The registers set_real_mode_regs leaves behind.
ResetRegs == [pc |-> 1, al |-> Zero, dx |-> "none", cx |-> 0]

\* The registers after an instruction that does not exit.  loop decrements
\* cx, which wraps, and jumps unless it has become zero.
Execute(cpu, i) ==
    LET dec == (cpu.cx + MaxPerRound) % (MaxPerRound + 1)
        next == [cpu EXCEPT !.pc = @ + 1]
    IN CASE i.op = "mov_al" -> [next EXCEPT !.al = i.arg]
         [] i.op = "mov_dx" -> [next EXCEPT !.dx = i.arg]
         [] i.op = "mov_cx" -> [next EXCEPT !.cx = i.arg]
         [] i.op = "loop" -> [cpu EXCEPT !.cx = dec,
                                         !.pc = IF dec # 0 THEN i.arg
                                                           ELSE @ + 1]

\* The registers once an exiting instruction has completed: a read takes the
\* answer into al.
Retire(cpu, i, answer) ==
    [cpu EXCEPT !.pc = @ + 1, !.al = IF IsRead(i) THEN answer ELSE @]

-----------------------------------------------------------------------------
(* Programs. *)

\* Stores a byte in the toy device, reads it back and prints it.
DEMO_PROGRAM ==
    <<mov_dx("serial"), mov_al("K"), out, mov_al("V"), out, mov_al("M"), out,
      mov_al("nl"), out, mov_al("B"), store(MmioBase), load(MmioBase), out,
      mov_al("nl"), out, hlt>>

DEMO_EXPECTED_OUTPUT == <<"K", "V", "M", "nl", "B", "nl">>

\* count iterations of one out, then halt.
bench_program(count) ==
    <<mov_dx("bench"), mov_cx(count), out, loop(3), hlt>>
=============================================================================

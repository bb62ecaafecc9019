------------------------------- MODULE MCVmm --------------------------------
(* Guests for Vmm. *)
EXTENDS Vmm

DemoOutput == DEMO_EXPECTED_OUTPUT

\* Touches what the device model does not implement: an unknown port, a port
\* read, the second byte of the device window, and an address past it.
Probe ==
    <<mov_al("x"), mov_dx("other"), out, in, mov_dx("serial"), out,
      mov_al("B"), store(MmioBase), store(MmioBase + 1), load(MmioBase + 1),
      out, load(MmioBase), out, store(MmioBase + MmioLen), hlt>>

DemoOnly == {DEMO_PROGRAM}
DemoAndProbe == {DEMO_PROGRAM, Probe}
=============================================================================

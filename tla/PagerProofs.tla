----------------------------- MODULE PagerProofs ----------------------------
(***************************************************************************)
(* Theorems about Pager, for any number of pages, touching threads and     *)
(* handlers, any batch, failing reads and either owner of the descriptor.  *)
(***************************************************************************)
EXTENDS Pager, TLAPS

Types ==
    /\ mem \in [Pages -> Int]
    /\ fd_open \in BOOLEAN
    /\ parked \in [Touchers -> 0 .. N]
    /\ queue \subseteq Touchers
    /\ at \in [Touchers -> 1 .. N + 1]
    /\ got \in [Touchers -> Int \X Int]
    /\ stop \in BOOLEAN
    /\ hpc \in [Handlers -> {"loop", "read", "copy", "exited", "dead"}]
    /\ fault \in [Handlers -> 0 .. N]
    /\ copied \in [Handlers -> Nat]

\* A parked thread is in the middle of the touch it parked for, so that nobody
\* is parked once the walk is over, or once the descriptor is closed.
Parking ==
    /\ \A t \in Touchers : parked[t] # None => parked[t] = at[t]
    /\ stop => \A t \in Touchers : at[t] = N + 1
    /\ ~fd_open => \A t \in Touchers : parked[t] = None

WakeInv == Types /\ Parking /\ NoLostWake

\* A page holds its own page of the image, nothing, or what the kernel filled it
\* with once the last handler had closed the descriptor for good.
Zeros ==
    /\ \A p \in Pages : mem[p] \in {p, Absent} \/ (mem[p] = Zero /\ ~fd_open)
    /\ ~fd_open => ~MainKeepsFd /\ \A h \in Handlers : Gone(h)
    /\ ZeroOnlyWhenClosed

-----------------------------------------------------------------------------
\* The initial state is typed and nobody is parked in it.
LEMMA InitWake == Init => WakeInv
  <1> SUFFICES ASSUME Init PROVE WakeInv
    OBVIOUS
  <1> USE SizesAssumption DEF Init, Pages
  <1>1. at \in [Touchers -> 1 .. N + 1]
    <2>1. CASE Sequential BY <2>1
    <2>2. CASE ~Sequential BY <2>2
    <2> QED BY <2>1, <2>2
  <1>2. Types
    <2>1. got \in [Touchers -> Int \X Int]
      BY DEF None
    <2>2. mem \in [Pages -> Int] /\ parked \in [Touchers -> 0 .. N]
      BY DEF None, Absent
    <2>3. hpc \in [Handlers -> {"loop", "read", "copy", "exited", "dead"}]
      OBVIOUS
    <2>4. fault \in [Handlers -> 0 .. N] /\ copied \in [Handlers -> Nat]
      BY DEF None
    <2> QED BY <1>1, <2>1, <2>2, <2>3, <2>4 DEF Types
  <1>3. Parking
    BY DEF Parking
  <1>4. NoLostWake
    BY DEF NoLostWake
  <1> QED BY <1>2, <1>3, <1>4 DEF WakeInv

\* Steps of the touching threads and of main.
LEMMA ToucherStep ==
    WakeInv /\ ((\E t \in Touchers : ToucherNext(t)) \/ MainNext) => WakeInv'
  <1> SUFFICES ASSUME WakeInv
               PROVE  ((\E t \in Touchers : ToucherNext(t)) \/ MainNext) => WakeInv'
    OBVIOUS
  <1> USE SizesAssumption DEF WakeInv
  <1>1. ASSUME NEW t \in Touchers, Touch(t) PROVE WakeInv'
    <2> USE <1>1 DEF Touch, kernelVars, handlerVars
    <2>1. Types'
      <3>1. at[t] \in 1 .. N /\ mem[at[t]] \in Int
        BY DEF Types, Pages
      <3>2. got' \in [Touchers -> Int \X Int]
        BY <3>1 DEF Types
      <3>3. at' \in [Touchers -> 1 .. N + 1]
        <4>1. PICK q \in IF Sequential THEN {at[t] + 1} ELSE 1 .. N + 1 :
                at' = [at EXCEPT ![t] = q]
          OBVIOUS
        <4>2. q \in 1 .. N + 1
          BY <3>1
        <4> QED BY <4>1, <4>2 DEF Types
      <3> QED BY <3>2, <3>3 DEF Types
    <2>2. Parking' BY DEF Types, Parking, Pages, None
    <2>3. NoLostWake' BY DEF NoLostWake
    <2> QED BY <2>1, <2>2, <2>3
  <1>2. ASSUME NEW t \in Touchers, Fault(t) PROVE WakeInv'
    <2> USE <1>2 DEF Fault, touchVars, handlerVars
    <2>1. Types' BY DEF Types, Pages
    <2>2. Parking' BY DEF Types, Parking, Pages, None
    <2>3. NoLostWake' BY DEF NoLostWake, Types, Absent, None
    <2> QED BY <2>1, <2>2, <2>3
  <1>3. ASSUME NEW t \in Touchers, ZeroFault(t) PROVE WakeInv'
    <2> USE <1>3 DEF ZeroFault, kernelVars, touchVars, handlerVars
    <2>1. Types' BY DEF Types, Pages, Zero
    <2>2. Parking' BY DEF Parking
    <2>3. NoLostWake' BY DEF NoLostWake, Parking
    <2> QED BY <2>1, <2>2, <2>3
  <1>4. ASSUME Reset PROVE WakeInv'
    <2> USE <1>4 DEF Reset, kernelVars
    <2>0. \A t \in Touchers : parked[t] = None
      BY ThreadsAssumption DEF Types, Parking, None
    <2>1. Types' BY DEF Types, Pages, Absent
    <2>2. Parking' BY <2>0 DEF Parking, Types
    <2>3. NoLostWake' BY <2>0 DEF NoLostWake
    <2> QED BY <2>1, <2>2, <2>3
  <1>5. ASSUME Stop PROVE WakeInv'
    <2> USE <1>5 DEF Stop, kernelVars, touchVars, handlerVars
    <2>1. Types' BY DEF Types
    <2>2. Parking' BY DEF Parking
    <2>3. NoLostWake' BY DEF NoLostWake
    <2> QED BY <2>1, <2>2, <2>3
  <1> QED BY <1>1, <1>2, <1>3, <1>4, <1>5 DEF ToucherNext, MainNext

\* Steps of a handler.  Only one that has copied something can be a witness of
\* NoLostWake, so the steps outside UFFDIO_COPY and EEXIST change no witness;
\* CopyPage makes the handler one, and CopyDone and CopyPartial wake whoever
\* depended on it.
LEMMA HandlerStep ==
    WakeInv /\ (\E h \in Handlers : HandlerNext(h)) => WakeInv'
  <1> SUFFICES ASSUME WakeInv, NEW h \in Handlers, HandlerNext(h)
               PROVE  WakeInv'
    OBVIOUS
  <1> USE SizesAssumption DEF WakeInv
  <1>0. \A k \in Handlers : hpc[k] # "copy" \/ copied[k] = 0 =>
           \A p : ~ (hpc[k] = "copy" /\ p \in fault[k] .. fault[k] + copied[k] - 1)
    BY DEF Types
  <1>1. CASE LoopTop(h)
    <2> USE <1>1 DEF LoopTop, touchVars
    <2>1. Types' BY DEF Types, Leave
    <2>2. Parking' BY DEF Types, Parking, Leave, None
    <2>3. NoLostWake' BY DEF NoLostWake, Types, Leave
    <2> QED BY <2>1, <2>2, <2>3
  <1>2. CASE ReadEvent(h)
    <2> USE <1>2 DEF ReadEvent, touchVars
    <2>1. Types' BY DEF Types
    <2>2. Parking' BY DEF Parking
    <2>3. NoLostWake' BY DEF NoLostWake, Types
    <2> QED BY <2>1, <2>2, <2>3
  <1>3. CASE ReadNothing(h)
    <2> USE <1>3 DEF ReadNothing, touchVars, kernelVars
    <2>1. Types' BY DEF Types
    <2>2. Parking' BY DEF Parking
    <2>3. NoLostWake' BY DEF NoLostWake, Types
    <2> QED BY <2>1, <2>2, <2>3
  <1>4. CASE CopyPage(h)
    <2> USE <1>4 DEF CopyPage, touchVars, kernelVars
    <2>0. Source(h) \in Int /\ copied[h] + 1 \in Nat
      BY DEF Types, Source
    <2>1. Types' BY <2>0 DEF Types
    <2>2. Parking' BY DEF Parking
    <2>3. NoLostWake'
      <3> SUFFICES ASSUME NEW t \in Touchers, parked[t] # None,
                          mem'[parked[t]] # Absent
                   PROVE  \E k \in Handlers :
                            /\ hpc'[k] = "copy"
                            /\ parked[t] \in fault'[k] .. fault'[k] + copied'[k] - 1
        BY DEF NoLostWake
      <3>1. CASE parked[t] = Target(h)
        BY <3>1 DEF Target, Types
      <3>2. CASE parked[t] # Target(h)
        <4>1. mem[parked[t]] # Absent BY <3>2 DEF Types, Pages, None
        <4>2. PICK k \in Handlers :
                /\ hpc[k] = "copy"
                /\ parked[t] \in fault[k] .. fault[k] + copied[k] - 1
          BY <4>1 DEF NoLostWake
        <4> QED BY <4>2 DEF Types
      <3> QED BY <3>1, <3>2
    <2> QED BY <2>1, <2>2, <2>3
  <1>5. CASE CopyDone(h)
    <2> USE <1>5 DEF CopyDone, touchVars, Wake
    <2>1. Types' BY DEF Types, None
    <2>2. Parking' BY DEF Parking, Types, None
    <2>3. NoLostWake' BY DEF NoLostWake, Types, None, Woken
    <2> QED BY <2>1, <2>2, <2>3
  <1>6. CASE CopyExists(h)
    <2> USE <1>6 DEF CopyExists, touchVars, kernelVars
    <2>1. Types' BY DEF Types, None
    <2>2. Parking' BY DEF Parking
    <2>3. NoLostWake' BY <1>0 DEF NoLostWake, Types
    <2> QED BY <2>1, <2>2, <2>3
  <1>7. CASE CopyPartial(h)
    <2> USE <1>7 DEF CopyPartial, touchVars, Wake, Leave
    <2>1. Types' BY ModesAssumption DEF Types, None
    <2>2. Parking' BY DEF Parking, Types, None, Pages
    <2>3. NoLostWake'
      <3>1. CASE fd_open' BY <3>1 DEF NoLostWake, Types, None, Woken
      <3>2. CASE ~fd_open' BY <3>2, <2>2 DEF NoLostWake, Parking
      <3> QED BY <3>1, <3>2
    <2> QED BY <2>1, <2>2, <2>3
  <1>8. CASE ReadFails(h)
    <2> USE <1>8 DEF ReadFails, touchVars, Wake, Leave
    <2>1. Types' BY ModesAssumption DEF Types, None
    <2>2. Parking' BY DEF Parking, Types, None, Pages
    <2>3. NoLostWake'
      <3>1. CASE fd_open' BY <3>1 DEF NoLostWake, Types
      <3>2. CASE ~fd_open' BY <3>2, <2>2 DEF NoLostWake, Parking
      <3> QED BY <3>1, <3>2
    <2> QED BY <2>1, <2>2, <2>3
  <1> QED BY <1>1, <1>2, <1>3, <1>4, <1>5, <1>6, <1>7, <1>8 DEF HandlerNext

\* Every step keeps the invariant.
LEMMA WakeStep == WakeInv /\ [Next]_vars => WakeInv'
  <1>1. WakeInv /\ UNCHANGED vars => WakeInv'
    BY DEF WakeInv, Types, Parking, NoLostWake, vars
  <1> QED BY <1>1, ToucherStep, HandlerStep DEF Next

\* WakeInv is an invariant.
LEMMA WakeAlways == Spec => []WakeInv
  BY InitWake, WakeStep, PTL DEF Spec

\* No wake-up is ever lost: whatever the number of handlers and however their
\* copies overlap, fail or find pages already there, a thread parked on a page
\* that is there has a copy in progress that will wake it (Uffd::copy,
\* handler_loop).
THEOREM WakeInvariant == Spec => []NoLostWake
  <1>1. WakeInv => NoLostWake BY DEF WakeInv
  <1> QED BY <1>1, WakeAlways, PTL

-----------------------------------------------------------------------------
\* The initial state is an empty region under an open descriptor.
LEMMA InitZeros == Init => Zeros
  BY DEF Init, Zeros, ZeroOnlyWhenClosed, None, Absent, Pages

\* A touch returns what its page holds; only ZeroFault makes a page Zero, and it
\* needs the descriptor closed; only the last handler to leave closes it, and
\* nobody is left to open it again.
LEMMA ZerosStep == Types /\ Zeros /\ [Next]_vars => Zeros'
  <1> SUFFICES ASSUME Types, Zeros, [Next]_vars PROVE Zeros'
    OBVIOUS
  <1> USE DEF Zeros, Types, ZeroOnlyWhenClosed, Gone
  <1>1. ASSUME NEW t \in Touchers, ToucherNext(t) PROVE Zeros'
    <2>1. CASE Touch(t)
      BY <2>1 DEF Touch, kernelVars, handlerVars, Absent
    <2>2. CASE Fault(t)
      BY <2>2 DEF Fault, touchVars, handlerVars
    <2>3. CASE ZeroFault(t)
      BY <2>3 DEF ZeroFault, kernelVars, touchVars, handlerVars
    <2> QED BY <1>1, <2>1, <2>2, <2>3 DEF ToucherNext
  <1>2. ASSUME MainNext PROVE Zeros'
    BY <1>2 DEF MainNext, Reset, Stop, kernelVars, touchVars, handlerVars
  <1>3. ASSUME NEW h \in Handlers, HandlerNext(h) PROVE Zeros'
    <2>0. hpc[h] \in {"loop", "read", "copy"} /\ fd_open
      BY <1>3 DEF HandlerNext, LoopTop, ReadEvent, ReadNothing, CopyPage,
           CopyDone, CopyExists, CopyPartial, ReadFails
    <2>1. CASE CopyPage(h)
      BY <2>0, <2>1 DEF CopyPage, Source, Target, kernelVars, touchVars
    <2>2. CASE ReadEvent(h) \/ ReadNothing(h) \/ CopyDone(h) \/ CopyExists(h)
      BY <2>0, <2>2 DEF ReadEvent, ReadNothing, CopyDone, CopyExists,
           kernelVars, touchVars
    <2>3. CASE LoopTop(h) \/ CopyPartial(h) \/ ReadFails(h)
      <3>1. mem' = mem /\ got' = got
        BY <2>3 DEF LoopTop, CopyPartial, ReadFails, touchVars
      <3>2. ~fd_open' => ~MainKeepsFd /\ \A g \in Handlers : Gone(g)'
        BY <2>0, <2>3 DEF LoopTop, CopyPartial, ReadFails, Leave
      <3> QED BY <2>0, <3>1, <3>2
    <2> QED BY <1>3, <2>1, <2>2, <2>3 DEF HandlerNext
  <1>4. CASE UNCHANGED vars
    BY <1>4 DEF vars
  <1> QED BY <1>1, <1>2, <1>3, <1>4 DEF Next

\* Zeros is an invariant.
LEMMA ZerosAlways == Spec => []Zeros
  <1>1. WakeInv => Types BY DEF WakeInv
  <1> QED BY <1>1, WakeAlways, InitZeros, ZerosStep, PTL DEF Spec

\* Whoever owns the descriptor and whatever fails, a touch returns the image's
\* value for its page, or a zero once the descriptor is closed (Uffd::new's
\* "silent corruption", handler_loop's returns).
THEOREM ZeroInvariant == Spec => []ZeroOnlyWhenClosed
  <1>1. Zeros => ZeroOnlyWhenClosed BY DEF Zeros
  <1> QED BY <1>1, ZerosAlways, PTL

\* While main holds the descriptor, every value a touch returns is the one of
\* the snapshot image, whichever handlers die (demo and run_config, which keep
\* an Arc<Uffd> of their own).
THEOREM ContentInvariant ==
    ASSUME MainKeepsFd
    PROVE  Spec => []RestoredContent
  <1>1. Zeros => RestoredContent
    BY DEF Zeros, ZeroOnlyWhenClosed, RestoredContent
  <1> QED BY <1>1, ZerosAlways, PTL

-----------------------------------------------------------------------------
\* A handler that answers each fault with one page, as demo's does, never gives
\* up, however many handlers there are and whatever they find installed: there
\* is no second page for UFFDIO_COPY to stop at (handler_loop's batch_pages).
THEOREM SinglePageHandlersSurvive ==
    ASSUME Batch = 1, ~MayFail
    PROVE  Spec => []HandlerSurvives
  <1>1. Init => HandlerSurvives
    BY DEF Init, HandlerSurvives
  <1>2. Types /\ HandlerSurvives /\ [Next]_vars => HandlerSurvives'
    <2> SUFFICES ASSUME Types, HandlerSurvives, [Next]_vars
                 PROVE  HandlerSurvives'
      OBVIOUS
    <2> USE DEF HandlerSurvives, Types
    <2>1. ASSUME NEW h \in Handlers, HandlerNext(h) PROVE HandlerSurvives'
      <3>1. ~CopyPartial(h)
        <4>1. Run(h) \in Int /\ Run(h) <= 1
          BY SizesAssumption DEF Run
        <4> QED BY <4>1 DEF CopyPartial
      <3>2. ~ReadFails(h)
        BY DEF ReadFails
      <3> QED
        BY <2>1, <3>1, <3>2 DEF HandlerNext, LoopTop, Leave, ReadEvent,
             ReadNothing, CopyPage, CopyDone, CopyExists
    <2>2. CASE (\E t \in Touchers : ToucherNext(t)) \/ MainNext
      BY <2>2 DEF ToucherNext, MainNext, Touch, Fault, ZeroFault, Reset, Stop,
           handlerVars
    <2>3. CASE UNCHANGED vars
      BY <2>3 DEF vars
    <2> QED BY <2>1, <2>2, <2>3 DEF Next
  <1>3. WakeInv => Types BY DEF WakeInv
  <1> QED BY <1>1, <1>2, <1>3, WakeAlways, PTL DEF Spec

-----------------------------------------------------------------------------
\* With one handler, a thread whose message is unread or in the handler's hand
\* is still parked: nobody else wakes it.
Pending ==
    /\ \A t \in queue : parked[t] # None
    /\ \A h \in Handlers : hpc[h] = "copy" =>
          /\ fault[h] # None
          /\ \E t \in Touchers : parked[t] = fault[h]

\* The initial state has nobody to wait for.
LEMMA InitPending == Init => Pending
  BY DEF Init, Pending

\* Only the wake-ups release a thread, and each ends the copy that was the
\* handler's reason to have it parked.
LEMMA PendingStep ==
    ASSUME \A g, h \in Handlers : g = h
    PROVE  WakeInv /\ Pending /\ [Next]_vars => Pending'
  <1> SUFFICES ASSUME WakeInv, Pending, [Next]_vars PROVE Pending'
    OBVIOUS
  <1> USE SizesAssumption DEF WakeInv, Types, Pending
  <1>1. ASSUME NEW t \in Touchers, ToucherNext(t) PROVE Pending'
    <2>1. CASE Touch(t) \/ ZeroFault(t)
      BY <2>1 DEF Touch, ZeroFault, kernelVars, handlerVars
    <2>2. CASE Fault(t)
      BY <2>2 DEF Fault, handlerVars, Pages, None
    <2> QED BY <1>1, <2>1, <2>2 DEF ToucherNext
  <1>2. CASE MainNext
    BY <1>2 DEF MainNext, Reset, Stop, kernelVars, handlerVars
  <1>3. ASSUME NEW h \in Handlers, HandlerNext(h) PROVE Pending'
    <2>1. CASE LoopTop(h) \/ ReadNothing(h)
      BY <2>1 DEF LoopTop, Leave, ReadNothing, kernelVars
    <2>2. CASE ReadEvent(h)
      BY <2>2 DEF ReadEvent
    <2>3. CASE CopyPage(h)
      BY <2>3 DEF CopyPage, kernelVars
    <2>4. CASE CopyDone(h)
      BY <2>4 DEF CopyDone, Wake
    <2>5. CASE CopyExists(h)
      BY <2>5 DEF CopyExists, kernelVars
    <2>6. CASE CopyPartial(h)
      BY <2>6 DEF CopyPartial, Wake, Leave
    <2>7. CASE ReadFails(h)
      BY <2>7 DEF ReadFails, Wake, Leave
    <2> QED
      BY <1>3, <2>1, <2>2, <2>3, <2>4, <2>5, <2>6, <2>7 DEF HandlerNext
  <1>4. CASE UNCHANGED vars
    BY <1>4 DEF vars
  <1> QED BY <1>1, <1>2, <1>3, <1>4 DEF Next

\* With one handler, as run_config has, no walk ends while the handler is still
\* installing pages: the fault it answers belongs to a thread that is parked,
\* and so in the middle of its walk ("Resetting here cannot race the handler").
THEOREM QuietInvariant ==
    ASSUME \A g, h \in Handlers : g = h
    PROVE  Spec => []ResetIsQuiet
  <1>1. Spec => []Pending
    BY InitPending, PendingStep, WakeAlways, PTL DEF Spec
  <1>2. WakeInv /\ Pending => ResetIsQuiet
    <2> SUFFICES ASSUME WakeInv, Pending, \A t \in Touchers : at[t] = N + 1,
                        NEW h \in Handlers, hpc[h] = "copy"
                 PROVE  FALSE
      BY DEF ResetIsQuiet
    <2>1. PICK t \in Touchers : parked[t] = fault[h] /\ fault[h] # None
      BY DEF Pending
    <2>2. at[t] \in 0 .. N
      BY <2>1 DEF WakeInv, Parking, Types
    <2> QED BY <2>2, SizesAssumption
  <1> QED BY <1>1, <1>2, WakeAlways, PTL
-----------------------------------------------------------------------------
(***************************************************************************)
(* A sequential walk.                                                      *)
(***************************************************************************)

\* The settings of run_config: one thread walks the pages in order, and main has
\* a reference to the descriptor.  How many handlers there are is left open.
Walk == Sequential /\ Touchers = {Main} /\ MainKeepsFd

\* A handler is answering a fault.
Copying == \E h \in Handlers : hpc[h] = "copy"

\* The faults that have been answered.
Batches == IF Copying THEN faults - 1 ELSE faults

\* The pages up to m are there, and no others.
InstalledTo(m) == \A p \in Pages : mem[p] # Absent <=> p <= m

\* What is there is whole batches, the last one clamped, and the pages of the
\* copy in progress; the walker is inside it or waits for the first page after.
Walked ==
    /\ fd_open
    /\ faults \in Nat /\ Batches \in Nat /\ Batches * Batch < N + Batch
    /\ installed = IF Batches * Batch < N THEN Batches * Batch ELSE N
    /\ at[Main] \in 1 .. installed + 1
    /\ parked[Main] # None => parked[Main] = installed + 1 /\ at[Main] = installed + 1
    /\ queue # {} => parked[Main] # None /\ ~Copying
    /\ ~Copying => InstalledTo(installed)

\* The copy in progress is the only one, and it is on the page the walker waits
\* for.
CopyOf(h) ==
    /\ \A g \in Handlers : hpc[g] = "copy" => g = h
    /\ parked[Main] = fault[h] /\ fault[h] = installed + 1
    /\ copied[h] <= Run(h)
    /\ InstalledTo(installed + copied[h])

WalkInv == Walked /\ \A h \in Handlers : hpc[h] = "copy" => CopyOf(h)

\* N pages take this many batches: q when q - 1 are too few and q are enough.
LEMMA BatchCount ==
    ASSUME NEW b \in Nat \ {0}, NEW n \in Nat, NEW q \in Nat,
           n <= q * b, q * b < n + b
    PROVE  (n + b - 1) \div b = q
  <1> DEFINE x == n + b - 1
             d == x \div b
             r == x % b
  <1>1. x \in Int /\ d \in Int /\ r \in 0 .. b - 1 /\ x = (b * d) + r
    OBVIOUS
  <1> HIDE DEF d, r
  <1>2. PICK t \in Int : t = d - q
    BY <1>1
  <1>3. b * t = x - r - (q * b) /\ q * b \in Int
    <2>1. b * t = (b * d) - (q * b) /\ q * b \in Int /\ b * d \in Int
      BY <1>1, <1>2
    <2> QED BY <1>1, <2>1
  <1>4. -b < b * t /\ b * t < b
    BY <1>1, <1>3
  <1>5. t = 0
    <2>1. CASE t >= 1
      BY <1>4, <2>1
    <2>2. CASE t <= -1
      BY <1>4, <2>2
    <2> QED BY <1>2, <2>1, <2>2
  <1> QED BY <1>1, <1>2, <1>5 DEF d

\* The walk begins with nothing there.
LEMMA InitWalk == Walk /\ Init => WalkInv
  <1> SUFFICES ASSUME Walk, Init PROVE WalkInv
    OBVIOUS
  <1>1. ~Copying /\ faults = 0 /\ installed = 0 /\ fd_open /\ queue = {}
        /\ parked[Main] = None /\ at[Main] = 1 /\ \A p \in Pages : mem[p] = Absent
    BY ThreadsAssumption DEF Init, Copying, Walk
  <1>2. Batches = 0 /\ Batches * Batch = 0 /\ 0 < N
    BY <1>1, SizesAssumption DEF Batches
  <1>3. InstalledTo(installed)
    BY <1>1, SizesAssumption DEF InstalledTo, Pages
  <1>4. Walked
    BY <1>1, <1>2, <1>3, SizesAssumption DEF Walked
  <1> QED BY <1>1, <1>4 DEF WalkInv, Copying

\* Steps that only move a handler outside its copy.
LEMMA WalkKept ==
    ASSUME WalkInv, UNCHANGED <<mem, fd_open, parked, queue, at, faults, installed>>,
           \A h \in Handlers : \/ hpc'[h] # "copy" /\ hpc[h] # "copy"
                               \/ /\ hpc'[h] = hpc[h]
                                  /\ fault'[h] = fault[h] /\ copied'[h] = copied[h]
    PROVE  WalkInv'
  <1>1. Copying' = Copying /\ Batches' = Batches
    BY DEF Copying, Batches
  <1>2. \A m : InstalledTo(m)' <=> InstalledTo(m)
    BY DEF InstalledTo
  <1>3. Walked'
    BY <1>1, <1>2 DEF WalkInv, Walked
  <1>4. \A h \in Handlers : hpc'[h] = "copy" => CopyOf(h)'
    BY <1>2 DEF WalkInv, CopyOf, Run, InstalledTo
  <1> QED BY <1>3, <1>4 DEF WalkInv

\* The walker takes the pages as they come, and stops at the first that is not
\* there.
LEMMA WalkToucher ==
    ASSUME Walk, Types, Parking, WalkInv, NEW t \in Touchers, ToucherNext(t)
    PROVE  WalkInv'
  <1>1. t = Main /\ installed \in Nat /\ installed <= N /\ fd_open
        /\ at[Main] \in 1 .. installed + 1
    <2>1. Batches * Batch \in Nat
      BY SizesAssumption DEF WalkInv, Walked
    <2> QED BY <2>1, SizesAssumption DEF Walk, WalkInv, Walked
  <1>2. CASE Touch(t)
    <2>1. /\ parked[Main] = None /\ mem[at[Main]] # Absent /\ at[Main] \in Pages
          /\ at'[Main] = at[Main] + 1
          /\ UNCHANGED <<mem, fd_open, parked, queue, hpc, fault, copied, faults, installed>>
      BY <1>1, <1>2 DEF Touch, Walk, kernelVars, handlerVars, Types
    <2>2. ~Copying
      <3>1. ASSUME NEW h \in Handlers, hpc[h] = "copy" PROVE FALSE
        BY <1>1, <2>1, <3>1 DEF WalkInv, CopyOf, None
      <3> QED BY <3>1 DEF Copying
    <2>3. at[Main] <= installed
      BY <2>1, <2>2 DEF WalkInv, Walked, InstalledTo
    <2>4. at'[Main] \in 1 .. installed + 1
      BY <1>1, <2>1, <2>3
    <2>5. Copying' = Copying /\ Batches' = Batches
      BY <2>1 DEF Copying, Batches
    <2>6. \A m : InstalledTo(m)' <=> InstalledTo(m)
      BY <2>1 DEF InstalledTo
    <2>7. Walked'
      BY <2>1, <2>4, <2>5, <2>6 DEF WalkInv, Walked
    <2> QED BY <2>2, <2>5, <2>7 DEF WalkInv, Copying
  <1>3. CASE Fault(t)
    <2>1. /\ parked[Main] = None /\ mem[at[Main]] = Absent /\ at[Main] \in Pages
          /\ parked'[Main] = at[Main]
          /\ UNCHANGED <<mem, fd_open, at, hpc, fault, copied, faults, installed>>
      BY <1>1, <1>3 DEF Fault, touchVars, handlerVars, Types
    <2>2. ~Copying
      <3>1. ASSUME NEW h \in Handlers, hpc[h] = "copy" PROVE FALSE
        BY <1>1, <2>1, <3>1 DEF WalkInv, CopyOf, None
      <3> QED BY <3>1 DEF Copying
    <2>3. ~(at[Main] <= installed)
      BY <2>1, <2>2 DEF WalkInv, Walked, InstalledTo
    <2>4. at[Main] = installed + 1 /\ parked'[Main] # None
      BY <1>1, <2>1, <2>3 DEF None
    <2>5. Copying' = Copying /\ Batches' = Batches
      BY <2>1 DEF Copying, Batches
    <2>6. \A m : InstalledTo(m)' <=> InstalledTo(m)
      BY <2>1 DEF InstalledTo
    <2>7. Walked'
      BY <2>1, <2>2, <2>4, <2>5, <2>6 DEF WalkInv, Walked
    <2> QED BY <2>2, <2>5, <2>7 DEF WalkInv, Copying
  <1>4. ~ZeroFault(t)
    BY <1>1 DEF ZeroFault
  <1> QED BY <1>2, <1>3, <1>4 DEF ToucherNext

\* A reset finds nobody copying, and begins again.
LEMMA WalkMain ==
    ASSUME Walk, Types, Parking, WalkInv, MainNext
    PROVE  WalkInv'
  <1>1. CASE Stop
    <2>1. UNCHANGED <<mem, fd_open, parked, queue, at, hpc, fault, copied, faults, installed>>
      BY <1>1 DEF Stop, kernelVars, touchVars, handlerVars
    <2> QED BY <2>1, WalkKept
  <1>2. CASE Reset
    <2>1. /\ at[Main] = N + 1 /\ at'[Main] = 1 /\ faults' = 0 /\ installed' = 0
          /\ mem' = [p \in Pages |-> Absent]
          /\ UNCHANGED <<fd_open, parked, queue, hpc, fault, copied>>
      BY <1>2, ThreadsAssumption DEF Reset, Walk, kernelVars
    <2>2. parked[Main] = None
      <3>1. Main \in Touchers /\ (parked[Main] # None => parked[Main] = at[Main])
            /\ parked[Main] \in 0 .. N
        BY ThreadsAssumption DEF Parking, Types
      <3> QED BY <2>1, <3>1, SizesAssumption
    <2>3. ~Copying /\ queue = {}
      <3>1. ASSUME NEW h \in Handlers, hpc[h] = "copy" PROVE FALSE
        <4>1. fault[h] = None /\ fault[h] = installed + 1
          BY <2>2, <3>1 DEF WalkInv, CopyOf
        <4>2. installed \in Nat
          <5>1. Batches * Batch \in Nat
            BY SizesAssumption DEF WalkInv, Walked
          <5> QED BY <5>1, SizesAssumption DEF WalkInv, Walked
        <4> QED BY <4>1, <4>2 DEF None
      <3> QED BY <2>2, <3>1 DEF Copying, WalkInv, Walked
    <2>4. ~Copying' /\ Batches' = 0 /\ Batches' * Batch = 0
      BY <2>1, <2>3, SizesAssumption DEF Copying, Batches
    <2>5. InstalledTo(installed)'
      BY <2>1, SizesAssumption DEF InstalledTo, Pages
    <2>6. Walked'
      BY <2>1, <2>2, <2>3, <2>4, <2>5, SizesAssumption DEF WalkInv, Walked
    <2> QED BY <2>4, <2>6 DEF WalkInv, Copying
  <1> QED BY <1>1, <1>2 DEF MainNext

\* A handler reads the walker's message, which is for the first absent page.
LEMMA WalkRead ==
    ASSUME Walk, Types, WalkInv, NEW h \in Handlers, ReadEvent(h)
    PROVE  WalkInv'
  <1>1. /\ hpc[h] = "read" /\ hpc'[h] = "copy" /\ copied'[h] = 0
        /\ \A g \in Handlers \ {h} : hpc'[g] = hpc[g]
        /\ faults' = faults + 1
        /\ UNCHANGED <<mem, fd_open, parked, at, installed>>
    BY DEF ReadEvent, touchVars, Types
  <1>2. PICK t \in queue : fault' = [fault EXCEPT ![h] = parked[t]] /\ queue' = queue \ {t}
    BY DEF ReadEvent
  <1>3. t = Main /\ queue' = {} /\ fault'[h] = parked[Main]
    BY <1>2 DEF Types, Walk
  <1>4. ~Copying /\ parked[Main] = installed + 1
    BY <1>2 DEF WalkInv, Walked
  <1>5. /\ Copying' /\ \A g \in Handlers : hpc'[g] = "copy" => g = h
    BY <1>1, <1>4 DEF Copying
  <1>6. Batches' = Batches
    <2>1. Batches = faults /\ faults \in Nat /\ Batches' = faults' - 1
      BY <1>4, <1>5 DEF Batches, WalkInv, Walked
    <2> QED BY <1>1, <2>1
  <1>7. InstalledTo(installed)
    BY <1>4 DEF WalkInv, Walked
  <1>8. installed \in Nat
    <2>1. Batches * Batch \in Nat
      BY SizesAssumption DEF WalkInv, Walked
    <2> QED BY <2>1, SizesAssumption DEF WalkInv, Walked
  <1>9. Walked'
    BY <1>1, <1>3, <1>5, <1>6 DEF WalkInv, Walked
  <1>10. CopyOf(h)'
    <2>1. 0 <= Run(h)'
      <3>1. fault'[h] \in 0 .. N
        BY <1>3, ThreadsAssumption DEF Types
      <3> QED BY <3>1, SizesAssumption DEF Run
    <2>2. InstalledTo(installed + copied[h])'
      BY <1>1, <1>7, <1>8 DEF InstalledTo
    <2> QED BY <1>1, <1>3, <1>4, <1>5, <2>1, <2>2 DEF CopyOf
  <1> QED BY <1>5, <1>9, <1>10 DEF WalkInv

\* What a handler that copies finds: the run is whole pages of the region after
\* those that are there, and none of it is there yet but what it copied.
LEMMA CopyFinds ==
    ASSUME Walk, Types, WalkInv, NEW h \in Handlers, hpc[h] = "copy"
    PROVE  /\ CopyOf(h) /\ Copying
           /\ installed \in Nat /\ installed < N /\ installed = Batches * Batch
           /\ Target(h) = installed + 1 + copied[h] /\ Source(h) = Target(h)
           /\ Run(h) = IF Batch < N - installed THEN Batch ELSE N - installed
           /\ Run(h) \in 1 .. N - installed
           /\ copied[h] < Run(h) => Target(h) \in Pages /\ mem[Target(h)] = Absent
           /\ parked[Main] = installed + 1 /\ queue = {}
  <1>1. CopyOf(h) /\ Copying
    BY DEF WalkInv, Copying
  <1>2. Batches * Batch \in Nat
    BY SizesAssumption DEF WalkInv, Walked
  <1>3. fault[h] = installed + 1 /\ fault[h] \in 0 .. N /\ copied[h] \in Nat
    BY <1>1 DEF CopyOf, Types
  <1>4. installed \in Nat /\ installed < N /\ installed = Batches * Batch
    BY <1>2, <1>3, SizesAssumption DEF WalkInv, Walked
  <1>5. Target(h) = installed + 1 + copied[h] /\ Source(h) = Target(h)
    BY <1>3, <1>4 DEF Target, Source
  <1>6. /\ Run(h) = IF Batch < N - installed THEN Batch ELSE N - installed
        /\ Run(h) \in 1 .. N - installed
    BY <1>3, <1>4, SizesAssumption DEF Run
  <1>7. ASSUME copied[h] < Run(h)
        PROVE  Target(h) \in Pages /\ mem[Target(h)] = Absent
    <2>1. Target(h) \in Pages /\ ~(Target(h) <= installed + copied[h])
      BY <1>3, <1>4, <1>5, <1>6, <1>7, SizesAssumption DEF Pages
    <2> QED BY <1>1, <2>1 DEF CopyOf, InstalledTo
  <1>8. parked[Main] = installed + 1 /\ queue = {}
    BY <1>1, <1>3 DEF CopyOf, WalkInv, Walked
  <1> QED BY <1>1, <1>4, <1>5, <1>6, <1>7, <1>8

\* The copy goes on by one page.
LEMMA WalkCopyPage ==
    ASSUME Walk, Types, WalkInv, NEW h \in Handlers, CopyPage(h)
    PROVE  WalkInv'
  <1>1. /\ hpc[h] = "copy" /\ copied[h] < Run(h) /\ copied[h] \in Nat
        /\ mem' = [mem EXCEPT ![Target(h)] = Source(h)] /\ copied'[h] = copied[h] + 1
        /\ UNCHANGED <<fd_open, parked, queue, at, hpc, fault, faults, installed>>
    BY DEF CopyPage, kernelVars, touchVars, Types
  <1>2. /\ CopyOf(h) /\ Copying /\ installed \in Nat
        /\ Target(h) = installed + 1 + copied[h] /\ Source(h) = Target(h)
        /\ Run(h) \in 1 .. N - installed /\ Target(h) \in Pages
    BY <1>1, CopyFinds
  <1>3. Copying' /\ Batches' = Batches /\ Run(h)' = Run(h)
    BY <1>1, <1>2 DEF Copying, Batches, Run
  <1>4. mem'[Target(h)] # Absent /\ \A p \in Pages : p # Target(h) => mem'[p] = mem[p]
    BY <1>1, <1>2 DEF Types, Absent
  <1>5. InstalledTo(installed + copied[h])'
    <2>1. ASSUME NEW p \in Pages
          PROVE  mem'[p] # Absent <=> p <= installed + (copied[h] + 1)
      <3>1. mem[p] # Absent <=> p <= installed + copied[h]
        BY <1>2 DEF CopyOf, InstalledTo
      <3>2. CASE p = Target(h)
        BY <1>1, <1>2, <1>4, <3>2
      <3>3. CASE p # Target(h)
        <4>1. p \in Int
          BY DEF Pages
        <4> QED BY <1>1, <1>2, <1>4, <3>1, <3>3, <4>1
      <3> QED BY <3>2, <3>3
    <2> QED BY <1>1, <2>1 DEF InstalledTo
  <1>6. copied'[h] <= Run(h)'
    BY <1>1, <1>2, <1>3
  <1>7. CopyOf(h)'
    BY <1>1, <1>2, <1>5, <1>6 DEF CopyOf
  <1>8. Walked'
    BY <1>1, <1>2, <1>3 DEF WalkInv, Walked
  <1>9. \A g \in Handlers : hpc'[g] = "copy" => g = h
    BY <1>1, <1>2 DEF CopyOf
  <1> QED BY <1>7, <1>8, <1>9 DEF WalkInv

\* The copy ends, and its batch is whole or reaches the end of the region.
LEMMA WalkCopyDone ==
    ASSUME Walk, Types, WalkInv, NEW h \in Handlers, CopyDone(h)
    PROVE  WalkInv'
  <1>1. /\ hpc[h] = "copy" /\ copied[h] = Run(h) /\ Wake(Woken(h))
        /\ installed' = installed + copied[h] /\ hpc' = [hpc EXCEPT ![h] = "loop"]
        /\ UNCHANGED <<mem, fd_open, at, faults>>
    BY DEF CopyDone, touchVars
  <1>2. /\ CopyOf(h) /\ Copying /\ installed \in Nat /\ installed < N
        /\ installed = Batches * Batch
        /\ Run(h) = IF Batch < N - installed THEN Batch ELSE N - installed
        /\ Run(h) \in 1 .. N - installed
        /\ parked[Main] = installed + 1 /\ queue = {}
    BY <1>1, CopyFinds
  <1>3. ~Copying'
    BY <1>1, <1>2 DEF Copying, CopyOf, Types
  <1>4. parked'[Main] = None /\ queue' = {}
    <2>1. fault[h] = parked[Main] /\ fault[h] = installed + 1
      BY <1>2 DEF CopyOf
    <2>2. parked[Main] \in Woken(h)
      BY <1>1, <1>2, <2>1 DEF Woken
    <2> QED BY <1>1, <1>2, <2>2, ThreadsAssumption DEF Wake
  <1>5. PICK q \in Nat : q = Batches
    BY DEF WalkInv, Walked
  <1>6. faults = q + 1 /\ Batches' = q + 1
    <2>1. Batches = faults - 1 /\ Batches' = faults' /\ faults \in Int
      BY <1>2, <1>3 DEF Batches, WalkInv, Walked
    <2> QED BY <1>1, <1>5, <2>1
  <1>7. PICK m \in Nat : m = q * Batch /\ m = installed
    BY <1>2, <1>5
  <1>8. (q + 1) * Batch = m + Batch
    BY <1>5, <1>7, SizesAssumption
  <1>9. installed' = IF m + Batch < N THEN m + Batch ELSE N
    BY <1>1, <1>2, <1>7, SizesAssumption
  <1>10. m + Batch < N + Batch /\ installed' >= installed
    BY <1>1, <1>2, <1>7, SizesAssumption
  <1>11. at'[Main] \in 1 .. installed' + 1
    <2>1. at[Main] \in 1 .. m + 1 /\ installed' \in Nat
      BY <1>1, <1>7, <1>9, SizesAssumption DEF WalkInv, Walked
    <2> QED BY <1>1, <1>7, <1>10, <2>1
  <1>12. InstalledTo(installed)'
    BY <1>1, <1>2 DEF CopyOf, InstalledTo
  <1>13. Batches' \in Nat /\ Batches' * Batch = m + Batch
    BY <1>6, <1>8
  <1>14. Walked'
    BY <1>1, <1>3, <1>4, <1>9, <1>10, <1>11, <1>12, <1>13 DEF WalkInv, Walked
  <1> QED BY <1>3, <1>14 DEF WalkInv, Copying

\* Steps of a handler.
LEMMA WalkHandler ==
    ASSUME Walk, Types, WalkInv, NEW h \in Handlers, HandlerNext(h)
    PROVE  WalkInv'
  <1>1. CASE LoopTop(h) \/ ReadNothing(h) \/ ReadFails(h)
    <2>1. fd_open' = fd_open
      BY <1>1 DEF LoopTop, ReadNothing, ReadFails, Leave, Walk, WalkInv, Walked, kernelVars
    <2>2. fd_open
      BY DEF WalkInv, Walked
    <2>3. UNCHANGED <<mem, parked, queue, at, faults, installed, fault, copied>>
      BY <1>1, <2>1, <2>2 DEF LoopTop, ReadNothing, ReadFails, kernelVars, touchVars
    <2>4. hpc[h] # "copy" /\ hpc'[h] # "copy" /\ \A g \in Handlers \ {h} : hpc'[g] = hpc[g]
      BY <1>1 DEF LoopTop, ReadNothing, ReadFails, Leave, Types
    <2> QED BY <2>1, <2>3, <2>4, WalkKept
  <1>2. ~CopyExists(h)
    <2>1. ASSUME hpc[h] = "copy", copied[h] = 0 PROVE mem[Target(h)] = Absent
      BY <2>1, CopyFinds
    <2> QED BY <2>1 DEF CopyExists
  <1>3. ~CopyPartial(h)
    <2>1. ASSUME hpc[h] = "copy", copied[h] \in 1 .. Run(h) - 1
          PROVE  mem[Target(h)] = Absent
      <3>1. Run(h) \in 1 .. N - installed /\ installed \in Nat
        BY <2>1, CopyFinds
      <3>2. copied[h] < Run(h)
        BY <2>1, <3>1, SizesAssumption
      <3> QED BY <2>1, <3>2, CopyFinds
    <2> QED BY <2>1 DEF CopyPartial
  <1> QED BY <1>1, <1>2, <1>3, WalkRead, WalkCopyPage, WalkCopyDone DEF HandlerNext

LEMMA WalkAlways ==
    ASSUME Walk
    PROVE  Spec => []WalkInv
  <1>1. Init => WalkInv
    BY InitWalk
  <1>2. WakeInv /\ WalkInv /\ [Next]_vars => WalkInv'
    <2> SUFFICES ASSUME WakeInv, WalkInv, [Next]_vars PROVE WalkInv'
      OBVIOUS
    <2>1. Types /\ Parking
      BY DEF WakeInv
    <2>2. CASE UNCHANGED vars
      BY <2>2, WalkKept DEF vars
    <2> QED BY <2>1, <2>2, WalkToucher, WalkMain, WalkHandler DEF Next
  <1> QED BY <1>1, <1>2, WakeAlways, PTL DEF Spec

\* A sequential walk costs one fault per batch, rounded up, and installs every
\* page once, round after round, for every size of the region and of the batch
\* and however many handlers share the descriptor (run_config; tests/restore.rs,
\* batching_reduces_the_fault_count_exactly).
THEOREM BatchInvariant ==
    ASSUME Sequential, Touchers = {Main}, MainKeepsFd
    PROVE  Spec => []OneFaultPerBatch
  <1>1. WalkInv => OneFaultPerBatch
    <2> SUFFICES ASSUME WalkInv, at[Main] = N + 1, \A h \in Handlers : hpc[h] # "copy"
                 PROVE  faults = (N + Batch - 1) \div Batch /\ installed = N
      BY DEF OneFaultPerBatch
    <2>1. PICK q \in Nat : q = faults /\ q = Batches
      BY DEF WalkInv, Walked, Batches, Copying
    <2>2. PICK m \in Nat : m = q * Batch
      BY SizesAssumption
    <2>3. m < N + Batch /\ installed = (IF m < N THEN m ELSE N)
          /\ at[Main] \in 1 .. installed + 1
      BY <2>1, <2>2 DEF WalkInv, Walked
    <2>4. installed = N /\ N <= m
      BY <2>3, SizesAssumption
    <2>5. (N + Batch - 1) \div Batch = q
      BY <2>2, <2>3, <2>4, BatchCount, SizesAssumption
    <2> QED BY <2>1, <2>4, <2>5
  <1>2. Spec => []WalkInv
    BY WalkAlways DEF Walk
  <1> QED BY <1>1, <1>2, PTL

\* Nor does a copy of such a walk ever meet a page that is there, so that with
\* any batch no handler gives up (run_config, handler_loop's return on EAGAIN).
THEOREM WalkHandlersSurvive ==
    ASSUME Sequential, Touchers = {Main}, MainKeepsFd, ~MayFail
    PROVE  Spec => []HandlerSurvives
  <1>1. Init => HandlerSurvives
    BY DEF Init, HandlerSurvives
  <1>2. WakeInv /\ WalkInv /\ HandlerSurvives /\ [Next]_vars => HandlerSurvives'
    <2> SUFFICES ASSUME WakeInv, WalkInv, HandlerSurvives, [Next]_vars
                 PROVE  HandlerSurvives'
      OBVIOUS
    <2>1. Types
      BY DEF WakeInv
    <2>2. ASSUME NEW h \in Handlers, HandlerNext(h) PROVE HandlerSurvives'
      <3>1. ~CopyPartial(h) /\ ~ReadFails(h)
        <4>1. ASSUME hpc[h] = "copy", copied[h] \in 1 .. Run(h) - 1
              PROVE  mem[Target(h)] = Absent
          <5>1. Run(h) \in 1 .. N - installed /\ installed \in Nat
            BY <2>1, <4>1, CopyFinds DEF Walk
          <5>2. copied[h] < Run(h)
            BY <4>1, <5>1, SizesAssumption
          <5> QED BY <2>1, <4>1, <5>2, CopyFinds DEF Walk
        <4> QED BY <4>1 DEF CopyPartial, ReadFails
      <3> QED BY <2>1, <2>2, <3>1 DEF HandlerNext, LoopTop, Leave, ReadEvent, ReadNothing,
                 CopyPage, CopyDone, CopyExists, HandlerSurvives, Types
    <2>3. CASE (\E t \in Touchers : ToucherNext(t)) \/ MainNext \/ UNCHANGED vars
      BY <2>3 DEF ToucherNext, MainNext, Touch, Fault, ZeroFault, Reset, Stop, handlerVars,
         vars, HandlerSurvives
    <2> QED BY <2>2, <2>3 DEF Next
  <1>3. Spec => []WalkInv
    BY WalkAlways DEF Walk
  <1> QED BY <1>1, <1>2, <1>3, WakeAlways, PTL DEF Spec
=============================================================================

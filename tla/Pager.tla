-------------------------------- MODULE Pager -------------------------------
(***************************************************************************)
(* Demand paging with userfaultfd: threads that touch the pages of a       *)
(* registered region, the kernel that parks them, and handler threads that *)
(* install pages from a snapshot image                                     *)
(* (rung-03-uffd/toy-uffd-raw/src/main.rs and uffd.rs).                    *)
(*                                                                         *)
(* The kernel is external and modelled from how the code uses it.  A fault *)
(* on an absent page parks the thread and queues a message.  UFFDIO_COPY   *)
(* installs a run page by page and then wakes the threads parked in it; it *)
(* stops at a page that is already there, with EEXIST and no wake-up when  *)
(* that is the first page, and otherwise with EAGAIN after waking the part *)
(* it copied.  Closing the last descriptor unregisters the region: every   *)
(* thread is released, and an absent page is then filled with zeros.       *)
(***************************************************************************)
EXTENDS Integers

CONSTANTS
    N,             \* pages in the region
    Touchers,      \* threads that touch pages
    Main,          \* the one that resets the region and stops the handlers
    Handlers,      \* threads that run handler_loop
    Batch,         \* Handler.batch_pages
    Sequential,    \* TRUE: each toucher walks the pages in order (run_config);
                   \* FALSE: in any order (demo)
    MayFail,       \* a read from the descriptor may fail
    MainKeepsFd    \* main holds an Arc<Uffd> of its own (main.rs: TRUE;
                   \* tests/restore.rs moves the only one to the handler: FALSE)

ASSUME SizesAssumption == N \in Nat \ {0} /\ Batch \in Nat \ {0}
ASSUME ThreadsAssumption == Main \in Touchers
ASSUME ModesAssumption ==
    Sequential \in BOOLEAN /\ MayFail \in BOOLEAN /\ MainKeepsFd \in BOOLEAN

Pages == 1 .. N
None == 0          \* no page
Absent == -1       \* what an unbacked page holds
Zero == 0          \* what a page the kernel filled holds
                   \* page p of the image is the number p

VARIABLES
    mem,           \* page -> the image page it holds, Zero or Absent
    fd_open,       \* the region is registered with an open userfaultfd
    parked,        \* toucher -> the page it is parked on, or None
    queue,         \* touchers whose fault message has not been read; the
                   \* order in which they are is left open
    at,            \* toucher -> the page it touches next; N + 1 at the end
    got,           \* toucher -> the last page it read and what it held
    stop,          \* the stop flag
    hpc,           \* handler -> where it is
    fault,         \* handler -> the page of the message in hand
    copied,        \* handler -> pages its UFFDIO_COPY has installed
    faults,        \* HandlerStats.faults, since the last reset
    installed      \* HandlerStats.pages_installed, since the last reset

kernelVars == <<fd_open, parked, queue>>
touchVars == <<at, got>>
handlerVars == <<hpc, fault, copied, faults, installed>>
vars == <<mem, fd_open, parked, queue, at, got, stop, hpc, fault, copied, faults,
          installed>>

Init ==
    /\ mem = [p \in Pages |-> Absent]
    /\ fd_open = TRUE
    /\ parked = [t \in Touchers |-> None]
    /\ queue = {}
    /\ at \in [Touchers -> IF Sequential THEN {1} ELSE Pages]
    /\ got = [t \in Touchers |-> <<None, None>>]
    /\ stop = FALSE
    /\ hpc = [h \in Handlers |-> "loop"]
    /\ fault = [h \in Handlers |-> None]
    /\ copied = [h \in Handlers |-> 0]
    /\ faults = 0
    /\ installed = 0

-----------------------------------------------------------------------------
(***************************************************************************)
(* Threads that touch pages.                                               *)
(***************************************************************************)

\* Region::touch on a page that is there, and the walk moves on.
Touch(t) ==
    /\ at[t] \in Pages
    /\ parked[t] = None
    /\ mem[at[t]] # Absent
    /\ got' = [got EXCEPT ![t] = <<at[t], mem[at[t]]>>]
    /\ \E q \in IF Sequential THEN {at[t] + 1} ELSE 1 .. N + 1 :
          at' = [at EXCEPT ![t] = q]
    /\ UNCHANGED <<mem, kernelVars, stop, handlerVars>>

\* Region::touch on an absent page of the registered region (external).
Fault(t) ==
    /\ at[t] \in Pages
    /\ parked[t] = None
    /\ mem[at[t]] = Absent
    /\ fd_open
    /\ parked' = [parked EXCEPT ![t] = at[t]]
    /\ queue' = queue \cup {t}
    /\ UNCHANGED <<mem, fd_open, touchVars, stop, handlerVars>>

\* The same once the descriptor is closed (external): an ordinary zero page.
ZeroFault(t) ==
    /\ at[t] \in Pages
    /\ parked[t] = None
    /\ mem[at[t]] = Absent
    /\ ~fd_open
    /\ mem' = [mem EXCEPT ![at[t]] = Zero]
    /\ UNCHANGED <<kernelVars, touchVars, stop, handlerVars>>

\* Mutant of Reset: the length is one page short.
ResetShort ==
    /\ Touchers = {Main}
    /\ at[Main] = N + 1
    /\ ~stop
    /\ mem' = [p \in Pages |-> IF p = N THEN mem[p] ELSE Absent]
    /\ at' \in [Touchers -> IF Sequential THEN {1} ELSE Pages]
    /\ faults' = 0
    /\ installed' = 0
    /\ UNCHANGED <<kernelVars, got, stop, hpc, fault, copied>>

\* The next round of run_config: Region::reset throws every page away.  Main is
\* the only thread that touches pages there.
Reset ==
    /\ Touchers = {Main}
    /\ at[Main] = N + 1
    /\ ~stop
    /\ mem' = [p \in Pages |-> Absent]
    /\ at' \in [Touchers -> IF Sequential THEN {1} ELSE Pages]
    /\ faults' = 0
    /\ installed' = 0
    /\ UNCHANGED <<kernelVars, got, stop, hpc, fault, copied>>

\* The last round is over: main tells the handlers to stop, and joins them.
Stop ==
    /\ \A t \in Touchers : at[t] = N + 1
    /\ ~stop
    /\ stop' = TRUE
    /\ UNCHANGED <<mem, kernelVars, touchVars, handlerVars>>

-----------------------------------------------------------------------------
(***************************************************************************)
(* Handler threads.                                                        *)
(***************************************************************************)

Gone(h) == hpc[h] \in {"exited", "dead"}

\* Mutant of Leave: a reference to the descriptor is leaked.
LeaveLeaks(h, how) ==
    /\ hpc' = [hpc EXCEPT ![h] = how]
    /\ fd_open' = TRUE

\* The handlers' references to the descriptor go with them; the last one closes
\* it, unless main holds one too.
Leave(h, how) ==
    /\ hpc' = [hpc EXCEPT ![h] = how]
    /\ fd_open' = (MainKeepsFd \/ \E g \in Handlers \ {h} : ~Gone(g))

\* Mutant of LoopTop: does not look at the stop flag.
LoopTopForever(h) ==
    /\ hpc[h] = "loop"
    /\ hpc' = [hpc EXCEPT ![h] = "read"]
    /\ UNCHANGED <<mem, fd_open, parked, queue, touchVars, stop, fault, copied,
                   faults, installed>>

\* The head of handler_loop.
LoopTop(h) ==
    /\ hpc[h] = "loop"
    /\ IF stop THEN Leave(h, "exited")
       ELSE hpc' = [hpc EXCEPT ![h] = "read"] /\ UNCHANGED fd_open
    /\ UNCHANGED <<mem, parked, queue, touchVars, stop, fault, copied, faults,
                   installed>>

\* Mutant of ReadEvent: may take the message for another event and drop it.
ReadEventDrops(h) ==
    /\ hpc[h] = "read"
    /\ \E t \in queue : /\ fault' = [fault EXCEPT ![h] = parked[t]]
                        /\ queue' = queue \ {t}
    /\ copied' = [copied EXCEPT ![h] = 0]
    /\ faults' = faults + 1
    /\ \E pc \in {"copy", "loop"} : hpc' = [hpc EXCEPT ![h] = pc]
    /\ UNCHANGED <<mem, fd_open, parked, touchVars, stop, installed>>

\* read_event or read_event_spin with a message: the fault is counted.
ReadEvent(h) ==
    /\ hpc[h] = "read"
    /\ \E t \in queue : /\ fault' = [fault EXCEPT ![h] = parked[t]]
                        /\ queue' = queue \ {t}
    /\ copied' = [copied EXCEPT ![h] = 0]
    /\ faults' = faults + 1
    /\ hpc' = [hpc EXCEPT ![h] = "copy"]
    /\ UNCHANGED <<mem, fd_open, parked, touchVars, stop, installed>>

\* read_event with none: the poll timed out, or another handler took the message
\* first (EAGAIN).
ReadNothing(h) ==
    /\ hpc[h] = "read"
    /\ queue = {}
    /\ hpc' = [hpc EXCEPT ![h] = "loop"]
    /\ UNCHANGED <<mem, kernelVars, touchVars, stop, fault, copied, faults,
                   installed>>

\* Mutant of Run: answers every fault with one page.
RunOne(h) == 1

\* The run of pages a fault is answered with, clamped to the region.
Run(h) ==
    IF Batch < N - fault[h] + 1 THEN Batch ELSE N - fault[h] + 1

\* Mutant of Source: the image one page off.
SourceOff(h) == fault[h] + copied[h] - 1

\* The image page that belongs at the next page of the run.
Source(h) == fault[h] + copied[h]

\* The page UFFDIO_COPY comes to next.
Target(h) == fault[h] + copied[h]

\* Mutant of Woken: UFFDIO_COPY_MODE_DONTWAKE and no UFFDIO_WAKE after it.
WokenNone(h) == {}

\* The pages whose threads a copy wakes: those it installed.
Woken(h) == fault[h] .. fault[h] + copied[h] - 1

\* Threads parked in `pages` go on, and their unread messages are withdrawn.
Wake(pages) ==
    /\ parked' = [t \in Touchers |->
                    IF parked[t] \in pages THEN None ELSE parked[t]]
    /\ queue' = {t \in queue : parked[t] \notin pages}

\* Mutant of CopyPage: wakes as it goes instead of once per run.
CopyPageWakes(h) ==
    /\ hpc[h] = "copy"
    /\ copied[h] < Run(h)
    /\ mem[Target(h)] = Absent
    /\ mem' = [mem EXCEPT ![Target(h)] = Source(h)]
    /\ copied' = [copied EXCEPT ![h] = @ + 1]
    /\ Wake({Target(h)})
    /\ UNCHANGED <<fd_open, touchVars, stop, hpc, fault, faults, installed>>

\* UFFDIO_COPY installs one page of the run.
CopyPage(h) ==
    /\ hpc[h] = "copy"
    /\ copied[h] < Run(h)
    /\ mem[Target(h)] = Absent
    /\ mem' = [mem EXCEPT ![Target(h)] = Source(h)]
    /\ copied' = [copied EXCEPT ![h] = @ + 1]
    /\ UNCHANGED <<kernelVars, touchVars, stop, hpc, fault, faults, installed>>

\* UFFDIO_COPY has installed the whole run: it wakes, and the handler counts.
CopyDone(h) ==
    /\ hpc[h] = "copy"
    /\ copied[h] = Run(h)
    /\ Wake(Woken(h))
    /\ installed' = installed + copied[h]
    /\ hpc' = [hpc EXCEPT ![h] = "loop"]
    /\ fault' = [fault EXCEPT ![h] = None]
    /\ copied' = [copied EXCEPT ![h] = 0]
    /\ UNCHANGED <<mem, fd_open, touchVars, stop, faults>>

\* The first page of the run is there already: EEXIST, which Uffd::copy turns
\* into Ok(0).
CopyExists(h) ==
    /\ hpc[h] = "copy"
    /\ copied[h] = 0
    /\ mem[Target(h)] # Absent
    /\ hpc' = [hpc EXCEPT ![h] = "loop"]
    /\ fault' = [fault EXCEPT ![h] = None]
    /\ UNCHANGED <<mem, kernelVars, touchVars, stop, copied, faults, installed>>

\* A later page of the run is there already: the kernel wakes what it copied and
\* fails with EAGAIN, which Uffd::copy returns as an error; handler_loop returns.
CopyPartial(h) ==
    /\ hpc[h] = "copy"
    /\ copied[h] \in 1 .. Run(h) - 1
    /\ mem[Target(h)] # Absent
    /\ Leave(h, "dead")
    /\ IF fd_open' THEN Wake(Woken(h)) ELSE Wake(Pages)
    /\ fault' = [fault EXCEPT ![h] = None]
    /\ copied' = [copied EXCEPT ![h] = 0]
    /\ UNCHANGED <<mem, touchVars, stop, faults, installed>>

\* poll or read fails: handler_loop returns.
ReadFails(h) ==
    /\ MayFail
    /\ hpc[h] = "read"
    /\ Leave(h, "dead")
    /\ IF fd_open' THEN UNCHANGED <<parked, queue>> ELSE Wake(Pages)
    /\ UNCHANGED <<mem, touchVars, stop, fault, copied, faults, installed>>

-----------------------------------------------------------------------------
ToucherNext(t) == Touch(t) \/ Fault(t) \/ ZeroFault(t)
MainNext == Reset \/ Stop
HandlerNext(h) ==
    \/ LoopTop(h) \/ ReadEvent(h) \/ ReadNothing(h) \/ CopyPage(h)
    \/ CopyDone(h) \/ CopyExists(h) \/ CopyPartial(h) \/ ReadFails(h)

Next ==
    \/ \E t \in Touchers : ToucherNext(t)
    \/ MainNext
    \/ \E h \in Handlers : HandlerNext(h)

Spec == Init /\ [][Next]_vars

\* Every thread is scheduled; nobody is obliged to start another round.
FairSpec ==
    /\ Spec
    /\ \A t \in Touchers : WF_vars(ToucherNext(t))
    /\ \A h \in Handlers : WF_vars(HandlerNext(h))

-----------------------------------------------------------------------------
\* Every value a touch has returned is the one the snapshot image holds for that
\* page: no zero page and no page of another address (demo's "MISMATCH" check).
RestoredContent == \A t \in Touchers : got[t][2] = got[t][1]

\* A touch returns what the image holds for its page, or the zero a kernel
\* without a handler fills it with, and the latter only once the descriptor is
\* closed: "silent corruption" has that one cause (Uffd::new).
ZeroOnlyWhenClosed ==
    \A t \in Touchers :
        got[t][2] = got[t][1] \/ (got[t][2] = Zero /\ ~fd_open)

\* No wake-up is lost: a thread is parked on a page that is there only while the
\* copy that installed the page has yet to wake it, though EEXIST wakes nobody
\* (Uffd::copy).
NoLostWake ==
    \A t \in Touchers :
        parked[t] # None /\ mem[parked[t]] # Absent =>
            \E h \in Handlers : /\ hpc[h] = "copy"
                                /\ parked[t] \in fault[h] .. fault[h] + copied[h] - 1

\* When every touch of a walk has returned, no handler is still installing
\* pages, so that the reset between two rounds cannot race one (run_config:
\* "Resetting here cannot race the handler").
ResetIsQuiet ==
    (\A t \in Touchers : at[t] = N + 1) => \A h \in Handlers : hpc[h] # "copy"

\* A sequential walk costs one fault per batch, and installs every page once
\* (tests/restore.rs, batching_reduces_the_fault_count_exactly).
OneFaultPerBatch ==
    at[Main] = N + 1 /\ (\A h \in Handlers : hpc[h] # "copy") =>
        /\ faults = (N + Batch - 1) \div Batch
        /\ installed = N

\* No handler thread gives up: finding a page already installed "is normal with
\* several handler threads and must not abort the handler" (Uffd::copy).
HandlerSurvives == \A h \in Handlers : hpc[h] # "dead"

\* A thread that faults gets its page in the end.
EveryTouchReturns == \A t \in Touchers : parked[t] # None ~> parked[t] = None

\* Once told to stop, every handler thread ends, so that main's join returns.
HandlersStop == stop ~> \A h \in Handlers : Gone(h)
=============================================================================

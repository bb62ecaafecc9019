------------------------------- MODULE Restore -------------------------------
(***************************************************************************)
(* The demos of rung 3, toy-uffd-raw and toy-uffd-crates: a miniature      *)
(* snapshot restore.  main opens a userfaultfd, starts one handler thread, *)
(* touches pages in a scattered order, compares what it reads with the     *)
(* image and gives a verdict.                                              *)
(*                                                                         *)
(* The programs differ in who holds the descriptor and in how the handler  *)
(* waits.  raw: main keeps an Arc<Uffd>, the handler polls with a timeout  *)
(* and is joined.  crates: the handler owns the only Uffd and blocks in    *)
(* read_event, and is never joined.  A page is answered by itself, and one *)
(* thread touches; Pager has the batches and the many threads.             *)
(*                                                                         *)
(* The kernel and the userfaultfd crate are external.  A fault parks main; *)
(* when the last descriptor is closed every fault, outstanding or later,   *)
(* is resolved with a zero page.                                           *)
(***************************************************************************)
EXTENDS Integers, Sequences, FiniteSets

CONSTANT Faulty     \* system calls of main's set-up and of the handler may fail

ASSUME FaultyAssumption == Faulty \in BOOLEAN

\* The pages touched, by both programs: eight touches of six pages.
Order == <<7, 0, 63, 31, 7, 32, 1, 31>>
Pages == {Order[k] : k \in DOMAIN Order}

\* What a page can hold.  Page p of the image is filled with byte p, so that a
\* page of zeros reads like page 0.
Absent == -1
Zeros == -2
Byte(content) == IF content = Zeros THEN 0 ELSE content

VARIABLES
    program,        \* "raw" or "crates"
    pc,             \* main: where it is
    non_blocking,   \* the descriptor has O_NONBLOCK
    next,           \* main: the touch it is at
    ok,             \* main: every byte so far was the image's
    verdict,        \* "none", "ok" or "failed"
    stop,           \* the stop flag
    mem,            \* page -> what it holds
    fd_open,
    message,        \* the page of the unread fault message, or Absent
    hpc,            \* handler: where it is
    fault,          \* handler: the page it answers
    faults,         \* faults counted
    broken          \* history: a system call has failed

kernelVars == <<mem, fd_open, message>>
demoVars == <<pc, non_blocking, next, ok, verdict, stop>>
handlerVars == <<hpc, fault, faults>>
restoreVars == <<program, demoVars, kernelVars, handlerVars, broken>>

RestoreInit ==
    /\ program \in {"raw", "crates"}
    /\ pc = IF program = "raw" THEN "syscall" ELSE "builder"
    /\ non_blocking = FALSE
    /\ next = 1
    /\ ok = TRUE
    /\ verdict = "none"
    /\ stop = FALSE
    /\ mem = [p \in Pages |-> Absent]
    /\ fd_open = FALSE
    /\ message = Absent
    /\ hpc = "none"
    /\ fault = Absent
    /\ faults = 0
    /\ broken = FALSE

-----------------------------------------------------------------------------
(***************************************************************************)
(* Opening the descriptor.                                                 *)
(***************************************************************************)

\* A step of main that returns an error to its caller.
GiveUp ==
    /\ verdict' = "failed"
    /\ pc' = "end"

\* UffdBuilder::create (external): it may succeed, be refused
\* /dev/userfaultfd, which open_uffd answers with the raw code, or fail.
Builder ==
    /\ pc = "builder"
    /\ \/ pc' = "map" /\ fd_open' = TRUE /\ UNCHANGED <<verdict, broken>>
       \/ pc' = "syscall" /\ UNCHANGED <<fd_open, verdict, broken>>
       \/ Faulty /\ GiveUp /\ broken' = TRUE /\ UNCHANGED fd_open
    /\ UNCHANGED <<program, non_blocking, next, ok, stop, mem, message,
                   handlerVars>>

\* Mutant of NonBlocking: toy-uffd-crates asks for what toy-uffd-raw needs.
NonBlockingBoth == TRUE

\* What each caller of Uffd::new asks for.
NonBlocking == program = "raw"

\* Uffd::new, the system calls: the plain one, and on EPERM the restricted one.
Syscall ==
    /\ pc \in {"syscall", "restricted"}
    /\ \/ pc' = "handshake" /\ UNCHANGED <<verdict, broken>>
       \/ pc = "syscall" /\ pc' = "restricted" /\ UNCHANGED <<verdict, broken>>
       \/ Faulty /\ GiveUp /\ broken' = TRUE
    /\ UNCHANGED <<program, non_blocking, next, ok, stop, kernelVars,
                   handlerVars>>

\* Uffd::new, UFFDIO_API.
Handshake ==
    /\ pc = "handshake"
    /\ non_blocking' = NonBlocking
    /\ \/ pc' = "map" /\ fd_open' = TRUE /\ UNCHANGED <<verdict, broken>>
       \/ Faulty /\ GiveUp /\ broken' = TRUE /\ UNCHANGED fd_open
    /\ UNCHANGED <<program, next, ok, stop, mem, message, handlerVars>>

\* The region is mapped and registered, and the handler is started.
MapAndRegister ==
    /\ pc = "map"
    /\ \/ pc' = "touch" /\ hpc' = "loop" /\ UNCHANGED <<verdict, broken>>
       \/ Faulty /\ GiveUp /\ broken' = TRUE /\ UNCHANGED hpc
    /\ UNCHANGED <<program, non_blocking, next, ok, stop, kernelVars, fault,
                   faults>>

-----------------------------------------------------------------------------
(***************************************************************************)
(* main's touches and verdict.                                             *)
(***************************************************************************)
Page == Order[next]

\* A touch of an absent page (external): main parks and a message is queued, or
\* the page becomes a zero page, if the descriptor has been closed.
Fault ==
    /\ pc = "touch"
    /\ mem[Page] = Absent
    /\ IF fd_open
         THEN pc' = "parked" /\ message' = Page /\ UNCHANGED mem
         ELSE mem' = [mem EXCEPT ![Page] = Zeros] /\ UNCHANGED <<pc, message>>
    /\ UNCHANGED <<program, non_blocking, next, ok, verdict, stop, fd_open,
                   handlerVars, broken>>

\* The byte read is the one the image has at this page.
Matched == Byte(mem[Page]) = Page

\* Mutant of StillOk: `ok = matched`, so that the last touch decides.
StillOkLast == Matched

\* Every byte read has been the image's: `ok &= matched`.
StillOk == ok /\ Matched

\* A touch of a page that is there: raw's demo stops at the first mismatch,
\* toy-uffd-crates goes on.
Touch ==
    /\ pc = "touch"
    /\ mem[Page] # Absent
    /\ ok' = StillOk
    /\ IF (program = "raw" /\ ~Matched) \/ next = Len(Order)
         THEN pc' = "stop" /\ UNCHANGED next
         ELSE next' = next + 1 /\ UNCHANGED pc
    /\ UNCHANGED <<program, non_blocking, verdict, stop, kernelVars,
                   handlerVars, broken>>


\* The stop flag; raw's main goes on to join the handler, toy-uffd-crates's
\* detaches it.
Stop ==
    /\ pc = "stop"
    /\ stop' = TRUE
    /\ pc' = IF program = "raw" THEN "join" ELSE "check"
    /\ UNCHANGED <<program, non_blocking, next, ok, verdict, kernelVars,
                   handlerVars, broken>>

Gone == hpc \in {"exited", "dead"}

Join ==
    /\ pc = "join"
    /\ Gone
    /\ pc' = "check"
    /\ UNCHANGED <<program, non_blocking, next, ok, verdict, stop, kernelVars,
                   handlerVars, broken>>

\* What a demo must see to call the restore right: the image's bytes, and one
\* fault for each distinct page.
Accepted == ok /\ faults = Cardinality(Pages)

Check ==
    /\ pc = "check"
    /\ verdict' = IF Accepted THEN "ok" ELSE "failed"
    /\ pc' = "end"
    /\ UNCHANGED <<program, non_blocking, next, ok, stop, kernelVars,
                   handlerVars, broken>>

-----------------------------------------------------------------------------
(***************************************************************************)
(* The handler.                                                            *)
(***************************************************************************)

\* The thread ends, and its reference to the descriptor with it.  In
\* toy-uffd-crates that is the only one: it is closed, main is released and its
\* message withdrawn.
Leave(how) ==
    /\ hpc' = how
    /\ IF program = "crates"
         THEN /\ fd_open' = FALSE
              /\ message' = Absent
              /\ pc' = IF pc = "parked" THEN "touch" ELSE pc
         ELSE UNCHANGED <<fd_open, message, pc>>

LoopTop ==
    /\ hpc = "loop"
    /\ IF stop THEN Leave("exited")
               ELSE hpc' = "read" /\ UNCHANGED <<fd_open, message, pc>>
    /\ UNCHANGED <<program, non_blocking, next, ok, verdict, stop, mem, fault,
                   faults, broken>>

\* A fault message: counted, then answered.
ReadEvent ==
    /\ hpc = "read"
    /\ message # Absent
    /\ fault' = message
    /\ message' = Absent
    /\ faults' = faults + 1
    /\ hpc' = "copy"
    /\ UNCHANGED <<program, demoVars, mem, fd_open, broken>>

\* No message.  raw's poll times out, and the loop goes round.  A read of the
\* crate blocks, unless the descriptor does not: then it returns None, which
\* toy-uffd-crates's handler takes for the end of the file.
ReadNothing ==
    /\ hpc = "read"
    /\ message = Absent
    /\ \/ /\ program = "raw"
          /\ hpc' = "loop"
          /\ UNCHANGED <<fd_open, message, pc>>
       \/ /\ program = "crates"
          /\ non_blocking
          /\ Leave("exited")
    /\ UNCHANGED <<program, non_blocking, next, ok, verdict, stop, mem, fault,
                   faults, broken>>

\* UFFDIO_COPY of the page, which wakes main (external).
Copy ==
    /\ hpc = "copy"
    /\ mem' = [mem EXCEPT ![fault] = fault]
    /\ pc' = IF pc = "parked" THEN "touch" ELSE pc
    /\ hpc' = "loop"
    /\ fault' = Absent
    /\ UNCHANGED <<program, non_blocking, next, ok, verdict, stop, fd_open,
                   message, faults, broken>>

\* The read or the copy fails: handler_loop returns, the crate's handler returns
\* or panics.
HandlerFails ==
    /\ Faulty
    /\ hpc \in {"read", "copy"}
    /\ Leave("dead")
    /\ fault' = Absent
    /\ broken' = TRUE
    /\ UNCHANGED <<program, non_blocking, next, ok, verdict, stop, mem, faults>>

-----------------------------------------------------------------------------
Open == Builder \/ Syscall \/ Handshake \/ MapAndRegister
Main == Open \/ Fault \/ Touch \/ Stop \/ Join \/ Check

\* The process, and its handler with it, ends when main does.
Handler == pc # "end" /\ (LoopTop \/ ReadEvent \/ ReadNothing \/ Copy)
Failure == pc # "end" /\ HandlerFails

RestoreNext == Main \/ Handler \/ Failure

\* Both threads are scheduled; nothing is obliged to fail.
RestoreFairness == WF_restoreVars(Main) /\ WF_restoreVars(Handler)

-----------------------------------------------------------------------------
\* A restore that is called right is right: every page touched holds the image's
\* content.  A handler that dies early leaves pages of zeros, and page 0 of the
\* image reads like one, so this rests on the bytes and on the order of the
\* touches together: page 0 is not the last that is touched
\* (toy-uffd-crates/src/main.rs: "the failure mode is not a hang"; toy-uffd-raw's
\* demo).
OkMeansRestored == verdict = "ok" => \A p \in Pages : mem[p] = p

\* A demo that fails has been failed by the system: no interleaving of the two
\* threads, of the stop flag and of the detached or joined handler makes a good
\* restore look bad, and none reads an empty descriptor as its end (Uffd::new:
\* "getting it wrong is silent and severe").
FailureHasACause == verdict = "failed" => broken
=============================================================================

------------------------------ MODULE Placement ------------------------------
(***************************************************************************)
(* The placement sweep of rung 3 (toy-uffd-raw, bench_all and              *)
(* topology.rs): which CPU the fault handler of each configuration is      *)
(* pinned to, and what the row it produces says.                           *)
(*                                                                         *)
(* The machine is external: the physical core of each CPU, and the CPUs    *)
(* that are online.  It has one package, as topology.rs assumes, and sysfs *)
(* has no topology for an offline CPU.  The walk of a row, which Pager     *)
(* models, is one step here.                                               *)
(***************************************************************************)
EXTENDS Integers, Sequences, FiniteSets, SequencesExt

CONSTANTS
    NCpus,         \* CPUs of the machine
    AllOnline      \* no CPU of it is offline

ASSUME CpusAssumption == NCpus \in Nat \ {0} /\ AllOnline \in BOOLEAN

Cpus == 0 .. NCpus - 1
None == -1         \* no CPU, or an attribute that cannot be read

FAULTER_CPU == 0
Placements == {"other_core", "smt_sibling", "same_cpu"}

VARIABLES
    machine,       \* core_id and online; fixed once looked at
    reverse,       \* --reverse
    bench,         \* where bench_all is
    main_cpus,     \* the CPUs main may run on
    handler_cpus,  \* the CPUs the handler of this configuration may run on
    handler,       \* "none", "new" or "loop"
    configs,       \* the configurations to come, the current one first
    rows           \* what has been measured

placementVars == <<machine, reverse, bench, main_cpus, handler_cpus, handler,
                   configs, rows>>

Unknown == [core_id |-> <<>>, online |-> {}]

PlacementInit ==
    /\ machine = Unknown
    /\ reverse \in BOOLEAN
    /\ bench = "off"
    /\ main_cpus = {}
    /\ handler_cpus = {}
    /\ handler = "none"
    /\ configs = <<>>
    /\ rows = <<>>

-----------------------------------------------------------------------------
(***************************************************************************)
(* The machine, and what topology.rs makes of it.                          *)
(***************************************************************************)

\* bench_all is called, on some machine (external).
Begin ==
    /\ bench = "off"
    /\ \E core_id \in [Cpus -> Cpus],
          online \in IF AllOnline THEN {Cpus} ELSE SUBSET Cpus \ {{}} :
         /\ machine' = [core_id |-> core_id, online |-> online]
         /\ main_cpus' = online
    /\ bench' = "pin"
    /\ UNCHANGED <<reverse, handler_cpus, handler, configs, rows>>

\* The physical core of a CPU (external).
Core(c) == machine.core_id[c]

\* sysfs: thread_siblings_list and core_id (external).
ThreadSiblings(c) == {d \in machine.online : Core(d) = Core(c)}
ReadCoreId(c) == IF c \in machine.online THEN machine.core_id[c] ELSE None

\* find over CPUs in ascending order.
First(S) == IF S = {} THEN None ELSE CHOOSE c \in S : \A d \in S : c <= d

\* Mutant of NumCpus: the last CPU's number, taken for their count.
NumCpusOffByOne == Cardinality(machine.online) - 1

\* num_cpus: _SC_NPROCESSORS_ONLN.
NumCpus == Cardinality(machine.online)

\* Topology::detect.
SmtSibling == First(ThreadSiblings(FAULTER_CPU) \ {FAULTER_CPU})
OtherCore ==
    First({c \in 0 .. NumCpus - 1 :
              /\ c # FAULTER_CPU
              /\ c # SmtSibling
              /\ ReadCoreId(c) # ReadCoreId(FAULTER_CPU)})

CpuFor(p) == CASE p = "same_cpu" -> FAULTER_CPU
               [] p = "smt_sibling" -> SmtSibling
               [] p = "other_core" -> OtherCore

\* What sched_setaffinity to one CPU leaves a thread with (external): a CPU that
\* is offline is refused, and changes nothing.
PinTo(cpu, cpus) == IF cpu \in machine.online THEN {cpu} ELSE cpus

-----------------------------------------------------------------------------
(***************************************************************************)
(* bench_all and run_config.                                               *)
(***************************************************************************)
Config(p, batch, spin) ==
    [placement |-> p, cpu |-> CpuFor(p), batch |-> batch, spin |-> spin]

\* Nothing for a placement the machine does not offer.
Pair(p) ==
    IF CpuFor(p) = None THEN <<>>
    ELSE <<Config(p, 1, FALSE), Config(p, 1, TRUE)>>

Baseline == [placement |-> "no_uffd", cpu |-> None, batch |-> 0, spin |-> FALSE]

Batches ==
    IF OtherCore = None THEN <<>>
    ELSE [k \in 1 .. 5 |-> Config("other_core", <<2, 4, 8, 16, 64>>[k], FALSE)]

Configs ==
    <<Baseline>> \o Pair("other_core") \o Pair("smt_sibling") \o Pair("same_cpu")
      \o Batches

\* pin_to(FAULTER_CPU)?
PinFaulter ==
    /\ bench = "pin"
    /\ main_cpus' = PinTo(FAULTER_CPU, main_cpus)
    /\ bench' = IF FAULTER_CPU \in machine.online THEN "detect" ELSE "failed"
    /\ UNCHANGED <<machine, reverse, handler_cpus, handler, configs, rows>>

\* Topology::detect, and the list of configurations.
Detect ==
    /\ bench = "detect"
    /\ configs' = IF reverse THEN Reverse(Configs) ELSE Configs
    /\ bench' = "sweep"
    /\ UNCHANGED <<machine, reverse, main_cpus, handler_cpus, handler, rows>>

\* The row of the configuration at hand and, beside it, as the model's own
\* observation, the CPUs both threads were left on.
Row(h) == [config |-> Head(configs), faulter |-> main_cpus, handler |-> h]

Measured(h) ==
    /\ rows' = Append(rows, Row(h))
    /\ configs' = Tail(configs)

\* run_config without userfaultfd.
MeasureBaseline ==
    /\ bench = "sweep"
    /\ configs # <<>>
    /\ Head(configs) = Baseline
    /\ Measured({})
    /\ UNCHANGED <<machine, reverse, bench, main_cpus, handler_cpus, handler>>

\* Mutant of SpawnHandler: the handler's CPU is set from main.
SpawnHandlerPinned ==
    /\ bench = "sweep"
    /\ configs # <<>>
    /\ Head(configs).cpu # None
    /\ handler' = "new"
    /\ main_cpus' = PinTo(Head(configs).cpu, main_cpus)
    /\ handler_cpus' = main_cpus'
    /\ bench' = "walk"
    /\ UNCHANGED <<machine, reverse, configs, rows>>

\* run_config with it: the handler thread starts with main's CPUs (external).
SpawnHandler ==
    /\ bench = "sweep"
    /\ configs # <<>>
    /\ Head(configs).cpu # None
    /\ handler' = "new"
    /\ handler_cpus' = main_cpus
    /\ bench' = "walk"
    /\ UNCHANGED <<machine, reverse, main_cpus, configs, rows>>

\* The handler pins itself; it goes on if it cannot.
PinHandler ==
    /\ handler = "new"
    /\ handler_cpus' = PinTo(Head(configs).cpu, handler_cpus)
    /\ handler' = "loop"
    /\ UNCHANGED <<machine, reverse, bench, main_cpus, configs, rows>>

\* The walk, whose faults are answered once the handler is in its loop; main stops
\* and joins it.
Walk ==
    /\ bench = "walk"
    /\ handler = "loop"
    /\ Measured(handler_cpus)
    /\ handler' = "none"
    /\ handler_cpus' = {}
    /\ bench' = "sweep"
    /\ UNCHANGED <<machine, reverse, main_cpus>>

\* A system call of run_config fails: `?` ends the sweep, and no row is printed.
BenchFails ==
    /\ bench \in {"sweep", "walk"}
    /\ configs # <<>>
    /\ bench' = "failed"
    /\ UNCHANGED <<machine, reverse, main_cpus, handler_cpus, handler, configs,
                   rows>>

\* The table is printed.
Report ==
    /\ bench = "sweep"
    /\ configs = <<>>
    /\ bench' = "done"
    /\ UNCHANGED <<machine, reverse, main_cpus, handler_cpus, handler, configs,
                   rows>>

BenchOver == bench \in {"done", "failed"}

PlacementNext ==
    \/ Begin \/ PinFaulter \/ Detect \/ MeasureBaseline \/ SpawnHandler
    \/ PinHandler \/ Walk \/ BenchFails \/ Report

-----------------------------------------------------------------------------
\* What a placement means of the CPU of the faulting thread and the handler's.
Stands(p, f, h) ==
    CASE p = "same_cpu" -> h = f
      [] p = "smt_sibling" -> h # f /\ Core(h) = Core(f)
      [] p = "other_core" -> Core(h) # Core(f)

\* Every row was measured where its label says, whatever CPUs the two threads
\* were left on: no other placement is substituted and "labell[ed] as though it
\* were the thing asked for" (Topology::detect).
RowsAreWhatTheySay ==
    \A k \in DOMAIN rows :
        rows[k].config.placement \in Placements =>
            \A f \in rows[k].faulter, h \in rows[k].handler :
                Stands(rows[k].config.placement, f, h)

\* A sweep that completes has measured every placement the machine has, once
\* with poll and once spinning, and whatever the order (bench_all: what is
\* skipped is "not available on this machine").
EveryPlacementMeasured ==
    bench = "done" =>
        \A p \in Placements, spin \in BOOLEAN :
            (\E c \in machine.online : Stands(p, FAULTER_CPU, c)) =>
                \E k \in DOMAIN rows : /\ rows[k].config.placement = p
                                       /\ rows[k].config.spin = spin
=============================================================================

--------------------------- MODULE UffdMainProofs ---------------------------
(***************************************************************************)
(* Theorems about UffdMain: the placement sweep on a machine with any      *)
(* number of CPUs and any map of them to cores.                            *)
(***************************************************************************)
EXTENDS UffdMain, SequenceTheorems, FiniteSetTheorems, WellFoundedInduction,
        TLAPS

\* The first CPU of a set is one of it.
LEMMA FirstIsOne ==
    ASSUME NEW S \in SUBSET Nat
    PROVE  /\ S = {} => First(S) = None
           /\ S # {} => First(S) \in S
  <1>1. ASSUME S # {} PROVE \E c \in S : \A d \in S : c <= d
    <2>1. \E c \in S : \A d \in S : ~(<<d, c>> \in OpToRel(<, Nat))
      BY <1>1, NatLessThanWellFounded, WFMin
    <2>2. PICK c \in S : \A d \in S : ~(<<d, c>> \in OpToRel(<, Nat))
      BY <2>1
    <2>3. \A d \in S : ~(d < c)
      BY <2>2 DEF OpToRel
    <2> QED BY <2>3
  <1> QED BY <1>1 DEF First

-----------------------------------------------------------------------------
\* Every CPU is online.
Known == machine.online = Cpus

\* With all of them online the count is a bound on their numbers.
LEMMA CountIsBound ==
    ASSUME Known
    PROVE  0 .. NumCpus - 1 = Cpus /\ FAULTER_CPU \in Cpus
  <1>1. NCpus \in Nat \ {0}
    BY CpusAssumption
  <1>2. Cardinality(0 .. NCpus - 1) = NCpus
    BY <1>1, FS_Interval
  <1> QED BY <1>1, <1>2 DEF Known, NumCpus, Cpus, FAULTER_CPU

\* What Topology::detect takes for a sibling is one, and it finds one if there
\* is one.
LEMMA SiblingFound ==
    ASSUME Known
    PROVE  /\ SmtSibling # None =>
                 SmtSibling \in Cpus /\ Stands("smt_sibling", FAULTER_CPU, SmtSibling)
           /\ \A c \in Cpus : Stands("smt_sibling", FAULTER_CPU, c) => SmtSibling # None
           /\ SmtSibling \in Cpus \cup {None}
  <1> DEFINE S == ThreadSiblings(FAULTER_CPU) \ {FAULTER_CPU}
  <1>1. S \in SUBSET Cpus /\ Cpus \in SUBSET Nat
    BY DEF ThreadSiblings, Known, Cpus
  <1>2. \A c \in Cpus : c \in S <=> Stands("smt_sibling", FAULTER_CPU, c)
    BY DEF ThreadSiblings, Known, Stands
  <1>3. SmtSibling = First(S)
    BY DEF SmtSibling
  <1>4. \A c \in Cpus : c # None
    BY <1>1 DEF None
  <1> HIDE DEF S
  <1>5. (S = {} => SmtSibling = None) /\ (S # {} => SmtSibling \in S)
    BY <1>1, <1>3, FirstIsOne
  <1> QED BY <1>1, <1>2, <1>4, <1>5

\* So is what it takes for a CPU of another core.
LEMMA OtherCoreFound ==
    ASSUME Known
    PROVE  /\ OtherCore # None =>
                 OtherCore \in Cpus /\ Stands("other_core", FAULTER_CPU, OtherCore)
           /\ \A c \in Cpus : Stands("other_core", FAULTER_CPU, c) => OtherCore # None
           /\ OtherCore \in Cpus \cup {None}
  <1> DEFINE S == {c \in 0 .. NumCpus - 1 :
                     /\ c # FAULTER_CPU
                     /\ c # SmtSibling
                     /\ ReadCoreId(c) # ReadCoreId(FAULTER_CPU)}
  <1>1. 0 .. NumCpus - 1 = Cpus /\ FAULTER_CPU \in Cpus /\ Cpus \in SUBSET Nat
    BY CountIsBound DEF Cpus
  <1>2. \A c \in Cpus : ReadCoreId(c) = Core(c)
    BY DEF ReadCoreId, Known, Core
  <1>3. \A c \in S : Stands("other_core", FAULTER_CPU, c)
    <2>1. \A c \in S : Core(c) # Core(FAULTER_CPU)
      BY <1>1, <1>2
    <2> QED BY <2>1 DEF Stands
  <1>4. ASSUME NEW c \in Cpus, Stands("other_core", FAULTER_CPU, c)
        PROVE  c \in S
    <2>1. Core(c) # Core(FAULTER_CPU)
      BY <1>4 DEF Stands
    <2>2. c # FAULTER_CPU
      BY <2>1
    <2>3. c # SmtSibling
      <3>1. CASE SmtSibling = None
        BY <1>1, <3>1 DEF None
      <3>2. CASE SmtSibling # None
        <4>1. Core(SmtSibling) = Core(FAULTER_CPU)
          BY <3>2, SiblingFound DEF Stands
        <4> QED BY <2>1, <4>1
      <3> QED BY <3>1, <3>2
    <2> QED BY <1>1, <1>2, <2>1, <2>2, <2>3
  <1>5. OtherCore = First(S) /\ S \in SUBSET Cpus
    BY <1>1 DEF OtherCore
  <1>6. \A c \in Cpus : c # None
    BY <1>1 DEF None
  <1> HIDE DEF S
  <1>7. (S = {} => OtherCore = None) /\ (S # {} => OtherCore \in S)
    BY <1>1, <1>5, FirstIsOne
  <1> QED BY <1>1, <1>3, <1>4, <1>5, <1>6, <1>7

\* A placement the machine offers stands for what it says, and one it has is
\* offered.
LEMMA CpuForStands ==
    ASSUME Known, NEW p \in Placements
    PROVE  /\ CpuFor(p) \in Cpus \cup {None}
           /\ CpuFor(p) # None => Stands(p, FAULTER_CPU, CpuFor(p))
           /\ \A c \in Cpus : Stands(p, FAULTER_CPU, c) => CpuFor(p) # None
  <1>1. CASE p = "same_cpu"
    <2>1. CpuFor(p) = FAULTER_CPU /\ FAULTER_CPU \in Cpus /\ FAULTER_CPU # None
      BY <1>1, CountIsBound DEF CpuFor, FAULTER_CPU, None
    <2> QED BY <1>1, <2>1 DEF Stands
  <1>2. CASE p = "smt_sibling"
    <2>1. CpuFor(p) = SmtSibling
      BY <1>2 DEF CpuFor
    <2> QED BY <1>2, <2>1, SiblingFound
  <1>3. CASE p = "other_core"
    <2>1. CpuFor(p) = OtherCore
      BY <1>3 DEF CpuFor
    <2> QED BY <1>3, <2>1, OtherCoreFound
  <1> QED BY <1>1, <1>2, <1>3 DEF Placements

-----------------------------------------------------------------------------
AConfig == [placement : Placements \cup {"no_uffd"}, cpu : Cpus \cup {None},
            batch : Nat, spin : BOOLEAN]

\* Configurations whose CPU is the one found for their placement.
RightConfigs ==
    {c \in AConfig :
        c.placement \in Placements => c.cpu = CpuFor(c.placement) /\ c.cpu # None}

\* A list has a configuration for this placement and way of waiting.
Has(s, p, spin) == \E k \in DOMAIN s : s[k].placement = p /\ s[k].spin = spin

\* Joining lists loses nothing.
LEMMA HasConcat ==
    ASSUME NEW S, NEW s \in Seq(S), NEW t \in Seq(S), NEW p, NEW spin,
           Has(s, p, spin) \/ Has(t, p, spin)
    PROVE  Has(s \o t, p, spin)
  <1>1. /\ DOMAIN s = 1 .. Len(s) /\ Len(s) \in Nat
        /\ DOMAIN t = 1 .. Len(t) /\ Len(t) \in Nat
        /\ DOMAIN (s \o t) = 1 .. Len(s) + Len(t)
        /\ \A i \in 1 .. Len(s) + Len(t) :
              (s \o t)[i] = IF i <= Len(s) THEN s[i] ELSE t[i - Len(s)]
    BY ConcatProperties, LenProperties
  <1>2. CASE Has(s, p, spin)
    <2>1. PICK k \in 1 .. Len(s) : s[k].placement = p /\ s[k].spin = spin
      BY <1>1, <1>2 DEF Has
    <2>2. k \in 1 .. Len(s) + Len(t) /\ (s \o t)[k] = s[k]
      BY <1>1
    <2> QED BY <1>1, <2>1, <2>2 DEF Has
  <1>3. CASE Has(t, p, spin)
    <2>1. PICK k \in 1 .. Len(t) : t[k].placement = p /\ t[k].spin = spin
      BY <1>1, <1>3 DEF Has
    <2>2. k + Len(s) \in 1 .. Len(s) + Len(t) /\ (s \o t)[k + Len(s)] = t[k]
      BY <1>1
    <2> QED BY <1>1, <2>1, <2>2 DEF Has
  <1> QED BY <1>2, <1>3

\* Nor does turning a list round.
LEMMA HasReverse ==
    ASSUME NEW S, NEW s \in Seq(S)
    PROVE  /\ Reverse(s) \in Seq(S)
           /\ \A p, spin : Has(s, p, spin) => Has(Reverse(s), p, spin)
  <1>1. DOMAIN s = 1 .. Len(s) /\ Len(s) \in Nat /\ \A i \in 1 .. Len(s) : s[i] \in S
    BY LenProperties, ElementOfSeq
  <1>2. \A i \in 1 .. Len(s) : (Len(s) - i) + 1 \in 1 .. Len(s)
    BY <1>1
  <1>3. Reverse(s) \in [1 .. Len(s) -> S]
    BY <1>1, <1>2 DEF Reverse
  <1>4. Reverse(s) \in Seq(S)
    BY <1>1, <1>3
  <1>5. ASSUME NEW p, NEW spin, Has(s, p, spin) PROVE Has(Reverse(s), p, spin)
    <2>1. PICK k \in 1 .. Len(s) : s[k].placement = p /\ s[k].spin = spin
      BY <1>1, <1>5 DEF Has
    <2> DEFINE m == (Len(s) - k) + 1
    <2>2. m \in 1 .. Len(s) /\ (Len(s) - m) + 1 = k
      BY <1>1
    <2>3. Reverse(s)[m] = s[k]
      BY <2>2 DEF Reverse
    <2> HIDE DEF m
    <2> QED BY <1>3, <2>1, <2>2, <2>3 DEF Has
  <1> QED BY <1>4, <1>5

\* A pair is a list.
LEMMA PairIsSeq ==
    ASSUME NEW S, NEW a \in S, NEW b \in S
    PROVE  /\ <<a, b>> \in Seq(S) /\ DOMAIN <<a, b>> = 1 .. 2
           /\ <<a, b>>[1] = a /\ <<a, b>>[2] = b
  OBVIOUS

\* The configurations of one placement, none if the machine has it not.
LEMMA PairRight ==
    ASSUME Known, NEW p \in Placements
    PROVE  /\ Pair(p) \in Seq(RightConfigs)
           /\ CpuFor(p) # None => \A spin \in BOOLEAN : Has(Pair(p), p, spin)
  <1>1. CASE CpuFor(p) = None
    BY <1>1 DEF Pair
  <1>2. CASE CpuFor(p) # None
    <2>1. CpuFor(p) \in Cpus \cup {None}
      BY CpuForStands
    <2>2. \A spin \in BOOLEAN : Config(p, 1, spin) \in RightConfigs
      BY <1>2, <2>1 DEF Config, RightConfigs, AConfig
    <2>3. Pair(p) = <<Config(p, 1, FALSE), Config(p, 1, TRUE)>>
      BY <1>2 DEF Pair
    <2>4. Pair(p) \in Seq(RightConfigs) /\ DOMAIN Pair(p) = 1 .. 2
          /\ Pair(p)[1] = Config(p, 1, FALSE) /\ Pair(p)[2] = Config(p, 1, TRUE)
      <3> DEFINE a == Config(p, 1, FALSE)
                 b == Config(p, 1, TRUE)
      <3>1. a \in RightConfigs /\ b \in RightConfigs /\ Pair(p) = <<a, b>>
        BY <2>2, <2>3
      <3> HIDE DEF a, b
      <3>2. /\ Pair(p) \in Seq(RightConfigs) /\ DOMAIN Pair(p) = 1 .. 2
            /\ Pair(p)[1] = a /\ Pair(p)[2] = b
        BY <3>1, PairIsSeq
      <3> QED BY <3>2 DEF a, b
    <2>5. \A spin \in BOOLEAN :
            Config(p, 1, spin).placement = p /\ Config(p, 1, spin).spin = spin
      BY DEF Config
    <2>6. ASSUME NEW spin \in BOOLEAN PROVE Has(Pair(p), p, spin)
      <3>1. CASE spin = FALSE
        <4>1. 1 \in DOMAIN Pair(p)
          BY <2>4
        <4> QED BY <2>4, <2>5, <3>1, <4>1 DEF Has
      <3>2. CASE spin = TRUE
        <4>1. 2 \in DOMAIN Pair(p)
          BY <2>4
        <4> QED BY <2>4, <2>5, <3>2, <4>1 DEF Has
      <3> QED BY <3>1, <3>2
    <2> QED BY <2>4, <2>6
  <1> QED BY <1>1, <1>2

\* The list bench_all starts from has every placement the machine offers, each
\* with the CPU found for it.
LEMMA ConfigsRight ==
    ASSUME Known
    PROVE  /\ Configs \in Seq(RightConfigs)
           /\ \A p \in Placements, spin \in BOOLEAN :
                 CpuFor(p) # None => Has(Configs, p, spin)
  <1> DEFINE s1 == Pair("other_core")
             s2 == Pair("smt_sibling")
             s3 == Pair("same_cpu")
  <1>1. <<Baseline>> \in Seq(RightConfigs)
    <2>1. Baseline \in RightConfigs
      BY DEF Baseline, RightConfigs, AConfig, Placements
    <2> QED BY <2>1
  <1>2. Batches \in Seq(RightConfigs)
    <2>1. CASE OtherCore = None
      BY <2>1 DEF Batches
    <2>2. CASE OtherCore # None
      <3>1. CpuFor("other_core") = OtherCore
        BY DEF CpuFor
      <3>2. OtherCore \in Cpus
        BY <2>2, OtherCoreFound
      <3>3. \A k \in 1 .. 5 : <<2, 4, 8, 16, 64>>[k] \in Nat
        OBVIOUS
      <3>4. \A n \in Nat : Config("other_core", n, FALSE) \in RightConfigs
        BY <2>2, <3>1, <3>2 DEF Config, RightConfigs, AConfig, Placements
      <3>5. Batches \in [1 .. 5 -> RightConfigs]
        BY <2>2, <3>3, <3>4 DEF Batches
      <3> QED BY <3>5, SeqDef
    <2> QED BY <2>1, <2>2
  <1>3. /\ s1 \in Seq(RightConfigs) /\ s2 \in Seq(RightConfigs)
        /\ s3 \in Seq(RightConfigs)
    BY PairRight DEF Placements
  <1>4. \A p \in Placements, spin \in BOOLEAN : CpuFor(p) # None =>
           Has(s1, p, spin) \/ Has(s2, p, spin) \/ Has(s3, p, spin)
    BY PairRight DEF Placements
  <1>5. Configs = (((<<Baseline>> \o s1) \o s2) \o s3) \o Batches
    BY DEF Configs
  <1> HIDE DEF s1, s2, s3
  <1>6. /\ <<Baseline>> \o s1 \in Seq(RightConfigs)
        /\ (<<Baseline>> \o s1) \o s2 \in Seq(RightConfigs)
        /\ ((<<Baseline>> \o s1) \o s2) \o s3 \in Seq(RightConfigs)
        /\ Configs \in Seq(RightConfigs)
    BY <1>1, <1>2, <1>3, <1>5, ConcatProperties
  <1>7. ASSUME NEW p \in Placements, NEW spin \in BOOLEAN, CpuFor(p) # None
        PROVE  Has(Configs, p, spin)
    <2>1. Has(s1, p, spin) \/ Has(s2, p, spin) \/ Has(s3, p, spin)
      BY <1>4, <1>7
    <2>2. Has(s1, p, spin) => Has(<<Baseline>> \o s1, p, spin)
      BY <1>1, <1>3, HasConcat
    <2>3. Has(<<Baseline>> \o s1, p, spin) \/ Has(s2, p, spin)
            => Has((<<Baseline>> \o s1) \o s2, p, spin)
      BY <1>3, <1>6, HasConcat
    <2>4. Has((<<Baseline>> \o s1) \o s2, p, spin) \/ Has(s3, p, spin)
            => Has(((<<Baseline>> \o s1) \o s2) \o s3, p, spin)
      BY <1>3, <1>6, HasConcat
    <2>5. Has(((<<Baseline>> \o s1) \o s2) \o s3, p, spin) => Has(Configs, p, spin)
      BY <1>2, <1>5, <1>6, HasConcat
    <2> QED BY <2>1, <2>2, <2>3, <2>4, <2>5
  <1> QED BY <1>6, <1>7

-----------------------------------------------------------------------------
\* The invariant of the sweep.
RowSet == [config : AConfig, faulter : SUBSET Cpus, handler : SUBSET Cpus]

HasRow(p, spin) ==
    \E k \in DOMAIN rows : /\ rows[k].config.placement = p
                           /\ rows[k].config.spin = spin

Lists ==
    /\ main_cpus \in SUBSET Cpus /\ handler_cpus \in SUBSET Cpus
    /\ rows \in Seq(RowSet)
    /\ configs \in Seq(RightConfigs)

\* What the machine offers has a row, or is still to come.
Planned ==
    \A p \in Placements, spin \in BOOLEAN :
        CpuFor(p) # None => Has(configs, p, spin) \/ HasRow(p, spin)

Stage ==
    /\ bench = "off" => configs = <<>> /\ rows = <<>>
    /\ bench # "off" => Known
    /\ bench \in {"detect", "sweep", "walk", "done"} => main_cpus = {FAULTER_CPU}
    /\ bench \in {"sweep", "walk", "done"} => Planned
    /\ bench = "done" => configs = <<>>

\* The handler of the current configuration runs where it pinned itself.
Threads ==
    /\ bench \notin {"walk", "failed"} => handler = "none"
    /\ handler # "none" => configs # <<>> /\ Head(configs).cpu # None
    /\ handler = "loop" => handler_cpus = {Head(configs).cpu}

SweepInv == Lists /\ Stage /\ Threads /\ RowsAreWhatTheySay

\* What is said of the machine stays true of it.
LEMMA SameMachine ==
    ASSUME UNCHANGED machine
    PROVE  /\ RightConfigs' = RightConfigs /\ (Known <=> Known')
           /\ \A p \in Placements : CpuFor(p)' = CpuFor(p)
           /\ \A p, f, h : Stands(p, f, h)' <=> Stands(p, f, h)
  <1>1. machine' = machine
    OBVIOUS
  <1>2. \A c : ThreadSiblings(c)' = ThreadSiblings(c)
    BY <1>1 DEF ThreadSiblings, Core
  <1>3. \A c : ReadCoreId(c)' = ReadCoreId(c)
    BY <1>1 DEF ReadCoreId
  <1>4. SmtSibling' = SmtSibling
    <2>1. ThreadSiblings(FAULTER_CPU)' = ThreadSiblings(FAULTER_CPU)
      BY <1>2
    <2>2. (ThreadSiblings(FAULTER_CPU) \ {FAULTER_CPU})'
            = ThreadSiblings(FAULTER_CPU) \ {FAULTER_CPU}
      BY <2>1
    <2> DEFINE T == ThreadSiblings(FAULTER_CPU) \ {FAULTER_CPU}
    <2>3. T' = T /\ SmtSibling = First(T) /\ SmtSibling' = First(T)'
      BY <2>2 DEF SmtSibling
    <2> HIDE DEF T
    <2> QED BY <2>3 DEF First
  <1>5. OtherCore' = OtherCore
    <2> DEFINE S == {c \in 0 .. NumCpus - 1 :
                       /\ c # FAULTER_CPU
                       /\ c # SmtSibling
                       /\ ReadCoreId(c) # ReadCoreId(FAULTER_CPU)}
    <2>1. S' = S
      BY <1>1, <1>3, <1>4 DEF NumCpus
    <2>2. OtherCore = First(S) /\ OtherCore' = First(S)'
      BY DEF OtherCore
    <2> HIDE DEF S
    <2> QED BY <2>1, <2>2 DEF First
  <1>6. \A p \in Placements : CpuFor(p)' = CpuFor(p)
    BY <1>4, <1>5 DEF CpuFor
  <1>7. RightConfigs' = RightConfigs
    BY <1>6 DEF RightConfigs
  <1>8. Known <=> Known'
    BY <1>1 DEF Known
  <1>9. \A p, f, h : Stands(p, f, h)' <=> Stands(p, f, h)
    BY DEF Stands, Core
  <1> QED BY <1>6, <1>7, <1>8, <1>9

\* Steps that touch neither the list nor the rows.
LEMMA Kept ==
    ASSUME Lists, UNCHANGED <<machine, configs, rows>>,
           main_cpus' \in SUBSET Cpus, handler_cpus' \in SUBSET Cpus
    PROVE  /\ Lists' /\ (Planned => Planned') /\ (Known <=> Known')
           /\ (RowsAreWhatTheySay => RowsAreWhatTheySay')
  <1>1. Lists'
    BY SameMachine DEF Lists
  <1>2. Planned => Planned'
    BY SameMachine DEF Planned, Has, HasRow
  <1>3. RowsAreWhatTheySay => RowsAreWhatTheySay'
    BY SameMachine DEF RowsAreWhatTheySay
  <1> QED BY <1>1, <1>2, <1>3, SameMachine

\* A row measured with both threads where the configuration wants them.
LEMMA MeasuredStep ==
    ASSUME Lists, Planned, Known, RowsAreWhatTheySay, configs # <<>>,
           main_cpus = {FAULTER_CPU}, UNCHANGED <<machine, main_cpus>>,
           NEW h \in SUBSET Cpus, Measured(h), handler_cpus' \in SUBSET Cpus,
           Head(configs).placement \in Placements => h = {Head(configs).cpu}
    PROVE  Lists' /\ Planned' /\ Known' /\ RowsAreWhatTheySay'
  <1> DEFINE c == Head(configs)
             row == [config |-> c, faulter |-> main_cpus, handler |-> h]
  <1>1. /\ c \in RightConfigs /\ Tail(configs) \in Seq(RightConfigs)
        /\ Len(configs) \in Nat /\ Len(Tail(configs)) = Len(configs) - 1
        /\ \A i \in 1 .. Len(Tail(configs)) : Tail(configs)[i] = configs[i + 1]
        /\ DOMAIN Tail(configs) = 1 .. Len(Tail(configs))
        /\ DOMAIN configs = 1 .. Len(configs)
        /\ c = configs[1]
    BY HeadTailProperties, LenProperties DEF Lists
  <1>2. c \in AConfig /\ (c.placement \in Placements => c.cpu = CpuFor(c.placement)
                                                 /\ c.cpu # None)
    BY <1>1 DEF RightConfigs
  <1>3. row \in RowSet /\ rows' = Append(rows, row) /\ configs' = Tail(configs)
    BY <1>2 DEF RowSet, Measured, Row, Lists
  <1>4. /\ Len(rows) \in Nat /\ rows' \in Seq(RowSet)
        /\ DOMAIN rows = 1 .. Len(rows)
        /\ DOMAIN rows' = 1 .. Len(rows) + 1
        /\ \A i \in 1 .. Len(rows) : rows'[i] = rows[i]
        /\ rows'[Len(rows) + 1] = row
    <2> HIDE DEF row
    <2> QED BY <1>3, AppendProperties, LenProperties DEF Lists
  <1>5. Lists'
    BY <1>1, <1>3, <1>4, SameMachine DEF Lists
  <1>6. ASSUME NEW p \in Placements, NEW spin \in BOOLEAN, CpuFor(p)' # None
        PROVE  Has(configs, p, spin)' \/ HasRow(p, spin)'
    <2>1. Has(configs, p, spin) \/ HasRow(p, spin)
      BY <1>6, SameMachine DEF Planned
    <2>2. CASE HasRow(p, spin)
      <3>1. PICK k \in 1 .. Len(rows) : rows[k].config.placement = p
                                        /\ rows[k].config.spin = spin
        BY <1>4, <2>2 DEF HasRow
      <3>2. k \in DOMAIN rows' /\ rows'[k] = rows[k]
        BY <1>4
      <3> QED BY <3>1, <3>2 DEF HasRow
    <2>3. CASE Has(configs, p, spin)
      <3>1. PICK k \in 1 .. Len(configs) : configs[k].placement = p
                                           /\ configs[k].spin = spin
        BY <1>1, <2>3 DEF Has
      <3>2. CASE k = 1
        <4>1. row.config.placement = p /\ row.config.spin = spin
          BY <1>1, <3>1, <3>2
        <4>2. Len(rows) + 1 \in DOMAIN rows'
          BY <1>4
        <4> QED BY <1>4, <4>1, <4>2 DEF HasRow
      <3>3. CASE k # 1
        <4>1. k - 1 \in 1 .. Len(Tail(configs)) /\ (k - 1) + 1 = k
          BY <1>1, <3>3
        <4>2. k - 1 \in DOMAIN configs' /\ configs'[k - 1] = configs[k]
          BY <1>1, <1>3, <4>1
        <4> QED BY <3>1, <4>2 DEF Has
      <3> QED BY <3>2, <3>3
    <2> QED BY <2>1, <2>2, <2>3
  <1>7. ASSUME NEW k \in DOMAIN rows', rows'[k].config.placement \in Placements,
               NEW f \in rows'[k].faulter, NEW g \in rows'[k].handler
        PROVE  Stands(rows'[k].config.placement, f, g)
    <2>1. CASE k \in 1 .. Len(rows)
      BY <1>4, <1>7, <2>1 DEF RowsAreWhatTheySay
    <2>2. CASE k = Len(rows) + 1
      <3>1. rows'[k] = row
        BY <1>4, <2>2
      <3>2. c.placement \in Placements /\ f = FAULTER_CPU /\ g = c.cpu
        BY <1>7, <3>1
      <3>3. Stands(c.placement, FAULTER_CPU, c.cpu)
        BY <1>2, <3>2, CpuForStands
      <3> QED BY <3>1, <3>2, <3>3
    <2> QED BY <1>4, <2>1, <2>2
  <1>8. RowsAreWhatTheySay'
    BY <1>7, SameMachine DEF RowsAreWhatTheySay
  <1> QED BY <1>5, <1>6, <1>8, SameMachine DEF Planned

\* bench_all is called: every CPU is online.
LEMMA BeginStep ==
    ASSUME AllOnline, SweepInv, Begin
    PROVE  SweepInv'
  <1>1. Known' /\ main_cpus' = Cpus /\ configs = <<>> /\ rows = <<>> /\ handler = "none"
    BY DEF Begin, Known, SweepInv, Stage, Threads
  <1>2. Lists'
    BY <1>1, EmptySeq DEF Begin, SweepInv, Lists
  <1>3. Stage' /\ Threads'
    BY <1>1 DEF Begin, Stage, Threads
  <1>4. RowsAreWhatTheySay'
    BY <1>1 DEF Begin, RowsAreWhatTheySay
  <1> QED BY <1>2, <1>3, <1>4 DEF SweepInv

\* Topology::detect, and the list of what is to be measured.
LEMMA DetectStep ==
    ASSUME SweepInv, Detect
    PROVE  SweepInv'
  <1>1. Known /\ Lists /\ UNCHANGED <<machine, main_cpus, handler_cpus, handler, rows>>
        /\ bench = "detect" /\ bench' = "sweep" /\ handler = "none"
    BY DEF SweepInv, Stage, Threads, Detect
  <1>2. /\ configs' \in Seq(RightConfigs)
        /\ \A p \in Placements, spin \in BOOLEAN :
              CpuFor(p) # None => Has(configs', p, spin)
    <2>1. CASE reverse
      BY <1>1, <2>1, ConfigsRight, HasReverse DEF Detect
    <2>2. CASE ~reverse
      BY <1>1, <2>2, ConfigsRight DEF Detect
    <2> QED BY <2>1, <2>2
  <1>3. Known' /\ RightConfigs' = RightConfigs
    BY <1>1, SameMachine
  <1>4. Lists'
    BY <1>1, <1>2, <1>3 DEF Lists
  <1>5. Planned'
    BY <1>1, <1>2, SameMachine DEF Planned, Has
  <1>6. Stage' /\ Threads'
    BY <1>1, <1>3, <1>5 DEF SweepInv, Stage, Threads
  <1>7. RowsAreWhatTheySay'
    BY <1>1, SameMachine DEF SweepInv, RowsAreWhatTheySay
  <1> QED BY <1>4, <1>6, <1>7 DEF SweepInv

\* The baseline needs no handler, and its row no placement.
LEMMA BaselineStep ==
    ASSUME SweepInv, MeasureBaseline
    PROVE  SweepInv'
  <1>1. /\ Lists /\ Planned /\ Known /\ RowsAreWhatTheySay /\ configs # <<>>
        /\ main_cpus = {FAULTER_CPU} /\ bench = "sweep" /\ bench' = "sweep"
        /\ handler = "none" /\ handler' = "none" /\ handler_cpus' \in SUBSET Cpus
        /\ UNCHANGED <<machine, main_cpus>> /\ Measured({})
    BY DEF SweepInv, Stage, Threads, Lists, MeasureBaseline
  <1>2. Head(configs).placement \notin Placements
    BY DEF MeasureBaseline, Baseline, Placements
  <1>3. {} \in SUBSET Cpus
    OBVIOUS
  <1>4. Lists' /\ Planned' /\ Known' /\ RowsAreWhatTheySay'
    BY <1>1, <1>2, <1>3, MeasuredStep
  <1> QED BY <1>1, <1>4 DEF SweepInv, Stage, Threads

\* The walk ends with the handler where its configuration wants it.
LEMMA WalkStep ==
    ASSUME SweepInv, Walk
    PROVE  SweepInv'
  <1>1. /\ Lists /\ Planned /\ Known /\ RowsAreWhatTheySay /\ configs # <<>>
        /\ main_cpus = {FAULTER_CPU} /\ bench' = "sweep"
        /\ handler' = "none" /\ handler_cpus' \in SUBSET Cpus
        /\ UNCHANGED <<machine, main_cpus>> /\ Measured(handler_cpus)
        /\ handler_cpus \in SUBSET Cpus /\ handler_cpus = {Head(configs).cpu}
    BY DEF SweepInv, Stage, Threads, Lists, Walk
  <1>2. Lists' /\ Planned' /\ Known' /\ RowsAreWhatTheySay'
    BY <1>1, MeasuredStep
  <1> QED BY <1>1, <1>2 DEF SweepInv, Stage, Threads

\* Steps of the sweep that measure nothing.
LEMMA OtherSteps ==
    ASSUME SweepInv,
           PinFaulter \/ SpawnHandler \/ PinHandler \/ BenchFails \/ Report
    PROVE  SweepInv'
  <1>1. Lists /\ Stage /\ Threads /\ RowsAreWhatTheySay
    BY DEF SweepInv
  <1>2. UNCHANGED <<machine, configs, rows>>
    BY DEF PinFaulter, SpawnHandler, PinHandler, BenchFails, Report
  <1>3. CASE PinFaulter
    <2>1. Known /\ FAULTER_CPU \in machine.online /\ {FAULTER_CPU} \in SUBSET Cpus
      BY <1>1, <1>3, CountIsBound DEF PinFaulter, Stage, Known
    <2>2. main_cpus' = {FAULTER_CPU} /\ bench' = "detect" /\ UNCHANGED <<handler_cpus, handler>>
          /\ bench = "pin"
      BY <1>3, <2>1 DEF PinFaulter, PinTo
    <2>3. Lists' /\ Known' /\ RowsAreWhatTheySay'
      BY <1>1, <1>2, <2>1, <2>2, Kept DEF Lists
    <2>4. Stage' /\ Threads'
      BY <1>1, <2>2, <2>3 DEF Stage, Threads
    <2> QED BY <2>3, <2>4 DEF SweepInv
  <1>4. CASE SpawnHandler
    <2>1. Lists' /\ (Planned => Planned') /\ (Known <=> Known') /\ RowsAreWhatTheySay'
      BY <1>1, <1>2, <1>4, Kept DEF Lists, SpawnHandler
    <2>2. Stage' /\ Threads'
      BY <1>1, <1>4, <2>1 DEF Stage, Threads, SpawnHandler
    <2> QED BY <2>1, <2>2 DEF SweepInv
  <1>5. CASE PinHandler
    <2>1. bench # "off" /\ configs # <<>> /\ Head(configs).cpu # None
      BY <1>1, <1>5 DEF Stage, Threads, PinHandler
    <2>2. Head(configs) \in RightConfigs /\ Known
      BY <1>1, <2>1, HeadTailProperties DEF Lists, Stage
    <2>3. Head(configs).cpu \in Cpus
      BY <2>1, <2>2 DEF RightConfigs, AConfig
    <2>4. handler_cpus' = {Head(configs).cpu}
      BY <1>5, <2>2, <2>3 DEF PinHandler, PinTo, Known
    <2>5. Lists' /\ (Planned => Planned') /\ (Known <=> Known') /\ RowsAreWhatTheySay'
      BY <1>1, <1>2, <1>5, <2>3, <2>4, Kept DEF Lists, PinHandler
    <2>6. Stage' /\ Threads'
      BY <1>1, <1>5, <2>1, <2>4, <2>5 DEF Stage, Threads, PinHandler
    <2> QED BY <2>5, <2>6 DEF SweepInv
  <1>6. CASE BenchFails
    <2>1. Lists' /\ (Planned => Planned') /\ (Known <=> Known') /\ RowsAreWhatTheySay'
      BY <1>1, <1>2, <1>6, Kept DEF Lists, BenchFails
    <2>2. Stage' /\ Threads'
      BY <1>1, <1>6, <2>1 DEF Stage, Threads, BenchFails
    <2> QED BY <2>1, <2>2 DEF SweepInv
  <1>7. CASE Report
    <2>1. Lists' /\ (Planned => Planned') /\ (Known <=> Known') /\ RowsAreWhatTheySay'
      BY <1>1, <1>2, <1>7, Kept DEF Lists, Report
    <2>2. Stage' /\ Threads'
      BY <1>1, <1>7, <2>1 DEF Stage, Threads, Report
    <2> QED BY <2>1, <2>2 DEF SweepInv
  <1> QED BY <1>3, <1>4, <1>5, <1>6, <1>7

-----------------------------------------------------------------------------
\* A step of the program keeps the invariant of the sweep; the demo does not
\* touch it.
LEMMA SweepStep ==
    ASSUME AllOnline, SweepInv, [Next]_mainVars
    PROVE  SweepInv'
  <1>1. CASE Bench
    BY <1>1, BeginStep, DetectStep, BaselineStep, WalkStep, OtherSteps
       DEF Bench, PlacementNext
  <1>2. CASE UNCHANGED placementVars
    <2>1. UNCHANGED <<machine, bench, main_cpus, handler_cpus, handler, configs, rows>>
      BY <1>2 DEF placementVars
    <2>2. Lists /\ Stage /\ Threads /\ RowsAreWhatTheySay
      BY DEF SweepInv
    <2>3. Lists' /\ (Planned => Planned') /\ (Known <=> Known') /\ RowsAreWhatTheySay'
      BY <2>1, <2>2, Kept DEF Lists
    <2>4. Stage' /\ Threads'
      BY <2>1, <2>2, <2>3 DEF Stage, Threads
    <2> QED BY <2>3, <2>4 DEF SweepInv
  <1> QED BY <1>1, <1>2 DEF Next, Demo, mainVars

\* It holds throughout.
LEMMA SweepInvariant ==
    ASSUME AllOnline
    PROVE  Spec => []SweepInv
  <1>1. Init => SweepInv
    BY EmptySeq DEF Init, PlacementInit, SweepInv, Lists, Stage, Threads,
       RowsAreWhatTheySay
  <1>2. SweepInv /\ [Next]_mainVars => SweepInv'
    BY SweepStep
  <1> QED BY <1>1, <1>2, PTL DEF Spec

\* bench_all and run_config: on a machine whose CPUs are all online, whatever
\* their number and their cores, no row is measured anywhere but where its label
\* says.
THEOREM RowsInvariant ==
    ASSUME AllOnline
    PROVE  Spec => []RowsAreWhatTheySay
  <1>1. SweepInv => RowsAreWhatTheySay
    BY DEF SweepInv
  <1> QED BY <1>1, SweepInvariant, PTL

\* bench_all and Topology::detect: on such a machine a sweep that completes has a
\* row for every placement that some CPU of the machine stands in, polling and
\* spinning.
THEOREM EveryPlacementInvariant ==
    ASSUME AllOnline
    PROVE  Spec => []EveryPlacementMeasured
  <1>1. SweepInv => EveryPlacementMeasured
    <2>1. ASSUME SweepInv, bench = "done", NEW p \in Placements,
                 NEW spin \in BOOLEAN, NEW c \in machine.online,
                 Stands(p, FAULTER_CPU, c)
          PROVE  HasRow(p, spin)
      <3>1. Known /\ Planned /\ configs = <<>> /\ c \in Cpus
        BY <2>1 DEF SweepInv, Stage, Known
      <3>2. CpuFor(p) # None
        BY <2>1, <3>1, CpuForStands
      <3>3. ~Has(configs, p, spin)
        BY <3>1 DEF Has
      <3> QED BY <3>1, <3>2, <3>3 DEF Planned
    <2> QED BY <2>1 DEF EveryPlacementMeasured, HasRow
  <1> QED BY <1>1, SweepInvariant, PTL
-----------------------------------------------------------------------------
(***************************************************************************)
(* The restore.                                                            *)
(***************************************************************************)
Opening == {"builder", "syscall", "restricted", "handshake", "map"}

\* Every byte main was to read was, or is, the image's.
AllRead == \A k \in 1 .. 8 : Byte(mem[Order[k]]) = Order[k]

\* The pages the handler has counted a fault for.
Served == {p \in Pages : mem[p] # Absent \/ (hpc = "copy" /\ p = fault)}

\* What main has read and not complained of.
Reading ==
    /\ ok => \A k \in 1 .. next - 1 : Byte(mem[Order[k]]) = Order[k]
    /\ ok /\ pc \in {"stop", "join", "check"} => AllRead
    /\ verdict = "ok" => AllRead /\ pc = "end"

\* A page of zeros is what the handler's end leaves.  Page 0 reads right then,
\* but page 63 is touched after it, so that page reads wrong.
Zeroing ==
    /\ pc \in Opening => mem[0] = Absent /\ hpc = "none"
    /\ pc = "map" => fd_open
    /\ pc \in {"touch", "parked"} /\ ~fd_open => Gone
    /\ mem[0] = Zeros => Gone /\ mem[63] # 63
    /\ mem[63] = 63 \/ message = 63 \/ (hpc = "copy" /\ fault = 63) => next >= 3

RestoreTypes ==
    /\ mem \in [Pages -> Int] /\ \A p \in Pages : mem[p] \in {Absent, Zeros, p}
    /\ next \in 1 .. 8 /\ message \in Pages \cup {Absent} /\ ok \in BOOLEAN
    /\ hpc = "copy" => fault \in Pages

RestoreInv == RestoreTypes /\ Reading /\ Zeroing

\* The order of the touches.
LEMMA Touches ==
    /\ DOMAIN Order = 1 .. 8 /\ Len(Order) = 8
    /\ Order[1] = 7 /\ Order[2] = 0 /\ Order[3] = 63 /\ Order[4] = 31
    /\ Order[5] = 7 /\ Order[6] = 32 /\ Order[7] = 1 /\ Order[8] = 31
    /\ Pages = {0, 1, 7, 31, 32, 63}
    /\ \A k \in 1 .. 8 : Order[k] \in Pages
  <1>1. /\ DOMAIN Order = 1 .. 8 /\ Len(Order) = 8
        /\ Order[1] = 7 /\ Order[2] = 0 /\ Order[3] = 63 /\ Order[4] = 31
        /\ Order[5] = 7 /\ Order[6] = 32 /\ Order[7] = 1 /\ Order[8] = 31
    BY DEF Order
  <1>2. \A k : k \in 1 .. 8 <=> k \in {1, 2, 3, 4, 5, 6, 7, 8}
    OBVIOUS
  <1>3. Pages = {Order[k] : k \in 1 .. 8}
    BY <1>1 DEF Pages
  <1>4. \A p : p \in Pages <=> \E k \in {1, 2, 3, 4, 5, 6, 7, 8} : Order[k] = p
    BY <1>2, <1>3
  <1>5. \A p : p \in Pages <=> p \in {0, 1, 7, 31, 32, 63}
    BY <1>1, <1>4
  <1>6. Pages = {0, 1, 7, 31, 32, 63}
    BY <1>5
  <1> QED BY <1>1, <1>3, <1>6

\* Page 0 and page 63 are touched once.
LEMMA OneTouch ==
    ASSUME NEW k \in 1 .. 8
    PROVE  (Order[k] = 63 => k = 3) /\ (Order[k] = 0 => k = 2)
  <1>1. k = 1 \/ k = 2 \/ k = 3 \/ k = 4 \/ k = 5 \/ k = 6 \/ k = 7 \/ k = 8
    OBVIOUS
  <1>2. CASE k = 2 \/ k = 3
    BY <1>2, Touches
  <1>3. CASE k = 1 \/ k = 5
    BY <1>3, Touches
  <1>4. CASE k = 4 \/ k = 8
    BY <1>4, Touches
  <1>5. CASE k = 6 \/ k = 7
    BY <1>5, Touches
  <1> QED BY <1>1, <1>2, <1>3, <1>4, <1>5

\* Pages are numbers, none of them what an absent page or one of zeros holds.
LEMMA PageFacts ==
    /\ \A p \in Pages : p \in Nat /\ p # Absent /\ p # Zeros /\ Byte(p) = p
    /\ 0 \in Pages /\ 63 \in Pages /\ IsFiniteSet(Pages)
    /\ Absent \in Int /\ Zeros \in Int /\ Absent # Zeros
    /\ \A p \in Pages : Byte(Absent) # p
    /\ \A p \in Pages : Byte(Zeros) = p <=> p = 0
  <1>1. \A p \in Pages : p \in 0 .. 63
    BY Touches
  <1>2. IsFiniteSet(Pages)
    <2>1. Pages \subseteq 0 .. 63
      BY <1>1
    <2>2. \A n \in Nat : IsFiniteSet(0 .. n)
      BY FS_Interval
    <2>3. IsFiniteSet(0 .. 63)
      BY <2>2
    <2> QED BY <2>1, <2>3, FS_Subset
  <1>3. 0 \in Pages /\ 63 \in Pages
    BY Touches
  <1> QED BY <1>1, <1>2, <1>3 DEF Absent, Zeros, Byte

\* What holds of the state holds while the restore's state does not change.
LEMMA RestoreUnchanged == RestoreInv /\ UNCHANGED restoreVars => RestoreInv'
  BY DEF RestoreInv, RestoreTypes, Reading, Zeroing, AllRead, Gone, restoreVars, demoVars,
     kernelVars, handlerVars

\* Opening the descriptor touches no page.
LEMMA OpenStep == RestoreInv /\ Open => RestoreInv'
  <1> SUFFICES ASSUME RestoreInv, Open PROVE RestoreInv'
    OBVIOUS
  <1>1. UNCHANGED <<mem, next, message, ok, fault>> /\ pc \in Opening
    BY DEF Open, Builder, Syscall, Handshake, MapAndRegister, GiveUp, Opening, demoVars,
       kernelVars, handlerVars
  <1>2. verdict # "ok" /\ hpc = "none" /\ mem[0] = Absent
    BY <1>1 DEF RestoreInv, Reading, Zeroing, Opening
  <1>3. /\ verdict' # "ok" \/ verdict' = verdict
        /\ hpc' = hpc \/ (hpc' = "loop" /\ pc = "map" /\ fd_open' = fd_open /\ pc' = "touch")
        /\ hpc' = hpc => pc' \in Opening \cup {"end"}
        /\ pc' = "map" => fd_open'
    <2>1. CASE Builder
      BY <2>1 DEF Builder, GiveUp, Opening, handlerVars
    <2>2. CASE Syscall
      BY <2>2 DEF Syscall, GiveUp, Opening, handlerVars
    <2>3. CASE Handshake
      BY <2>3 DEF Handshake, GiveUp, Opening, handlerVars
    <2>4. CASE MapAndRegister
      BY <1>2, <2>4 DEF MapAndRegister, GiveUp, Opening, kernelVars
    <2> QED BY <2>1, <2>2, <2>3, <2>4 DEF Open
  <1>4. RestoreTypes'
    BY <1>1, <1>2, <1>3 DEF RestoreInv, RestoreTypes
  <1>5. Reading'
    BY <1>1, <1>2, <1>3 DEF RestoreInv, Reading, Opening
  <1>6. Zeroing'
    BY <1>1, <1>2, <1>3, PageFacts DEF RestoreInv, Zeroing, Opening
  <1> QED BY <1>4, <1>5, <1>6 DEF RestoreInv

\* A touch of an absent page asks for it, or finds zeros once the descriptor is
\* closed.
LEMMA FaultStep == RestoreInv /\ Fault => RestoreInv'
  <1> SUFFICES ASSUME RestoreInv, Fault PROVE RestoreInv'
    OBVIOUS
  <1>1. /\ pc = "touch" /\ mem[Page] = Absent /\ next \in 1 .. 8
        /\ Page = Order[next] /\ Page \in Pages
        /\ UNCHANGED <<next, ok, verdict, fd_open, hpc, fault>>
    BY Touches DEF Fault, Page, handlerVars, RestoreInv, RestoreTypes
  <1>2. Page = 63 => next = 3
    BY <1>1, OneTouch
  <1>3. Page = 0 => next = 2
    BY <1>1, OneTouch
  <1>4. CASE fd_open
    <2>1. pc' = "parked" /\ message' = Page /\ mem' = mem
      BY <1>4 DEF Fault
    <2>2. RestoreTypes' /\ Reading'
      BY <1>1, <2>1 DEF RestoreInv, RestoreTypes, Reading, AllRead
    <2>3. Zeroing'
      BY <1>1, <1>2, <1>4, <2>1, Touches DEF RestoreInv, Zeroing, Gone, Opening
    <2> QED BY <2>2, <2>3 DEF RestoreInv
  <1>5. CASE ~fd_open
    <2>1. mem' = [mem EXCEPT ![Page] = Zeros] /\ UNCHANGED <<pc, message>>
      BY <1>5 DEF Fault
    <2>2. /\ mem' \in [Pages -> Int] /\ mem'[Page] = Zeros
          /\ \A p \in Pages : p # Page => mem'[p] = mem[p]
      BY <1>1, <2>1, PageFacts DEF RestoreInv, RestoreTypes
    <2>3. RestoreTypes'
      BY <1>1, <2>1, <2>2 DEF RestoreInv, RestoreTypes
    <2>4. Reading'
      <3>1. ok => \A k \in 1 .. next - 1 : mem'[Order[k]] = mem[Order[k]]
        <4>1. ASSUME ok, NEW k \in 1 .. next - 1 PROVE mem'[Order[k]] = mem[Order[k]]
          <5>1. k \in 1 .. 8 /\ Order[k] \in Pages
            BY <1>1, Touches
          <5>2. Byte(mem[Order[k]]) = Order[k]
            BY <4>1 DEF RestoreInv, Reading
          <5>3. Order[k] # Page
            BY <1>1, <5>1, <5>2, PageFacts
          <5> QED BY <2>2, <5>1, <5>3
        <4> QED BY <4>1
      <3>2. ok' => \A k \in 1 .. next' - 1 : Byte(mem'[Order[k]]) = Order[k]
        BY <1>1, <3>1 DEF RestoreInv, Reading
      <3>3. pc' = "touch" /\ verdict' # "ok"
        BY <1>1, <2>1 DEF RestoreInv, Reading
      <3> QED BY <3>2, <3>3 DEF Reading
    <2>5. Zeroing'
      <3>1. Gone /\ Gone'
        BY <1>1, <1>5 DEF RestoreInv, Zeroing, Gone
      <3>2. mem'[63] = 63 => mem[63] = 63 /\ Page # 63
        BY <1>1, <2>2, PageFacts
      <3>3. mem'[63] # 63 \/ mem[0] # Absent \/ Page # 0
        BY <1>1, <1>3, <3>2 DEF RestoreInv, Zeroing
      <3>4. mem'[0] = Zeros => mem'[63] # 63
        <4>1. CASE Page = 0
          BY <1>1, <3>3, <4>1
        <4>2. CASE Page # 0
          <5>1. mem'[0] = mem[0]
            BY <2>2, <4>2, PageFacts
          <5> QED BY <3>2, <5>1 DEF RestoreInv, Zeroing
        <4> QED BY <4>1, <4>2
      <3>5. mem'[63] = 63 \/ message' = 63 \/ (hpc' = "copy" /\ fault' = 63) => next' >= 3
        BY <1>1, <2>1, <3>2 DEF RestoreInv, Zeroing
      <3>6. pc' \notin Opening /\ pc' # "map"
        BY <1>1, <2>1 DEF Opening
      <3> QED BY <3>1, <3>4, <3>5, <3>6 DEF Zeroing
    <2> QED BY <2>3, <2>4, <2>5 DEF RestoreInv
  <1> QED BY <1>4, <1>5

\* A touch of a page that is there is read and compared.
LEMMA TouchStep == RestoreInv /\ Touch => RestoreInv'
  <1> SUFFICES ASSUME RestoreInv, Touch PROVE RestoreInv'
    OBVIOUS
  <1>1. /\ pc = "touch" /\ ok' = (ok /\ Byte(mem[Order[next]]) = Order[next])
        /\ next \in 1 .. 8 /\ ok \in BOOLEAN
        /\ UNCHANGED <<verdict, mem, fd_open, message, hpc, fault>>
    BY DEF Touch, StillOk, Matched, Page, kernelVars, handlerVars, RestoreInv, RestoreTypes
  <1>2. verdict # "ok" /\ (ok => \A k \in 1 .. next - 1 : Byte(mem[Order[k]]) = Order[k])
    BY <1>1 DEF RestoreInv, Reading
  <1>3. ok' => \A k \in 1 .. next : Byte(mem[Order[k]]) = Order[k]
    <2>1. \A k \in 1 .. next : k \in 1 .. next - 1 \/ k = next
      BY <1>1
    <2> QED BY <1>1, <1>2, <2>1
  <1>4. CASE pc' = "stop" /\ next' = next /\ (ok' => next = 8)
    <2>1. RestoreTypes'
      BY <1>1, <1>4 DEF RestoreInv, RestoreTypes
    <2>2. Reading'
      BY <1>1, <1>2, <1>3, <1>4 DEF Reading, AllRead
    <2>3. Zeroing'
      BY <1>1, <1>4 DEF RestoreInv, Zeroing, Gone, Opening
    <2> QED BY <2>1, <2>2, <2>3 DEF RestoreInv
  <1>5. CASE pc' = pc /\ next' = next + 1 /\ next # 8
    <2>1. next' \in 1 .. 8 /\ next' - 1 = next /\ (next >= 3 => next' >= 3)
      BY <1>1, <1>5
    <2>2. RestoreTypes'
      BY <1>1, <1>5, <2>1 DEF RestoreInv, RestoreTypes
    <2>3. Reading'
      BY <1>1, <1>2, <1>3, <1>5, <2>1 DEF Reading
    <2>4. Zeroing'
      BY <1>1, <1>5, <2>1 DEF RestoreInv, Zeroing, Gone, Opening
    <2> QED BY <2>2, <2>3, <2>4 DEF RestoreInv
  <1>6. \/ pc' = "stop" /\ next' = next /\ (ok' => next = 8)
        \/ pc' = pc /\ next' = next + 1 /\ next # 8
    BY <1>1, Touches DEF Touch, Matched, Page
  <1> QED BY <1>4, <1>5, <1>6

\* The end of main reads nothing more.
LEMMA EndStep == RestoreInv /\ (Stop \/ Join \/ Check) => RestoreInv'
  <1> SUFFICES ASSUME RestoreInv, Stop \/ Join \/ Check PROVE RestoreInv'
    OBVIOUS
  <1>1. /\ UNCHANGED <<next, ok, mem, fd_open, message, hpc, fault>>
        /\ pc \in {"stop", "join", "check"} /\ pc' \in {"join", "check", "end"}
        /\ verdict' = "ok" => verdict = "ok" \/ (ok /\ pc' = "end")
        /\ pc' # "end" => verdict' = verdict
    BY DEF Stop, Join, Check, Accepted, kernelVars, handlerVars
  <1>2. verdict # "ok" /\ (ok => AllRead)
    BY <1>1 DEF RestoreInv, Reading
  <1>3. AllRead' <=> AllRead
    BY <1>1 DEF AllRead
  <1>4. RestoreTypes'
    BY <1>1 DEF RestoreInv, RestoreTypes
  <1>5. Reading'
    BY <1>1, <1>2, <1>3 DEF RestoreInv, Reading
  <1>6. Zeroing'
    BY <1>1 DEF RestoreInv, Zeroing, Gone, Opening
  <1> QED BY <1>4, <1>5, <1>6 DEF RestoreInv

\* The handler's end closes the descriptor or leaves it open; it writes nothing.
LEMMA LeaveStep ==
    ASSUME RestoreInv, NEW how \in {"exited", "dead"}, Leave(how),
           UNCHANGED <<mem, next, ok, verdict>>, pc # "end", hpc # "none"
    PROVE  RestoreInv'
  <1>1. /\ hpc' = how /\ Gone'
        /\ pc' = pc \/ (pc = "parked" /\ pc' = "touch")
        /\ message' = Absent \/ message' = message
    BY DEF Leave, Gone
  <1>2. pc \notin Opening /\ verdict # "ok"
    BY DEF RestoreInv, Zeroing, Reading
  <1>3. pc' \notin Opening /\ pc' # "map" /\ (pc' \in {"stop", "join", "check"} => pc' = pc)
    BY <1>1, <1>2 DEF Opening
  <1>4. RestoreTypes'
    BY <1>1, PageFacts DEF RestoreInv, RestoreTypes
  <1>5. Reading'
    BY <1>2, <1>3 DEF RestoreInv, Reading, AllRead
  <1>6. Zeroing'
    <2>1. message' = 63 => message = 63
      BY <1>1, PageFacts
    <2>2. mem'[0] = Zeros => mem'[63] # 63
      BY DEF RestoreInv, Zeroing
    <2> QED BY <1>1, <1>3, <2>1, <2>2 DEF RestoreInv, Zeroing
  <1> QED BY <1>4, <1>5, <1>6 DEF RestoreInv

\* The handler installs the image's pages.
LEMMA HandlerStep == RestoreInv /\ (Handler \/ Failure) => RestoreInv'
  <1> SUFFICES ASSUME RestoreInv, Handler \/ Failure PROVE RestoreInv'
    OBVIOUS
  <1>1. pc # "end" /\ verdict # "ok"
    BY DEF Handler, Failure, RestoreInv, Reading
  <1>2. ASSUME hpc # "none", UNCHANGED <<mem, next, ok, verdict, fd_open, message, pc, fault>>,
               hpc' \in {"loop", "read"}, ~Gone
        PROVE  RestoreInv'
    <2>1. RestoreTypes'
      BY <1>2 DEF RestoreInv, RestoreTypes
    <2>2. Reading'
      BY <1>2 DEF RestoreInv, Reading, AllRead
    <2>3. Zeroing'
      BY <1>2 DEF RestoreInv, Zeroing, Opening
    <2> QED BY <2>1, <2>2, <2>3 DEF RestoreInv
  <1>3. CASE LoopTop
    <2>1. hpc = "loop" /\ UNCHANGED <<mem, next, ok, verdict, fault>>
      BY <1>3 DEF LoopTop
    <2>2. CASE stop
      BY <1>1, <1>3, <2>1, <2>2, LeaveStep DEF LoopTop
    <2>3. CASE ~stop
      BY <1>2, <1>3, <2>1, <2>3 DEF LoopTop, Gone
    <2> QED BY <2>2, <2>3
  <1>4. CASE ReadNothing
    <2>1. hpc = "read" /\ UNCHANGED <<mem, next, ok, verdict, fault>>
      BY <1>4 DEF ReadNothing
    <2>2. CASE hpc' = "loop" /\ UNCHANGED <<fd_open, message, pc>>
      BY <1>2, <2>1, <2>2 DEF Gone
    <2>3. CASE Leave("exited")
      BY <1>1, <2>1, <2>3, LeaveStep
    <2> QED BY <1>4, <2>2, <2>3 DEF ReadNothing
  <1>5. CASE HandlerFails
    BY <1>1, <1>5, LeaveStep DEF HandlerFails
  <1>6. CASE ReadEvent
    <2>1. /\ hpc = "read" /\ hpc' = "copy" /\ message # Absent /\ fault' = message
          /\ message' = Absent /\ UNCHANGED <<mem, next, ok, verdict, fd_open, pc>>
      BY <1>6 DEF ReadEvent, demoVars
    <2>2. message \in Pages
      BY <2>1 DEF RestoreInv, RestoreTypes
    <2>3. RestoreTypes' /\ Reading'
      BY <2>1, <2>2 DEF RestoreInv, RestoreTypes, Reading, AllRead
    <2>4. Zeroing'
      <3>1. message' # 63
        BY <2>1, PageFacts
      <3> QED BY <2>1, <3>1 DEF RestoreInv, Zeroing, Gone, Opening
    <2> QED BY <2>3, <2>4 DEF RestoreInv
  <1>7. CASE Copy
    <2>1. /\ hpc = "copy" /\ hpc' = "loop" /\ mem' = [mem EXCEPT ![fault] = fault]
          /\ pc' = pc \/ (pc = "parked" /\ pc' = "touch")
          /\ fault' = Absent /\ fault \in Pages
          /\ UNCHANGED <<next, ok, verdict, fd_open, message>>
      BY <1>7 DEF Copy, RestoreInv, RestoreTypes
    <2>2. /\ mem' \in [Pages -> Int] /\ mem'[fault] = fault
          /\ \A p \in Pages : p # fault => mem'[p] = mem[p]
      BY <2>1, PageFacts DEF RestoreInv, RestoreTypes
    <2>3. RestoreTypes'
      BY <2>1, <2>2 DEF RestoreInv, RestoreTypes
    <2>4. \A p \in Pages : Byte(mem[p]) = p => Byte(mem'[p]) = p
      BY <2>1, <2>2, PageFacts
    <2>5. Reading'
      <3>1. \A k \in 1 .. 8 : Byte(mem[Order[k]]) = Order[k] => Byte(mem'[Order[k]]) = Order[k]
        BY <2>4, Touches
      <3>2. \A k \in 1 .. next - 1 : k \in 1 .. 8
        BY DEF RestoreInv, RestoreTypes
      <3>3. AllRead => AllRead'
        BY <3>1 DEF AllRead
      <3> QED BY <1>1, <2>1, <3>1, <3>2, <3>3 DEF RestoreInv, Reading
    <2>6. Zeroing'
      <3>1. ~Gone /\ pc \notin Opening /\ mem[0] # Zeros
        BY <2>1 DEF RestoreInv, Zeroing, Gone
      <3>2. pc' \notin Opening /\ pc' # "map" /\ (pc' \in {"touch", "parked"} => fd_open')
        BY <2>1, <3>1 DEF RestoreInv, Zeroing, Opening
      <3>3. mem'[0] # Zeros
        BY <2>1, <2>2, <3>1, PageFacts
      <3>4. mem'[63] = 63 => mem[63] = 63 \/ fault = 63
        BY <2>2, PageFacts
      <3> QED BY <2>1, <3>2, <3>3, <3>4 DEF RestoreInv, Zeroing
    <2> QED BY <2>3, <2>5, <2>6 DEF RestoreInv
  <1> QED BY <1>3, <1>4, <1>5, <1>6, <1>7 DEF Handler, Failure

LEMMA RestoreInvariant == Spec => []RestoreInv
  <1>1. Init => RestoreInv
    <2> SUFFICES ASSUME Init PROVE RestoreInv
      OBVIOUS
    <2>1. /\ mem = [p \in Pages |-> Absent] /\ next = 1 /\ message = Absent /\ ok = TRUE
          /\ hpc = "none" /\ verdict = "none" /\ pc \in {"syscall", "builder"}
      BY DEF Init, RestoreInit
    <2>2. RestoreTypes
      BY <2>1, PageFacts DEF RestoreTypes
    <2>3. Reading
      BY <2>1 DEF Reading
    <2>4. Zeroing
      <3>1. mem[0] = Absent /\ mem[63] = Absent
        BY <2>1, PageFacts
      <3> QED BY <2>1, <3>1, PageFacts DEF Zeroing
    <2> QED BY <2>2, <2>3, <2>4 DEF RestoreInv
  <1>2. RestoreInv /\ [Next]_mainVars => RestoreInv'
    <2> SUFFICES ASSUME RestoreInv, [Next]_mainVars PROVE RestoreInv'
      OBVIOUS
    <2>1. RestoreNext \/ UNCHANGED restoreVars
      BY DEF Next, Demo, Bench, mainVars
    <2> QED BY <2>1, RestoreUnchanged, OpenStep, FaultStep, TouchStep, EndStep, HandlerStep
            DEF RestoreNext, Main
  <1> QED BY <1>1, <1>2, PTL DEF Spec

\* The demos of both programs: a restore that is called right has put the image's
\* content in every page, whichever system call failed and wherever the handler
\* ended; the bytes read and the order of the touches show it.
THEOREM RestoredInvariant == Spec => []OkMeansRestored
  <1>1. RestoreInv => OkMeansRestored
    <2> SUFFICES ASSUME RestoreInv, verdict = "ok", NEW p \in Pages PROVE mem[p] = p
      BY DEF OkMeansRestored
    <2>1. \A k \in 1 .. 8 : Byte(mem[Order[k]]) = Order[k]
      BY DEF RestoreInv, Reading, AllRead
    <2>2. \A q \in Pages : Byte(mem[q]) = q
      <3>1. ASSUME NEW q \in Pages PROVE Byte(mem[q]) = q
        <4>1. PICK k \in 1 .. 8 : Order[k] = q
          BY Touches DEF Pages
        <4> QED BY <2>1, <4>1
      <3> QED BY <3>1
    <2>3. \A q \in Pages : mem[q] = q \/ (q = 0 /\ mem[q] = Zeros)
      <3>1. ASSUME NEW q \in Pages PROVE mem[q] = q \/ (q = 0 /\ mem[q] = Zeros)
        <4>1. mem[q] \in {Absent, Zeros, q} /\ Byte(mem[q]) = q
          BY <2>2 DEF RestoreInv, RestoreTypes
        <4> QED BY <4>1, PageFacts
      <3> QED BY <3>1
    <2>4. mem[63] = 63
      BY <2>3, PageFacts
    <2>5. mem[0] # Zeros
      BY <2>4 DEF RestoreInv, Zeroing
    <2> QED BY <2>3, <2>5
  <1> QED BY <1>1, RestoreInvariant, PTL

\* While no system call has failed: the handler answers what main asks for, one
\* fault to a page, and leaves only when it is told to.
Sound ==
    /\ verdict # "failed" /\ ok /\ hpc # "dead"
    /\ non_blocking => program = "raw"
    /\ stop => pc \in {"join", "check", "end"}
    /\ hpc = "exited" => stop
    /\ pc \in {"touch", "parked"} => fd_open
    /\ \A p \in Pages : mem[p] # Zeros
    /\ faults = Cardinality(Served)
    /\ message # Absent => hpc # "copy" /\ pc = "parked" /\ mem[message] = Absent
    /\ hpc = "copy" => pc = "parked" /\ mem[fault] = Absent

SoundInv == ~broken => Sound

\* Steps that serve no page.
LEMMA ServedSame ==
    ASSUME UNCHANGED <<mem, fault>>, hpc' = hpc \/ (hpc # "copy" /\ hpc' # "copy")
    PROVE  Served' = Served
  BY DEF Served

\* A step of main.
LEMMA SoundMain == RestoreInv /\ SoundInv /\ Main => SoundInv'
  <1> SUFFICES ASSUME RestoreInv, SoundInv, Main, ~broken' PROVE Sound'
    BY DEF SoundInv
  <1>1. Sound
    <2>1. broken' = broken \/ broken'
      BY DEF Main, Open, Builder, Syscall, Handshake, MapAndRegister, Fault, Touch, Stop,
         Join, Check
    <2> QED BY <2>1 DEF SoundInv
  <1>2. CASE Builder \/ Syscall \/ Handshake
    <2>1. /\ UNCHANGED <<program, ok, stop, mem, message, hpc, fault, faults>>
          /\ verdict' = verdict /\ pc \in Opening
          /\ pc' \in {"map", "syscall", "restricted", "handshake"}
      BY <1>2 DEF Builder, Syscall, Handshake, GiveUp, Opening, kernelVars, handlerVars
    <2>2. non_blocking' => program' = "raw"
      BY <1>1, <1>2, <2>1 DEF Builder, Syscall, Handshake, NonBlocking, Sound
    <2>3. hpc = "none" /\ message = Absent /\ ~stop
      BY <1>1, <2>1 DEF RestoreInv, Zeroing, Sound, Opening
    <2> QED BY <1>1, <2>1, <2>2, <2>3, ServedSame DEF Sound
  <1>3. CASE MapAndRegister
    <2>1. /\ pc = "map" /\ pc' = "touch" /\ hpc = "none" /\ hpc' = "loop" /\ fd_open
          /\ UNCHANGED <<program, non_blocking, ok, verdict, stop, mem, fd_open, message,
                         fault, faults>>
      BY <1>3 DEF MapAndRegister, kernelVars, RestoreInv, Zeroing, Opening
    <2>2. message = Absent /\ ~stop
      BY <1>1, <2>1 DEF Sound
    <2> QED BY <1>1, <2>1, <2>2, ServedSame DEF Sound
  <1>4. CASE Fault
    <2>1. /\ pc = "touch" /\ fd_open /\ mem[Page] = Absent /\ pc' = "parked"
          /\ message' = Page
          /\ UNCHANGED <<program, non_blocking, ok, verdict, stop, mem, fd_open, hpc, fault,
                         faults>>
      BY <1>1, <1>4 DEF Fault, Sound, handlerVars
    <2>2. hpc # "copy" /\ ~stop
      BY <1>1, <2>1 DEF Sound
    <2>3. mem'[message'] = Absent
      BY <2>1
    <2> QED BY <1>1, <2>1, <2>2, <2>3, ServedSame DEF Sound
  <1>5. CASE Touch
    <2>1. /\ pc = "touch" /\ mem[Page] # Absent /\ ok' = (ok /\ Matched)
          /\ pc' \in {"touch", "stop"}
          /\ UNCHANGED <<program, non_blocking, verdict, stop, mem, fd_open, message, hpc,
                         fault, faults>>
      BY <1>5 DEF Touch, StillOk, kernelVars, handlerVars
    <2>2. Page \in Pages
      BY Touches DEF Page, RestoreInv, RestoreTypes
    <2>3. mem[Page] = Page
      BY <1>1, <2>1, <2>2 DEF RestoreInv, RestoreTypes, Sound
    <2>4. ok'
      BY <1>1, <2>1, <2>2, <2>3, PageFacts DEF Matched, Sound
    <2>5. message = Absent /\ hpc # "copy" /\ ~stop
      BY <1>1, <2>1 DEF Sound
    <2> QED BY <1>1, <2>1, <2>4, <2>5, ServedSame DEF Sound
  <1>6. CASE Stop \/ Join
    <2>1. /\ pc \in {"stop", "join"} /\ pc' \in {"join", "check"} /\ (stop => stop')
          /\ UNCHANGED <<program, non_blocking, ok, verdict, mem, fd_open, message, hpc,
                         fault, faults>>
      BY <1>6 DEF Stop, Join, kernelVars, handlerVars
    <2>2. message = Absent /\ hpc # "copy"
      BY <1>1, <2>1 DEF Sound
    <2> QED BY <1>1, <2>1, <2>2, ServedSame DEF Sound
  <1>7. CASE Check
    <2>1. /\ pc = "check" /\ pc' = "end" /\ verdict' = IF Accepted THEN "ok" ELSE "failed"
          /\ UNCHANGED <<program, non_blocking, ok, stop, mem, fd_open, message, hpc,
                         fault, faults>>
      BY <1>7 DEF Check, kernelVars, handlerVars
    <2>2. message = Absent /\ hpc # "copy" /\ ok
      BY <1>1, <2>1 DEF Sound
    <2>3. AllRead
      BY <2>1, <2>2 DEF RestoreInv, Reading
    <2>4. \A p \in Pages : mem[p] # Absent
      <3>1. ASSUME NEW p \in Pages PROVE mem[p] # Absent
        <4>1. PICK k \in 1 .. 8 : Order[k] = p
          BY Touches DEF Pages
        <4>2. Byte(mem[p]) = p
          BY <2>3, <4>1 DEF AllRead
        <4> QED BY <4>2, PageFacts
      <3> QED BY <3>1
    <2>5. Served = Pages
      BY <2>4 DEF Served
    <2>6. verdict' = "ok"
      BY <1>1, <2>1, <2>2, <2>5 DEF Accepted, Sound
    <2> QED BY <1>1, <2>1, <2>2, <2>6, ServedSame DEF Sound
  <1> QED BY <1>2, <1>3, <1>4, <1>5, <1>6, <1>7 DEF Main, Open

\* A step of the handler.
LEMMA SoundHandler == RestoreInv /\ SoundInv /\ (Handler \/ Failure) => SoundInv'
  <1> SUFFICES ASSUME RestoreInv, SoundInv, Handler \/ Failure, ~broken' PROVE Sound'
    BY DEF SoundInv
  <1>1. Sound /\ Handler
    <2>1. Handler /\ broken' = broken
      BY DEF Handler, Failure, HandlerFails, LoopTop, ReadEvent, ReadNothing, Copy
    <2> QED BY <2>1 DEF SoundInv
  <1>2. CASE LoopTop
    <2>1. /\ hpc = "loop"
          /\ UNCHANGED <<program, non_blocking, ok, verdict, stop, mem, fault, faults>>
      BY <1>2 DEF LoopTop
    <2>2. CASE stop
      <3>1. pc \in {"join", "check", "end"} /\ message = Absent
        BY <1>1, <2>2 DEF Sound
      <3>2. hpc' = "exited" /\ pc' = pc /\ message' = Absent
        BY <1>2, <2>2, <3>1 DEF LoopTop, Leave
      <3> QED BY <1>1, <2>1, <2>2, <3>1, <3>2, ServedSame DEF Sound
    <2>3. CASE ~stop
      <3>1. hpc' = "read" /\ UNCHANGED <<fd_open, message, pc>>
        BY <1>2, <2>3 DEF LoopTop
      <3> QED BY <1>1, <2>1, <2>3, <3>1, ServedSame DEF Sound
    <2> QED BY <2>2, <2>3
  <1>3. CASE ReadNothing
    <2>1. /\ hpc = "read" /\ hpc' = "loop"
          /\ UNCHANGED <<program, non_blocking, ok, verdict, stop, mem, fault, faults, fd_open,
                         message, pc>>
      BY <1>1, <1>3 DEF ReadNothing, Sound
    <2> QED BY <1>1, <2>1, ServedSame DEF Sound
  <1>4. CASE ReadEvent
    <2>1. /\ hpc = "read" /\ hpc' = "copy" /\ message # Absent /\ fault' = message
          /\ message' = Absent /\ faults' = faults + 1
          /\ UNCHANGED <<program, non_blocking, ok, verdict, stop, mem, fd_open, pc>>
      BY <1>4 DEF ReadEvent, demoVars
    <2>2. message \in Pages /\ mem[message] = Absent /\ pc = "parked"
      BY <1>1, <2>1 DEF RestoreInv, RestoreTypes, Sound
    <2>3. Served' = Served \cup {message} /\ message \notin Served
      BY <2>1, <2>2 DEF Served
    <2>4. IsFiniteSet(Served)
      <3>1. Served \subseteq Pages
        BY DEF Served
      <3> QED BY <3>1, PageFacts, FS_Subset
    <2>5. Cardinality(Served \cup {message}) = Cardinality(Served) + 1
      BY <2>3, <2>4, FS_AddElement
    <2>6. faults' = Cardinality(Served)'
      BY <1>1, <2>1, <2>3, <2>5 DEF Sound
    <2> QED BY <1>1, <2>1, <2>2, <2>6 DEF Sound
  <1>5. CASE Copy
    <2>1. /\ hpc = "copy" /\ hpc' = "loop" /\ mem' = [mem EXCEPT ![fault] = fault]
          /\ pc' = "touch" /\ fault \in Pages /\ message = Absent
          /\ UNCHANGED <<program, non_blocking, ok, verdict, stop, fd_open, message, faults>>
      BY <1>1, <1>5 DEF Copy, RestoreInv, RestoreTypes, Sound
    <2>2. /\ mem'[fault] = fault /\ \A p \in Pages : p # fault => mem'[p] = mem[p]
      BY <2>1 DEF RestoreInv, RestoreTypes
    <2>3. Served' = Served
      BY <2>1, <2>2, PageFacts DEF Served
    <2>4. fd_open /\ ~stop
      BY <1>1, <2>1 DEF Sound
    <2>5. \A p \in Pages : mem'[p] # Zeros
      BY <1>1, <2>2, PageFacts DEF Sound
    <2> QED BY <1>1, <2>1, <2>3, <2>4, <2>5 DEF Sound
  <1> QED BY <1>1, <1>2, <1>3, <1>4, <1>5 DEF Handler

\* The demos of both programs: only a failed system call makes one fail, and no
\* order of the two threads, the stop flag and the detached or joined handler.
THEOREM CauseInvariant == Spec => []FailureHasACause
  <1>1. Init => SoundInv
    <2> SUFFICES ASSUME Init PROVE Sound
      BY DEF SoundInv
    <2>1. /\ mem = [p \in Pages |-> Absent] /\ message = Absent /\ ok = TRUE
          /\ hpc = "none" /\ verdict = "none" /\ pc \in {"syscall", "builder"}
          /\ non_blocking = FALSE /\ stop = FALSE /\ faults = 0
      BY DEF Init, RestoreInit
    <2>2. Served = {}
      BY <2>1 DEF Served
    <2>3. faults = Cardinality(Served)
      BY <2>1, <2>2, FS_EmptySet
    <2>4. \A p \in Pages : mem[p] # Zeros
      BY <2>1, PageFacts
    <2> QED BY <2>1, <2>3, <2>4 DEF Sound
  <1>2. RestoreInv /\ SoundInv /\ [Next]_mainVars => SoundInv'
    <2> SUFFICES ASSUME RestoreInv, SoundInv, [Next]_mainVars PROVE SoundInv'
      OBVIOUS
    <2>1. RestoreNext \/ UNCHANGED restoreVars
      BY DEF Next, Demo, Bench, mainVars
    <2>2. CASE UNCHANGED restoreVars
      <3>1. UNCHANGED <<program, pc, non_blocking, ok, verdict, stop, mem, fd_open, message,
                        hpc, fault, faults, broken>>
        BY <2>2 DEF restoreVars, demoVars, kernelVars, handlerVars
      <3>2. Served' = Served
        BY <3>1, ServedSame
      <3> QED BY <3>1, <3>2 DEF SoundInv, Sound
    <2> QED BY <2>1, <2>2, SoundMain, SoundHandler DEF RestoreNext
  <1>3. SoundInv => FailureHasACause
    BY DEF SoundInv, Sound, FailureHasACause
  <1> QED BY <1>1, <1>2, <1>3, RestoreInvariant, PTL DEF Spec
=============================================================================
